# The Eye in TLA+

The Eye is a platform whose claim is that nothing it says can be rewritten
later: predictions, their repricings and their settlements are sealed into a
hash chain that travels in the repository, is mirrored in a cloud ledger and is
anchored on a blockchain, by jobs nobody watches. The repository spends its
comments on that claim; these modules state it, check it on small instances
with TLC and prove it, where the prover reaches, for all instances.

Names follow the code, which is in Portuguese; comments are in English.
Paths below are relative to the repository (`src/asus_theye/...`).

## 1. Inventory

What the code has, the state each part keeps, and what is hard about it.
"Module" says where it is modelled; the last part of this file has the plan.

### Core

| Component (code) | State | Operations | Module |
|---|---|---|---|
| Local sealed chain (`audit/sdk.py`, `audit/schema.py`, `migrations/0001_audit_ledger.sql`, `markets/auditoria.py`, `scripts/reconciliar_selagem.py`) | SQLite table `audit_events` (not versioned), `reports/markets/eventos.jsonl` (versioned, canonical), `chave.fingerprint` | open = lock the key, verify the file, restore the database from it; seal a record (read position, seal, re-read position, insert, export); reconcile a divergence | `CorrenteLocal`, abstract `DiarioSelado` |
| Live markets (`markets/live.py`, `markets/reprecificar.py`, commands of `cli.py`) | `registro.json` (whole file rewritten), `resolucoes.jsonl` (append-only), `.lock`, what was sealed | resolve (repair, settle, emit the next market, seal), daily round, single repricing, emission by hand | `Mercados` |
| Cloud ledger (`infra/cloudflare/staging/worker.ts`, `audit/remote_ledger.py`, `audit/sync_ledger.py`) | D1 table `audit_events`, requests inside the Durable Object, what each client waits for | publish one event, mirror the local chain, the sequencer's duplicate check / head read / insert | `EspelhoD1` (implements `DiarioSelado`) |
| Scheduled operation (`.github/workflows/operacao-continua.yml`, `rodada-diaria.yml`, `audit/anchor.py`, `TheEyeAuditAnchor.sol`) | main branch, one clone per run, cloud rows, anchored roots, `ancoras.jsonl` | checkout, seal, anchor, mirror, commit, rebase, push, fail | `Operacao` |
| Batches and anchors (`audit/batching.py`, `manifest.py`, `merkle.py`, `anchor.py`, `publicar_ancora.py`, `TheEyeAuditAnchor.sol`, endpoints `/batches`, `/batches/external`, `/anchors`, `apps/public-verifier/worker.ts`) | `audit_batches`, `audit_batch_events`, `audit_anchors`, the contract, `ancoras.jsonl` | batch what is pending, anchor the whole chain, publish root and anchor, serve the roots | `LotesD1`, with the trees of `Merkle` |
| Stores beside the chain (`mlops/rastreio.py`, `markets/serie_p.py`, `markets/comparador.py`) | one JSONL file per kind of record, a lock per directory or file | register under the lock: look up, seal, append | `LojasSeladas` |
| Checkpoint and redaction (`audit/checkpoint.py`, `audit/redacao.py`) | the same files, a lock of its own | seal a checkpoint, copy, seal a receipt, write back | `LojasSeladas` |
| Collection (`source_graph/fetcher.py`, `robots.py`, `paralelo.py`, `net/http.py`) | slots per host (locked), robots cache (not locked), one queue per thread | ask robots.txt, wait for a slot, request, retry, isolate failures | `Coleta` |

How they interact. Every command that seals opens the local chain
(`abrir_auditoria`) and calls `selar_registro`; `Mercados` uses of the chain
only what `DiarioSelado` promises. The mirror reads `eventos.jsonl` and posts
it; `EspelhoD1` takes a local event to be its position in that file, which is
justified by what `CorrenteLocal` proves of it (append-only, one chain). The
workflows run those commands in clones that are thrown away; `Operacao` takes
each command as one step and is about what the clones do to each other.
`LotesD1` takes of the two chains what `CorrenteLocal` and `EspelhoD1` prove
(sequences 1..n, append-only), `LojasSeladas` of the chain what `DiarioSelado`
promises. `Coleta` stands alone: what it brings in is the input of the others.

### Also in the repository

The evidence graph (`evidence/grafo.py`) is built from the files above and
walked in memory; it changes nothing. The log of `llm/audited.py` and the
opportunities of `commercial/pipeline.py` are append-only files whose last
record is read before the next is appended, without a lock; each has one
caller. Calibration, consensus, scoring, nowcast, benchmark
(`markets/calibracao.py`, `benchmark/maxcut.py`, ...): floating-point
arithmetic over files read once. Dashboards, reports, LLM clients, connectors,
commercial pages: rendering and remote reads. None of these is modelled. The
directories `audit/`, `markets/`, ... at the top of the repository are older
copies of the same packages.

### What is hard, and what makes each part correct

- *Local chain.* Position read in one statement, re-checked in a second, used
  in a third, with no lock; death between the commit and the export; a
  database that is lost or behind the file; the same identity sealed with
  other contents. Correct: one gapless chain, file and database never
  contradict, a receipt can be shown from the file alone, retries get the
  same event.
- *Markets.* Every command rewrites a whole file from a copy it read earlier,
  and only one of them takes the lock; settlement, ledger line and seal are
  three writes. Correct: a settlement is final, official and on the ledger
  once; a probability moves only by a sealed event; what is due is settled.
- *Cloud.* The sequencer awaits between check and insert; a client may give
  up on a request that is executed later. Correct: one chain, one row per
  key, truthful receipts, a mirror without holes that becomes complete.
- *Operation.* Two writers on clones of one branch, three stores written in
  sequence, every step may fail. Correct: what is published verifies and only
  grows, a green run has published, what is published is mirrored.
- *Batches and anchors.* Events, batches and the chain are read in different
  requests and written in others; two kinds of batches meet in one table; a
  transaction is mined whether or not anybody hears of it. Correct: batches
  follow each other, proofs serve their event and no other, a root that is
  served is in the contract under the transaction it is served with.
- *Stores.* Lookup, seal and append are three steps in two media, and a
  redaction writes a whole file back under another lock. Correct: no line
  without its event, one line per identity, nothing goes but by a sealed
  redaction.
- *Collection.* Threads share slots and a cache, sleep outside the lock, and
  retry. Correct: requests to one site keep their distance, refusals are
  final, every task gets a result.

`PROJECT.json` lists these hazards line by line with the properties that cover
them, and those no property covers yet with the reason.

## 2. Modules

Each component has one module with state, one action per statement that reads
or writes shared state, properties, and the strengthening its proof needs. In
each, mutants (a definition with a plausible bug: a dropped guard, an
off-by-one) stand next to the definitions they replace; every property is
broken by one of them, which is how the project knows the properties speak
about the code.

### DiarioSelado - what a sealed ledger promises

A journal with one entry per key, each new entry after all the others, and
receipts that name the entry of their key (or, for other contents, that a
reconciliation of exactly those contents is in the journal). Entries no
receipt relies on may be lost; the rest stays for ever. `CorrenteLocal`
implements it with `diario` = rows of the database and lines of the file, and
`EspelhoD1` with `diario` = rows of the D1 table.

### CorrenteLocal

`banco` is `audit_events`, `arquivo` is `eventos.jsonl` in file order; of each
process, `fase` (closed, opening, open), `passo` (the statement it executes
next), `fila` (lines still to be restored), `evento` (what it is appending),
`selado` (the row of its receipt). `recibos` records what callers were told.

| Action | Code |
|---|---|
| `Abrir`, `LerCabeca`, `Restaurar`, `FimDaRestauracao` | `abrir_auditoria`, `_sincronizar_do_export` (auditoria.py:139-183) |
| `Selar`, `Reconciliar` (`Registrar`) | `selar_registro` up to `AuditSDK.record` reading the position; `reconciliar_selagem.py` |
| `Conferir`, `ConflitoDePosicao` | the second read of the position (sdk.py:66-69) |
| `Gravar`, `Deduplicar`, `UnicidadeViolada` | the transaction and its IntegrityError (sdk.py:70-113) |
| `DivergenciaTolerada`, `DivergenciaLevanta` | auditoria.py:237-256 |
| `JaExportado`, `FaltaExportar`, `Anexar` | the export, read and append apart (auditoria.py:258-266) |
| `Queda`, `PerderBanco` | death between statements; clone without the database |

SHA-256 is taken to be injective, so a hash is represented by the identifier
of what it commits to.

### Mercados

`registro`, `resolucoes`, `trava`, `selados`, `mudancas` are the shared files,
the lock and the chain; `memoria` and `lido` are the copies of the registry a
process holds (`rodada` holds both: the one it read at its start and the one
`reprecificar` reads again). `hoje` and `fonte` are calendar and official
source: until a month is over the source may change its answer.

| Actions | Code |
|---|---|
| `IniciarResolucao` ... `FimDaResolucao` | `resolver_pendentes`, `_resolver_pendentes_travado` (live.py:362-645): repair pass, visit of each live market, emission of the next, sealing sweep |
| `EmitirSeguinte`, `JaEmitido`, `NaoEmitido` | the emission in the iteration that settled (live.py:541-577): a new market, one that is there, or an exception that is caught |
| `IniciarRodada`, `Mover`, `SelarMudanca`, `GravarMudanca`, `FimDaRodada` | `rodada` and `reprecificar` (reprecificar.py:50-137, 243-368) |
| `IniciarReprecificacao`, `FimDaReprecificacao` | `markets-reprecificar` |
| `IniciarEmissao`, `Emitir` | `markets-emitir` |
| `ErroDeFonte`, `NaoSela`, `SelagemLevanta`, `Queda` | what fails, caught or not |

A claim is an area and a month; the deadline guard tells only months apart.

### EspelhoD1

`tabela` is `audit_events` in D1 for one tenant, `pedidos` the requests inside
the Durable Object (each at one of its awaits), `clientes` the commands that
publish, `locais` the length of the local chain. A local event is its
position, and so is its idempotency key, which the code derives from its hash.

| Actions | Code |
|---|---|
| `IniciarSync`, `Seguinte` | `sincronizar` posts the whole chain from its first event (sync_ledger.py:82-107) |
| `IniciarPublicacao`, `Postar`, `Receber`, `Levantar`, `Desistir` | `publish_event` (remote_ledger.py:77-109) |
| `Duplicata`, `LerCabeca`, `Gravar`, `Recusar`, `Descartar` | `AuditSequencer.fetch`, one action between two awaits (worker.ts:424-500) |
| `Perder` | a request or an answer lost |

Cloudflare's input gates hold back events while a Durable Object waits for its
own storage; D1 is outside, so requests do interleave at these awaits.

### Operacao

`principal` is the main branch (commit number, chain, anchors), `base` and
`copia` what each run checked out and has now, `fase` its step, `espelho` the
mirrored events, `contrato` the anchored chains, `prometidos` what green runs
sealed. An event carries the event before it, so two clones that seal at one
position seal different events.

| Actions | Code |
|---|---|
| `Clonar`, `Selar`, `FimDosComandos` | checkout; the commands (operacao-continua.yml:86-112, rodada-diaria.yml:60-66) |
| `PularAncora`, `Ancorar` | `markets-anchor --minimo` (anchor.py:134-161, 296-380), with the answer lost or not |
| `Espelhar`, `EspelharEmParte` | `ledger-sync` |
| `Empurrar`, `NadaMudou` | commit and push of operacao-continua, which does not pull |
| `Commitar`, `Puxar`, `Conflito`, `EmpurrarDiaria`, `Repetir`, `Esgotar` | the loop of three attempts of rodada-diaria |
| `Falhar` | any step exits with an error (a refused push of operacao-continua is one), or the job times out |

### Merkle and LotesD1

`Merkle` has the tree of `audit/merkle.py` as functions: levels, added until one
has a single node, the proof of one leaf with its position halved at each level,
its verification. Keccak is injective, leaves and nodes are told
apart by their prefixes, and a node is the set of its two children, since they
are sorted before they are hashed. `LotesD1` computes the roots and proofs of
its batches with it.

`lotes`, `ancorasD1` are the tables, `contrato` the batches the contract holds,
`ancoras` the lines of `ancoras.jsonl`, `eventos` and `corrente` the lengths of
the two chains, `processos` what each command has read and does next.

| Actions | Code |
|---|---|
| `LerEventos`, `LerLotes` | `batch_pending_events`: GET /events (the last 50), GET /batches (batching.py:106-130, worker.ts:139-151, 256-267) |
| `GravarLote`, `RecusarLote` | POST /batches, one transaction (worker.ts:158-254) |
| `IniciarAncora` | `markets-anchor --minimo`: `eventos_sem_ancora`, `lote_da_corrente` (cli.py:780-800) |
| `Transmitir`, `RegistrarAncora` | `anchorBatch` and the line of `ancoras.jsonl` (anchor.py:296-380) |
| `LerAncora`, `PostarExterno`, `Existente`, `PostarAncora` | `publicar` and the two endpoints it calls (publicar_ancora.py:59-112, worker.ts:275-401) |
| `Servidas` | `publishedRoots` of the public verifier |
| `CrescerD1`, `CrescerLocal` | the chains grow under the commands' feet |
| `Queda` | a command dies, is refused, or never hears of its transaction |

The worker's test that the events of a native batch exist is left out: they
were read from the same append-only table. Two native batches of one range
never both exist, so the range stands for the uuid; two manifests of one chain
differ by their uuid, as in the code.

### LojasSeladas

One module for three registries that repeat one pattern, with the redaction
that cuts across them. `arquivos` holds each file as a set of numbered lines,
`rasgadas` the files with the rest of a line in them, which no reader can parse,
`travas` the locks of those who register, `redacao` the lock `redacao.py` takes
on a directory, `diario` the events. What makes the stores different is in the
constants: the file and the lock of an identity, whether another content is refused
(`Estritas`: models, versions and promotions) or the first record stands (runs,
points, comparisons), what a record refers to, and whether its content is given
by the caller (`Registros`) or is the price of now (`Pontos`). `Motivos` are the
reasons a redaction is asked for: the reason, its justification and who asks.

| Actions | Code |
|---|---|
| `Registrar`, `RegistrarPonto` | the record and what it refers to, before the lock (rastreio.py:305-431, serie_p.py:173-198, comparador.py:98-121) |
| `Tomar`, `Divergir` | the lock and the lookup (rastreio.py:186-193) |
| `Selar`, `SelagemLevanta` | `selar_registro` (auditoria.py:186-266), as `DiarioSelado` has it |
| `Apendar` | the append (rastreio.py:202-203, serie_p.py:216-218, comparador.py:139-141) |
| `Justificar`, `Copiar`, `NadaAExpurgar`, `SelarRecibo`, `ReciboRecusado` | `redigir` up to the receipt (redacao.py:77-139): checkpoint, copy under the lock, nothing to remove, the receipt and its refusal when the same lines went for another reason before |
| `Truncar`, `Escrever` | `write_text` (redacao.py:143): opening the file empties it, and the text is written from its beginning. Lines appended in between are written over, one of them perhaps in part, or stay after what is written; all of them stay when there is nothing to write |
| `LeituraLevanta` | a reader meets the rest of a line: `json.loads` raises |
| `Reconciliar`, `Reprecificar` | who changes what a seal is compared with |
| `Queda` | death with locks held: flock is dropped with its process |

### Coleta

`fios` is what the thread of each queue does, `idade` the time since the last
slot of a site, `robots` the cached entry of a site, `respostas` every answer a
task got, `resultados` what `executar_por_host` will return for it. Time passes
in steps of `Passar`; ages stop at the interval and the ttl, past which the
code does not tell them apart.

| Actions | Code |
|---|---|
| `Comecar`, `Acabar`, `Concluir` | the pool, one thread per queue (paralelo.py:82-131) |
| `Consultar`, `Receber` | `allowed` and the cache (fetcher.py:126-131, robots.py:42-68); `access_basis` may skip them |
| `Vez`, `Acordar` | `_wait_for_slot`: look and reserve under the lock, sleep outside, look again (fetcher.py:135-148) |
| `Responder`, `Retentar`, `Desistir` | `get` and `_backoff` (fetcher.py:150-206) |

Queues and sites are different constants, because `Tarefa.host` is declared by
hand and the fetcher limits the host of the URL: two queues may want one site.

## 3. Runs

| Run | Instance | Question | Answer |
|---|---|---|---|
| `corrente_local` | 2 processes, 2 identities, 2 contents, 3 ids, 1 death, 1 lost database | do races, deaths and losses ever break chain, file or receipts? does it implement `DiarioSelado`? | no; yes |
| `corrente_buraco` | 1 process, 2 identities, 1 death | does the next round repair the export? | **no** (finding 3) |
| `mercados_livre` | 2 processes, resolver and round, 2 months, 1 repricing, 1 death | what survives the missing lock? | one line per claim, official outcomes, no effect without event |
| `mercados_serial` | 1 process, all four commands one after the other, 2 months, 1 repricing, 2 deaths, fair | are ledger, registry and seal consistent when commands do not overlap? is everything due settled, recorded and sealed? | yes, both |
| `mercados_terminal` | resolver and round together | is LIQUIDADO final? | **no** (finding 1) |
| `espelho_d1` | 2 clients, 2 requests at a time, 2 local events and 1 other, 1 failure, fair | one chain, true receipts, mirror in order and complete? | yes, all |
| `operacao` | 1 run of each workflow, 3 events, 1 foreign commit, minimum 2, 2 attempts, fair | is the published chain sound, final and mirrored? | yes |
| `operacao_verde` | the same | does green mean published? | **no** (finding 2) |
| `lotes_d1` | 2 commands, window 3, 4 events, 2 local ones, 2 manifests, 1 death, fair | do batches leave gaps, do proofs serve, is what is served anchored, and is the anchor served in the end? | no; yes, yes, and yes unless a native batch took its range |
| `lojas` | 2 commands, 2 stores under one lock (one strict) and one under another, 2 contents, 1 repricing, 1 reconciliation, 1 redaction, 1 death | can a line be without its event, an identity have two lines? | no |
| `lojas_expurgo` | 3 commands, 1 store with 2 identities, 2 reasons, 3 redactions, 1 death | can a redaction write back what another took out, can a line go unsealed? | no |
| `coleta` | 2 threads, 3 tasks of one site, interval 2, ttl 1, 1 retry, fair | distance, refusals, and does every task end? | kept, final, yes |

Why the bounds are enough. Two processes are all a race needs, since the
shared state is per chain and no action looks at more than one other holder of
a position; three ids give a winner, a loser and a retry. One death (two where
repair may itself die) is the case the repair code was written for. Two months
give a settled market and its successor. In `mercados_serial` one process is
every command that runs alone: what one leaves behind the next one finds. In
`espelho_d1` the table has room for every key, so its bound never cuts a
behaviour; two local events and a foreign one give order, overlap and a lost
race; two places of the sequencer are two interleaved requests. In `operacao`,
three events are enough for both clones to seal at the same position and for
the next run to seal over what was lost; two attempts include the retry and
its exhaustion. In `lotes_d1` a window of three over four events lets a batcher
find its window full, exactly filled and not filled, and gives trees with one,
two and three leaves (an odd level over an even one); two manifests are the one
that is published and the one that races with it, or that was mined unheard. In
`lojas` two identities of one lock that refer to each other, and one of another
lock, are the ways stores differ; one death and one redaction at any step meet
every step of another command. In `lojas_expurgo` two identities of one file
leave something to write back, three redactions and two reasons give a second
one of the same lines, refused or not, and one that runs beside them, and the
death may come between any two of its steps. In `coleta` two queues over one
site are the race for a slot, the queue of two tasks shows that failures do not
end it, and with one retry every answer comes both as a first and as a last
one; an interval of two makes a sleeper wake between two slots. Counters
(deaths, losses, repricings, events) are capped in the guards under the names
`Max...`.

Deadlock is checked for `espelho_d1`, `lotes_d1`, `coleta` and the runs of
`LojasSeladas` and `Operacao`. It is off elsewhere because those systems may
stop: identifiers run out in `CorrenteLocal`; with one market per area and
bounded months a resolver that needs a later month cannot emit it, and a
repricing beyond `MaxMudancas` waits, in `Mercados`.

### Fairness

Safety is checked and proved without any. Liveness assumes:

- `SpecJusta` (`MCMercados`): the cron starts the resolver again and again,
  whatever else is run in between (strong), its steps execute (weak), and
  source and auditor do not fail every single time (strong fairness of
  `Liquidar` and `SelarLiquidacao`). Nothing is assumed of an emission, which
  the code tries once and not again.
- `FairSpec` of `EspelhoD1`: requests are served and answered (weak); a client
  gets a place of the sequencer again and again and the mirror is run again
  (strong), by the cron step operacao-continua.yml:131-137.
- `FairSpec` of `Operacao`: operacao-continua is started by its cron, runs end
  (`timeout-minutes`), and its steps up to the mirror do not fail for ever
  (strong). Nothing is assumed of rodada-diaria.
- `FairSpec` of `LotesD1`: a command that was started goes on (weak), and
  publicar-ancora is started again and again (strong). No workflow starts it:
  `AncoraServida` says what its operator gets by repeating it, which the code
  invites to (publicar_ancora.py:118, "idempotente por tx_hash/batch_id").
- `FairSpec` of `Coleta`: threads run and requests end, by `timeout_seconds`
  (weak), and time passes (weak). No thread is promised a slot: that a waiting
  thread gets one follows from the finite work of the others.

## 4. Proofs

The eight modules `*_proofs` prove, for all values of the constants under the
assumptions named in the modules (bounds are naturals; identifiers, keys and
special values are distinct), type correctness, every safety invariant and
every action property the runs check, and both refinements. Each follows the
same line: an inductive invariant `IInv`, `Init => IInv`, one lemma or step per
action for `IInv /\ [Next]_vars => IInv'`, and the properties as consequences.

- *CorrenteLocal.* `CorrenteIntegra` is not inductive: that a re-checked
  position is still good when it is inserted needs `GravaLigado` (the event in
  hand stays linked whatever is committed meanwhile) and `SemLacuna` (no
  sequence below the top is missing, so a colliding position is always taken).
  That the file never contradicts the database needs `RestauraTudo`: whoever
  may seal has the whole file in the database, whoever is opening holds the
  rest. Receipts rest on `ReciboNomeiaLinha`. `SoApenda` is proved as an
  action property.
  `ImplementaODiario` proves the refinement of `DiarioSelado`. The journal is a
  function of two stores - an entry for every event that is a row or a line - so
  the lemmas first say what a row, a line or a loss does to it
  (`DiarioDeEntradas`, `DiarioSegue`, `InsereNoTopo`). Then the `Gravar` of a
  new event is `Selar`, a step that returns a receipt (`Anexar`, `JaExportado`,
  `DivergenciaTolerada`) is `Receber`, `PerderBanco` is `Esquecer` of the entries
  that are only rows, and everything else stutters; the `Gravar` of a
  restoration writes a row for an entry the file has already.
- *Mercados.* `DesfechoOficial` and `EfeitoComEvento` are about the file, but
  any process may write its old copy over it, so the invariant
  (`CopiasJustificadas`) says of every copy, in memory or on disk, that its
  settlements are official and its probabilities sealed. `LedgerUnico` needs
  the lock (`Ordem`) and that a line found missing under it is still missing
  (`AnexaInedito`).
- *MercadosSerial.* `LedgerFiel`, `SelagemFiel`, `LiquidadoTerminal` and
  `SoRodadaDesfaz` are proved for commands that do not overlap (`SpecSerial`),
  for any number of them, deaths, areas and months. On a runner this is so:
  the commands are steps of one job on a clone of its own; on a desk nothing
  but the resolver's lock keeps them apart. The run has them from one
  process. The hypothesis is needed: with resolver and round at once
  `mercados_terminal` takes a settlement back. That a write of the whole
  registry takes nothing back needs `CopiaAtual`: the copy of a resolver or of
  an emission is the registry; that of a round may lack repricings, but of
  markets that are still live, because what it skips in between settles
  nothing. That a seal is a line
  of the ledger needs `LinhaDevida`: a settled market without its line is in
  the repair list or in hand, so none is left when the sweep begins - this is
  where the order repair, visit, sweep of live.py is used.
- *EspelhoD1.* The rows carry exactly the sequences 1..n (`Numeradas`), which
  turns "the head I read plus one does not collide" into "the row before mine
  is the one I read". `EspelhoEmOrdem` needs to know of every request,
  including those nobody waits for any more, that the event before its own has
  its row (`PedidoFiel`, `EsperaFiel`). `ImplementaODiario` proves the
  refinement of `DiarioSelado`: `Gravar` is `Selar`, `Receber` is `Receber`,
  everything else stutters.
- *Operacao.* A push only asks whether the branch still has the commit the run
  was cloned from; that it then loses nothing needs `BaseAtual` (a clone of the
  current commit is a clone of the branch as it is) and `CopiaFiel` (a clone
  extends what it was cloned from, verifies, and its anchors are the
  contract's), which a rebase re-establishes only because it refuses a chain
  that has changed. `SoAvanca` and `PublicadaIntegra` follow for any number of
  overlapping runs. `VerdeDaContinua` needs `FaseFiel`: what a run of
  operacao-continua commits is mirrored already.
- *LotesD1.* The invariant says of every row what it is: a native batch of the
  ledger's own events that goes on where another ends, or the manifest of an
  anchor the contract holds (`NativoFiel`, `ExternoFiel`); and of every command
  that what it read is still true (`ProcessoFiel`), because all stores only
  grow. `RaizServida` then needs that an anchor in D1 names a row with the root
  of its transaction (`Ancorado`), also when the row was there before under
  another uuid. `ProvasServem` is about the trees, for batches of any length.
  The levels, the positions and the hashes of a verification are recursive
  functions; the library's induction theorem takes an operator, which the
  provers cannot instantiate, so `Inducao` states induction for a set of
  numbers, from the least element of its complement. With it: the functions
  exist and satisfy their equations (`NiveisDef`, `PosicoesDef`), a level has
  half the nodes of the one below, so the loop of merkle.py:49 ends at one node
  (`Alturas`, `AlturaAcaba`), a position stays inside its level also at an odd
  end (`PosicaoNoNivel`), a node and its sibling are the children of the next
  (`IrmaosDoMesmoNo`), and hashing upwards walks exactly these nodes
  (`SobePelosNos`); `ProvaVerifica` follows for every leaf and every hash.
- *LojasSeladas.* Whoever seals or appends holds the lock of its store, and
  what it found missing is still missing, because only it may append and, until
  something is redacted, nothing goes; what a redaction copied was sealed when
  it was copied and stays so, and one that truncates has its receipt
  (`ProcessoFiel`). `SoExpurgoRemove` follows as an action property: of all
  steps only `Truncar` and `Escrever` take lines out, and the invariant has
  their seals. `NaoRessuscita` has an invariant of its own (`RInv`): whoever has
  copied holds the lock of the directory until it has written, so no other
  redaction truncates meanwhile, and everybody else only appends. Neither says
  that the other lines stay: they need not (section 5).
- *Coleta.* A task in hand has as many answers as attempts, those that wait
  have none, and a queue never goes back (`FioFiel`). `EspacoPorHost` is proved
  as an action property from the types alone: the only step into a request is
  `Vez`, whatever sleeper takes it.

Only model-checked: liveness (outside what the prover does), that is
`LiquidacaoChega`, `PrazoLiquida`, `EspelhoCompleto`,
`PublicadoChegaAoEspelho`, `AncoraServida` and `TodaTarefaTermina`.

## 5. Findings

1. *A round can take a settlement back.* live.py takes a lock so that nothing
   reverts a LIQUIDADO; `rodada` writes the whole registry back without it
   (`mercados_terminal`). The claim is then settled again, perhaps at another
   probability, its old line stays in the ledger, and the sweep may seal what
   no line says.
2. *Green without publishing.* When both workflows sealed, the rebase of
   rodada-diaria conflicts in `eventos.jsonl`; the loop ends with the status
   of `sleep` and the job is green (`operacao_verde`).
3. *The export is not repaired by the next round.* auditoria.py:22-24 promises
   that a round after a death between commit and append makes up for it. A
   sealing looks for its own event only: it does repair when the same record is
   sealed again, as the sweep of live.py:595-643 does for settlements. If
   another record comes first - a point, a repricing, another run - its event
   is appended after the missing one, and every later opening refuses the file
   (`corrente_buraco`). This needs a machine that keeps its database: a runner
   loses it with the event. What remains true is that no receipt is lost:
   `ReciboProvadoNoArquivo` is proved whatever is sealed first.

Seen while modelling, in the models but not the subject of a run:

- An area may stop. OPERACAO.md:55 says that markets-resolve emits the next
  month. It tries in the iteration that settled the last one, a failure is
  caught and reported (`nao_emitido`, live.py:562-564), and what is LIQUIDADO is
  not visited again (lines 421-423): somebody has to emit by hand. A death
  between settlement and emission does the same.
- A round undoes its own repricings, also when it runs alone. `reprecificar`
  writes the file, `rodada` then writes the copy it read at its start
  (reprecificar.py:247 and 368): the event is sealed, the effect is gone, though
  OPERACAO.md:64 says that it reprices what changed. What remains true is
  `EfeitoComEvento` and `SoRodadaDesfaz`.
- One failure ends the round. reprecificar.py:232 and OPERACAO.md:64 say that a
  market that fails never aborts the others; the exception of a seal does.
- D1 may hold two events of one local sequence. operacao-continua mirrors before
  it pushes. A run that ends in between, or whose push is refused because
  rodada-diaria got in first (both start at 13:00 UTC on days 11-15), leaves
  rows of events nobody publishes; the next run seals others at their sequences
  and mirrors them too.
- A redaction may take its neighbours along, which test_redacao.py:37 asserts it
  does not (in a test where nothing else runs). A redaction and the writers of
  its file take different locks (redacao.py:49-57, rastreio.py:139-148,
  serie_p.py:105-113): what is appended between copy and write is gone, though
  its event stays.
- Two processes may append the same event twice to the file (ids are read in
  one step, the line appended in another); a repeated line makes the file
  unreadable for `verify_chain`.
- A market whose month is over and which no round has settled yet can still be
  repriced: `reprecificar` looks at the state, not at the date.
- worker.ts:129 says that single-threaded execution serializes the sequence.
  It does not across awaits: of two interleaved requests one gets HTTP 500,
  also when both carry the same key, where the answer should have been the
  original event. The chain is kept by the UNIQUE constraints alone.
- worker.ts:269-274 says that external batches are marked `external`; the
  insert marks them `anchored` (line 305).
- batching.py:111 says "Batch every event after the last stored batch". Events
  that left the window of 50 first, or that an external batch of a longer local
  chain stepped over, are never in a batch: `LoteContinua` excepts full windows
  and counts external batches among the others.
- A native batch of the range 1..n keeps the external batch 1..n out: the
  worker answers 500 until the local chain grows. `AncoraServida` excepts it.
- A transaction that is mined after its command gave up leaves a root the
  contract never accepts again; the chain has to grow before it is anchored.
  Two overlapping markets-anchor may write their lines out of order, and
  publicar-ancora looks at the last line only.
- A writer that looks into a file while a redaction has it truncated appends a
  second line of an identity it does not see (`IdentidadeUnica` is therefore
  stated until something is redacted). When nothing is left to write, that line
  survives the redaction that was to remove it; when it is longer than what is
  written, its rest stays in the file and every reader raises from then on
  (`LeituraLevanta`).
- A line that was redacted comes back when its record is registered again: the
  event of its key is still there, and so is its content.
- rastreio.py:181-183 says that a death between seal and append is repaired by
  the next registration. It is, with the same content; a run with another
  `executada_em`, or a point of p(t) after a repricing of the day, is refused
  from then on as a divergence.
- One market whose point diverges ends `registrar_vivos` for the others
  (serie_p.py:236-248).
- robots.txt that fails to arrive is cached for 24 hours like one that does not
  exist (fetcher.py:120-123, robots.py:50-51), under the name `no_robots_file`,
  which docs/legal-intelligence/SOURCE_AUTHORITY_MODEL.md:60 takes for the
  latter; the cache has no lock, so it may also replace a prohibition another
  thread has just read.
- The slot is reserved under the lock and the request leaves after it: on the
  wire the distance is what the scheduler makes of it. robots.txt takes no
  slot; a Retry-After holds the thread that got it, not the others of the site,
  has no cap, and when negative ends the task with a ValueError.

## 6. Not modelled, and why

By lines, most of the repository is rendering, connectors, arithmetic in
floating point over files read once, and older copies of the same packages:
code without shared state, whose results the models take as inputs. What keeps
state that two steps can disagree about is modelled, except:

Torn writes of a file: each write is one step, but for that of `redigir`,
which is two (open and write), with the rest of a line it may leave. A death
in the middle of a write, or between truncation and write of registro.json,
leaves half a file: recovery is by git, not by code. A locked database: an
exception before anything changed, like `Levanta`. The content of texts, the list
`tentativas`, the second track `gerador_proprio`, `--no-audit`: no property
reads them. The tables outbox, evidence and retention: written and never read
by the code modelled. The key of the chain (auditoria.py:93-136): two files
written once, by the first opening of a machine. Request validation, tokens,
health and the evidence bucket of the worker: no shared state with the chain.
Deploy, roles and pause of the contract: administration by hand; reorganised
blocks: the code asks for one confirmation and never looks again. Several
tenants: the code has one. In `LojasSeladas`, a redaction without an auditor
(`sdk=None`), which seals nothing, and one whose store is missing.
In `Coleta`, `executar_por_host` is what shares a fetcher among threads; in the
repository only its tests call it. Files of the repository other than the chain
and the anchors in `Operacao`: their merge conflicts only add runs that fail.
Hash injectivity is assumed throughout.

## 7. Plan

Done, in the order of how much of the platform's claim rests on them:
`DiarioSelado`, `CorrenteLocal`, `Mercados`, `EspelhoD1`, `Operacao`; then
`Merkle` and `LotesD1`, `LojasSeladas` (series, registries, comparator and
redaction, planned as three modules and written as the one pattern they share)
and `Coleta`; their runs, and the proofs of all their safety properties.

Left, and why it comes after them:

1. `GrafoEvidencia`: a path to the source exists in the graph exactly when the
   files justify it, over bounded files.
2. `ChaveDaCorrente`: first openings on two machines.
