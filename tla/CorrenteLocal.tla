---------------------------- MODULE CorrenteLocal ----------------------------
(***************************************************************************)
(* The local sealed chain: the Audit SDK over its SQLite ledger            *)
(* (audit/sdk.py, migrations/0001_audit_ledger.sql), and the adapter of    *)
(* markets/auditoria.py that seals a record and exports the sealed event   *)
(* to the versioned file reports/markets/eventos.jsonl.                    *)
(*                                                                         *)
(* Several processes share one working copy: one database, one file, and   *)
(* no lock around sealing.  Each statement that reads or writes the        *)
(* database or the file is a step of its own, so processes interleave      *)
(* between them and a process may die between any two of them.             *)
(*                                                                         *)
(* An event is identified by its event_id.  SHA-256 is taken as injective, *)
(* so the hash of an event is represented by that identifier: an event     *)
(* whose "prev" is the id of another commits to all of its contents.       *)
(***************************************************************************)
EXTENDS Naturals, Sequences

CONSTANTS
  Processos,     \* processes that may open the chain of this working copy
  Correlacoes,   \* identities (tipo_evento, correlation_id) of what is sealed
  Conteudos,     \* content hashes a record may have
  Ids,           \* event identifiers (uuid4)
  Genesis,       \* GENESIS_HASH
  Nenhum,        \* no event in hand
  MaxQuedas,     \* bound: how many processes die in a behaviour
  MaxPerdas      \* bound: how many times the database is lost

(* A reconciliation has a key of its own: "reconciliacao:{k}:{hash c}".    *)
Reconciliacoes == Correlacoes \X Conteudos
Chaves == Correlacoes \cup Reconciliacoes

Eventos == [id : Ids, seq : Nat \ {0}, prev : Ids \cup {Genesis},
            chave : Chaves, conteudo : Conteudos]

ASSUME CorrenteAssumptions ==
  /\ Genesis \notin Ids
  /\ Nenhum \notin Eventos
  /\ Correlacoes \cap (Chaves \X Conteudos) = {}
  /\ MaxQuedas \in Nat
  /\ MaxPerdas \in Nat

VARIABLES
  banco,     \* rows of audit_events for the tenant
  arquivo,   \* lines of eventos.jsonl, in file order
  fase,      \* of each process: "fechada", "abrindo" or "aberta"
  passo,     \* of each process: the statement it executes next
  fila,      \* of each process: events of the file still to be restored
  evento,    \* of each process: the sealed event it is appending
  selado,    \* of each process: the row its receipt names
  recibos,   \* history: what selar_registro returned to its callers
  quedas,    \* number of processes that died
  perdas     \* number of times the database was lost

locais == <<fase, passo, fila, evento, selado>>
vars == <<banco, arquivo, locais, recibos, quedas, perdas>>

Fases  == {"fechada", "abrindo", "aberta"}
Passos == {"ocioso", "cabeca", "restaurar", "conferir", "gravar", "exportar", "anexar"}
Recibos == [chave : Chaves, conteudo : Conteudos, id : Ids]

Linhas == {arquivo[i] : i \in DOMAIN arquivo}

TypeOK ==
  /\ banco \in SUBSET Eventos
  /\ arquivo \in Seq(Eventos)
  /\ fase \in [Processos -> Fases]
  /\ passo \in [Processos -> Passos]
  /\ fila \in [Processos -> SUBSET Eventos]
  /\ evento \in [Processos -> Eventos \cup {Nenhum}]
  /\ selado \in [Processos -> Eventos \cup {Nenhum}]
  /\ recibos \in SUBSET Recibos
  /\ quedas \in 0 .. MaxQuedas
  /\ perdas \in 0 .. MaxPerdas

-----------------------------------------------------------------------------
(* The rows with the highest sequence: ORDER BY sequence DESC LIMIT 1.     *)
Topo(S) == {e \in S : \A f \in S : f.seq <= e.seq}

(* Mutant: a chain counted from zero.                                      *)
PosicoesDeZero(S) ==
  IF S = {} THEN {[seq |-> 0, prev |-> Genesis]}
            ELSE {[seq |-> e.seq + 1, prev |-> e.id] : e \in Topo(S)}

(* SQLiteAuditStore.next_position: one past the top row and its hash.      *)
Posicoes(S) ==
  IF S = {} THEN {[seq |-> 1, prev |-> Genesis]}
            ELSE {[seq |-> e.seq + 1, prev |-> e.id] : e \in Topo(S)}

(* schema.verify_chain over a list of sealed events: sorted by sequence,   *)
(* the sequences are consecutive with no repetition, the first event       *)
(* points at Genesis and every other at its predecessor.                   *)
Encadeado(l, linhas) ==
  IF \A i \in DOMAIN linhas : l.seq <= linhas[i].seq
  THEN l.prev = Genesis
  ELSE \E i \in DOMAIN linhas : linhas[i].seq + 1 = l.seq /\ linhas[i].id = l.prev

VerificaCorrente(linhas) ==
  /\ \A i, j \in DOMAIN linhas : i # j => linhas[i].seq # linhas[j].seq
  /\ \A i \in DOMAIN linhas : Encadeado(linhas[i], linhas)

(* Mutant: a table without UNIQUE (tenant_id, sequence).                   *)
ColideSemSequencia(e) == \E r \in banco : r.id = e.id \/ r.chave = e.chave

(* The UNIQUE constraints of audit_events.                                 *)
Colide(e) == \E r \in banco : r.id = e.id \/ r.seq = e.seq \/ r.chave = e.chave

(* divergencia_reconciliada: the file holds a reconciliation of (k, c).    *)
Reconciliada(k, c) == \E l \in Linhas : l.chave = <<k, c>>

(* uuid4: an identifier nobody holds.                                      *)
Conhecidos ==
  banco \cup Linhas \cup {evento[p] : p \in {q \in Processos : evento[q] # Nenhum}}

IdsEmUso == {e.id : e \in Conhecidos}

-----------------------------------------------------------------------------
Init ==
  /\ banco = {} /\ arquivo = <<>>
  /\ fase = [p \in Processos |-> "fechada"]
  /\ passo = [p \in Processos |-> "ocioso"]
  /\ fila = [p \in Processos |-> {}]
  /\ evento = [p \in Processos |-> Nenhum]
  /\ selado = [p \in Processos |-> Nenhum]
  /\ recibos = {} /\ quedas = 0 /\ perdas = 0

(* The process goes to phase f, holding nothing.                           *)
Solta(p, f) ==
  /\ fase' = [fase EXCEPT ![p] = f]
  /\ passo' = [passo EXCEPT ![p] = "ocioso"]
  /\ fila' = [fila EXCEPT ![p] = {}]
  /\ evento' = [evento EXCEPT ![p] = Nenhum]
  /\ selado' = [selado EXCEPT ![p] = Nenhum]

(* An exception leaves the call: abrir_auditoria fails and the process     *)
(* has no SDK, a seal fails and the caller keeps the SDK it had.           *)
Levanta(p) ==
  /\ Solta(p, IF fase[p] = "aberta" THEN "aberta" ELSE "fechada")
  /\ UNCHANGED <<banco, arquivo, recibos, quedas, perdas>>

-----------------------------------------------------------------------------
(* abrir_auditoria -> _sincronizar_do_export.                              *)

(* Mutant: the database is opened as it is.                                *)
AbrirSemSincronizar(p) ==
  /\ fase[p] = "fechada"
  /\ fase' = [fase EXCEPT ![p] = "aberta"]
  /\ UNCHANGED <<banco, arquivo, passo, fila, evento, selado, recibos, quedas, perdas>>

(* The file is read and verified; a file that does not verify raises, so   *)
(* the process stays closed.  An empty file returns at once.               *)
Abrir(p) ==
  /\ fase[p] = "fechada"
  /\ VerificaCorrente(arquivo)
  /\ fase' = [fase EXCEPT ![p] = IF arquivo = <<>> THEN "aberta" ELSE "abrindo"]
  /\ passo' = [passo EXCEPT ![p] = IF arquivo = <<>> THEN "ocioso" ELSE "cabeca"]
  /\ fila' = [fila EXCEPT ![p] = Linhas]
  /\ UNCHANGED <<banco, arquivo, evento, selado, recibos, quedas, perdas>>

(* cabeca_da_corrente: only the lines ahead of the local head are restored. *)
LerCabeca(p) ==
  /\ passo[p] = "cabeca"
  /\ \E pos \in Posicoes(banco) :
       fila' = [fila EXCEPT ![p] = {e \in fila[p] : e.seq >= pos.seq}]
  /\ passo' = [passo EXCEPT ![p] = "restaurar"]
  /\ UNCHANGED <<banco, arquivo, fase, evento, selado, recibos, quedas, perdas>>

(* The next line, in sequence order, goes verbatim to store.append.        *)
Restaurar(p) ==
  /\ passo[p] = "restaurar"
  /\ \E e \in fila[p] :
       /\ \A f \in fila[p] : e.seq <= f.seq
       /\ evento' = [evento EXCEPT ![p] = e]
       /\ fila' = [fila EXCEPT ![p] = @ \ {e}]
  /\ passo' = [passo EXCEPT ![p] = "conferir"]
  /\ UNCHANGED <<banco, arquivo, fase, selado, recibos, quedas, perdas>>

FimDaRestauracao(p) ==
  /\ passo[p] = "restaurar" /\ fila[p] = {}
  /\ Solta(p, "aberta")
  /\ UNCHANGED <<banco, arquivo, recibos, quedas, perdas>>

-----------------------------------------------------------------------------
(* selar_registro -> AuditSDK.record -> SQLiteAuditStore.append.           *)

(* record reads the next position and seals the event body for it.         *)
Registrar(p, k, c) ==
  /\ fase[p] = "aberta" /\ passo[p] = "ocioso"
  /\ \E pos \in Posicoes(banco), id \in Ids \ IdsEmUso :
       evento' = [evento EXCEPT ![p] =
         [id |-> id, seq |-> pos.seq, prev |-> pos.prev, chave |-> k, conteudo |-> c]]
  /\ passo' = [passo EXCEPT ![p] = "conferir"]
  /\ UNCHANGED <<banco, arquivo, fase, fila, selado, recibos, quedas, perdas>>

Selar(p) == \E k \in Correlacoes, c \in Conteudos : Registrar(p, k, c)

(* scripts/reconciliar_selagem.py: the sealed event is looked up in the    *)
(* file, and its hash becomes part of what is sealed for the pair (k, c).  *)
Reconciliar(p) ==
  \E l \in Linhas, c \in Conteudos :
    /\ l.chave \in Correlacoes
    /\ Registrar(p, <<l.chave, c>>, l.conteudo)

(* append re-reads the next position.  This SELECT runs before the INSERT  *)
(* opens the transaction, so another process may commit in between.        *)
Conferir(p) ==
  /\ passo[p] = "conferir"
  /\ [seq |-> evento[p].seq, prev |-> evento[p].prev] \in Posicoes(banco)
  /\ passo' = [passo EXCEPT ![p] = "gravar"]
  /\ UNCHANGED <<banco, arquivo, fase, fila, evento, selado, recibos, quedas, perdas>>

ConflitoDePosicao(p) ==
  /\ passo[p] = "conferir"
  /\ [seq |-> evento[p].seq, prev |-> evento[p].prev] \notin Posicoes(banco)
  /\ Levanta(p)

(* What follows append: the next line to restore, or the export.           *)
AposGravar(p, e) ==
  IF fase[p] = "abrindo"
  THEN /\ passo' = [passo EXCEPT ![p] = "restaurar"]
       /\ evento' = [evento EXCEPT ![p] = Nenhum]
       /\ selado' = selado
  ELSE /\ passo' = [passo EXCEPT ![p] = "exportar"]
       /\ selado' = [selado EXCEPT ![p] = e]
       /\ evento' = evento

(* The event row and its outbox row are inserted in one transaction.       *)
Gravar(p) ==
  /\ passo[p] = "gravar"
  /\ ~Colide(evento[p])
  /\ banco' = banco \cup {evento[p]}
  /\ AposGravar(p, evento[p])
  /\ UNCHANGED <<arquivo, fase, fila, recibos, quedas, perdas>>

(* IntegrityError: the row with the same idempotency key is the receipt.   *)
Deduplicar(p) ==
  /\ passo[p] = "gravar"
  /\ Colide(evento[p])
  /\ \E r \in banco : r.chave = evento[p].chave /\ AposGravar(p, r)
  /\ UNCHANGED <<banco, arquivo, fase, fila, recibos, quedas, perdas>>

(* IntegrityError with no such row: a position lost to another process.    *)
UnicidadeViolada(p) ==
  /\ passo[p] = "gravar"
  /\ Colide(evento[p])
  /\ \A r \in banco : r.chave # evento[p].chave
  /\ Levanta(p)

-----------------------------------------------------------------------------
(* selar_registro after the receipt: divergence, then export.              *)

DivergenteNunca(p) == FALSE     \* mutant: the dedupe hides the divergence
Divergente(p) == selado[p] # evento[p] /\ selado[p].conteudo # evento[p].conteudo

Devolve(p) ==
  /\ recibos' = recibos \cup
       {[chave |-> evento[p].chave, conteudo |-> evento[p].conteudo, id |-> selado[p].id]}
  /\ Solta(p, "aberta")

DivergenciaTolerada(p) ==
  /\ passo[p] = "exportar" /\ Divergente(p)
  /\ Reconciliada(evento[p].chave, evento[p].conteudo)
  /\ Devolve(p)
  /\ UNCHANGED <<banco, arquivo, quedas, perdas>>

DivergenciaLevanta(p) ==
  /\ passo[p] = "exportar" /\ Divergente(p)
  /\ ~Reconciliada(evento[p].chave, evento[p].conteudo)
  /\ Levanta(p)

(* Mutants: what was deduplicated is taken to be in the file; the file is  *)
(* rewritten with the event.                                               *)
JaExportadoSeDuplicado(p) ==
  /\ passo[p] = "exportar" /\ ~Divergente(p)
  /\ selado[p] # evento[p] \/ \E l \in Linhas : l.id = selado[p].id
  /\ Devolve(p)
  /\ UNCHANGED <<banco, arquivo, quedas, perdas>>

AnexarReescreve(p) ==
  /\ passo[p] = "anexar"
  /\ arquivo' = <<selado[p]>>
  /\ Devolve(p)
  /\ UNCHANGED <<banco, quedas, perdas>>

(* The ids of the file are read first; the append comes in a later step.   *)
JaExportado(p) ==
  /\ passo[p] = "exportar" /\ ~Divergente(p)
  /\ \E l \in Linhas : l.id = selado[p].id
  /\ Devolve(p)
  /\ UNCHANGED <<banco, arquivo, quedas, perdas>>

FaltaExportar(p) ==
  /\ passo[p] = "exportar" /\ ~Divergente(p)
  /\ \A l \in Linhas : l.id # selado[p].id
  /\ passo' = [passo EXCEPT ![p] = "anexar"]
  /\ UNCHANGED <<banco, arquivo, fase, fila, evento, selado, recibos, quedas, perdas>>

Anexar(p) ==
  /\ passo[p] = "anexar"
  /\ arquivo' = Append(arquivo, selado[p])
  /\ Devolve(p)
  /\ UNCHANGED <<banco, quedas, perdas>>

-----------------------------------------------------------------------------
(* The command that opened the chain ends.                                 *)
Fechar(p) ==
  /\ fase[p] = "aberta" /\ passo[p] = "ocioso"
  /\ Solta(p, "fechada")
  /\ UNCHANGED <<banco, arquivo, recibos, quedas, perdas>>

(* The process dies between two statements; SQLite rolls nothing back that *)
(* was committed, and the file keeps the lines it had.                     *)
Queda(p) ==
  /\ quedas < MaxQuedas
  /\ passo[p] # "ocioso"
  /\ quedas' = quedas + 1
  /\ Solta(p, "fechada")
  /\ UNCHANGED <<banco, arquivo, recibos, perdas>>

(* The database is not versioned: a fresh clone starts without it, and it  *)
(* may be deleted while nothing has it open.                               *)
PerderBanco ==
  /\ perdas < MaxPerdas
  /\ \A p \in Processos : fase[p] = "fechada"
  /\ banco # {}
  /\ banco' = {}
  /\ perdas' = perdas + 1
  /\ UNCHANGED <<arquivo, locais, recibos, quedas>>

-----------------------------------------------------------------------------
Sincronizar(p) == Abrir(p) \/ LerCabeca(p) \/ Restaurar(p) \/ FimDaRestauracao(p)

Apendar(p) ==
  Conferir(p) \/ ConflitoDePosicao(p) \/ Gravar(p) \/ Deduplicar(p) \/ UnicidadeViolada(p)

Exportar(p) ==
  \/ DivergenciaTolerada(p) \/ DivergenciaLevanta(p)
  \/ JaExportado(p) \/ FaltaExportar(p) \/ Anexar(p)

Next ==
  \/ \E p \in Processos :
       \/ Sincronizar(p) \/ Selar(p) \/ Reconciliar(p)
       \/ Apendar(p) \/ Exportar(p)
       \/ Fechar(p) \/ Queda(p)
  \/ PerderBanco

Spec == Init /\ [][Next]_vars

-----------------------------------------------------------------------------
(* PROPERTIES                                                              *)

(* Every row of the ledger is the first of the chain or points at the row  *)
(* with the sequence just before its own: no gap, no dangling hash.        *)
Ligado(e) ==
  \/ e.seq = 1 /\ e.prev = Genesis
  \/ \E f \in banco : f.seq + 1 = e.seq /\ f.id = e.prev

(* The ledger is one chain, with one row per sequence and per idempotency  *)
(* key, although the position of an event is read in one statement,        *)
(* re-checked in a second and used in a third, with other processes        *)
(* committing in between (SQLiteAuditStore.append).                        *)
CorrenteIntegra ==
  /\ \A e \in banco : Ligado(e)
  /\ \A e, f \in banco : e # f => e.seq # f.seq /\ e.chave # f.chave /\ e.id # f.id

(* No line of the file contradicts the ledger: where both have an event of *)
(* a sequence, it is the same event - also after the database was lost and *)
(* rebuilt from the file ("clone fresco ou banco apagado nao bifurca").    *)
SemBifurcacao == \A l \in Linhas, e \in banco : l.seq = e.seq => l = e

(* What selar_registro returned can be shown from the versioned file alone: *)
(* it holds the record with the content the caller gave, or a              *)
(* reconciliation that covers exactly that content.  A dedupe never hides  *)
(* a divergence, and no crash or lost database takes back a receipt.       *)
ReciboProvadoNoArquivo ==
  \A r \in recibos :
    \/ \E l \in Linhas : l.chave = r.chave /\ l.conteudo = r.conteudo
    \/ Reconciliada(r.chave, r.conteudo)

(* Idempotency outlives the database: two receipts of one key name the     *)
(* same event, because opening restores the keys before anything is sealed. *)
ReciboUnico == \A r, s \in recibos : r.chave = s.chave => r.id = s.id

(* The file is append-only and the ledger loses rows only when the whole   *)
(* database is lost (PerderBanco): corrections are new events.             *)
SoApenda ==
  [][/\ Len(arquivo') >= Len(arquivo)
     /\ SubSeq(arquivo', 1, Len(arquivo)) = arquivo
     /\ banco \subseteq banco' \/ PerderBanco]_<<arquivo, banco>>

(* The chain as a journal: what the database or the file still has.        *)
Diario ==
  {[pos |-> e.seq, chave |-> e.chave, conteudo |-> e.conteudo, id |-> e.id] :
     e \in banco \cup Linhas}

D == INSTANCE DiarioSelado WITH diario <- Diario, entregues <- recibos

(* The SDK with its export is a sealed ledger as DiarioSelado states it:   *)
(* races between processes, crashes between commit, export and receipt,    *)
(* and the loss of the database are invisible through the receipts.        *)
ImplementaDiario == D!Spec

(* "Queda entre o commit SQLite e o append nao perde evento - a proxima     *)
(* rodada repara" (auditoria.py:22-24): the file that closed processes     *)
(* leave behind is one the next round can open.  It is not: no caller is   *)
(* made to seal the missing record first, and once another one was sealed  *)
(* and exported the file has a hole, which every opening refuses.          *)
ProximaRodadaAbre ==
  (\A p \in Processos : fase[p] = "fechada") => VerificaCorrente(arquivo)

-----------------------------------------------------------------------------
(* THE INDUCTIVE INVARIANT behind the safety properties.                   *)

Aberta(p) == fase[p] = "aberta"
Abrindo(p) == fase[p] = "abrindo"

(* An identifier names one event, wherever a copy of it is.                *)
IdentidadeUnica == \A x, y \in Conhecidos : x.id = y.id => x = y

(* What a process holds at each statement.                                 *)
EmMaosDe(p) ==
  /\ passo[p] # "ocioso" => fase[p] # "fechada"
  /\ passo[p] \in {"cabeca", "restaurar"} => Abrindo(p)
  /\ passo[p] \in {"conferir", "gravar", "exportar", "anexar"} <=> evento[p] # Nenhum
  /\ passo[p] \in {"exportar", "anexar"} =>
       Aberta(p) /\ selado[p] \in banco /\ selado[p].chave = evento[p].chave
  /\ passo[p] = "anexar" => selado[p] = evento[p] \/ selado[p].conteudo = evento[p].conteudo
  /\ Abrindo(p) => fila[p] \subseteq Linhas /\ passo[p] # "ocioso"
  /\ Abrindo(p) /\ evento[p] # Nenhum => evento[p] \in Linhas

EmMaos == \A p \in Processos : EmMaosDe(p)

(* A re-checked position stays linked whatever is committed meanwhile.     *)
GravaLigado == \A p \in Processos : passo[p] = "gravar" => Ligado(evento[p])

(* No sequence below the top is missing.                                   *)
SemLacuna == \A e \in banco : \A n \in 1 .. e.seq : \E f \in banco : f.seq = n

(* The lines and the rows are copies of the same events.                   *)
ArquivoCoerente ==
  \A x \in Linhas, y \in banco \cup Linhas : x.seq = y.seq \/ x.chave = y.chave => x = y

(* Whoever may seal has the whole file in the database; whoever is opening *)
(* has in hand the lines the database misses.                              *)
RestauraDe(p) ==
  /\ Aberta(p) => Linhas \subseteq banco
  /\ Abrindo(p) => Linhas \subseteq banco \cup fila[p] \cup {evento[p]}

RestauraTudo == \A p \in Processos : RestauraDe(p)

(* A reconciliation names an event the file shows.                         *)
Fundada(e) == \A k \in Correlacoes, c \in Conteudos :
  e.chave = <<k, c>> => \E l \in Linhas : l.chave = k
ReconciliacaoFundada == \A e \in Conhecidos : Fundada(e)

(* A receipt names a line of its key.                                      *)
ReciboNomeiaLinha ==
  \A r \in recibos : \E l \in Linhas : l.chave = r.chave /\ l.id = r.id

IInv ==
  /\ TypeOK /\ EmMaos /\ IdentidadeUnica
  /\ GravaLigado /\ CorrenteIntegra /\ SemLacuna
  /\ ArquivoCoerente /\ RestauraTudo
  /\ ReconciliacaoFundada /\ ReciboNomeiaLinha /\ ReciboProvadoNoArquivo

=============================================================================
