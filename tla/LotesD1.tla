-------------------------------- MODULE LotesD1 --------------------------------
(***************************************************************************)
(* Batches and anchors.  Three commands meet in the tables audit_batches   *)
(* and audit_anchors of D1:                                                *)
(*   - batch reads the last events and the last batches, one after the     *)
(*     other, and stores a Merkle batch of what is not batched (native);   *)
(*   - markets-anchor commits the root of the whole local chain to the     *)
(*     contract and writes a line of ancoras.jsonl when it is mined;       *)
(*   - publicar-ancora registers the manifest of the last line as a batch  *)
(*     whose events are not in D1 (external), and its anchor.              *)
(* The public verifier serves the roots of the anchors in D1.              *)
(*                                                                         *)
(* One tenant.  Events of D1 are the sequences 1..eventos without gaps     *)
(* (EspelhoD1), those of the local chain 1..corrente (CorrenteLocal); the  *)
(* two have different hashes.  A request whose client gives up is one that *)
(* is still executed: the client has nothing left to do after it.          *)
(***************************************************************************)
EXTENDS Merkle

CONSTANTS
  Processos,     \* commands under way
  Janela,        \* how many events GET /events returns (50)
  Minimo,        \* events without an anchor below which markets-anchor does nothing
  MaxEventos,    \* bound on the events of D1
  MaxLocais,     \* bound on the local chain
  MaxManifestos, \* bound on the manifests built to be anchored
  MaxQuedas      \* bound on commands that die and transactions nobody hears of

ASSUME JanelaAssumption == Janela \in Nat \ {0}
ASSUME MinimoAssumption == Minimo \in Nat
ASSUME LimitesAssumption ==
  MaxEventos \in Nat /\ MaxLocais \in Nat /\ MaxManifestos \in Nat /\ MaxQuedas \in Nat

VARIABLES
  eventos,     \* length of the ledger in D1
  corrente,    \* length of the local chain
  lotes,       \* rows of audit_batches, with those of audit_batch_events
  ancorasD1,   \* rows of audit_anchors
  contrato,    \* the batches the contract holds
  ancoras,     \* lines of ancoras.jsonl
  manifestos,  \* how many manifests were built: the uuid of the last
  processos,   \* what each command is doing
  quedas

vars == <<eventos, corrente, lotes, ancorasD1, contrato, ancoras, manifestos, processos, quedas>>

HashD1(s) == <<"d1", s>>
HashLocal(s) == <<"local", s>>
HashesD1(i, j) == [s \in 1..(j - i + 1) |-> HashD1(i + s - 1)]
RaizLocal(n) == Raiz([s \in 1..n |-> HashLocal(s)])

Nenhuma == <<>>
Parado == [pc |-> "parado"]

(* The rows.  Of two native batches of one range only one is ever stored,  *)
(* so the range stands for its uuid.                                       *)
LoteNativo(i, j, r) ==
  [id |-> <<"nativo", i, j>>, tipo |-> "nativo", primeiro |-> i, ultimo |-> j,
   raiz |-> Raiz(HashesD1(i, j)), anterior |-> r]

LoteExterno(m, n) ==
  [id |-> <<"externo", m>>, tipo |-> "externo", primeiro |-> 1, ultimo |-> n,
   raiz |-> RaizLocal(n), anterior |-> Nenhuma]

(* The proofs that are stored with a native batch, one for each event.     *)
Provas(b) ==
  LET hashes == HashesD1(b.primeiro, b.ultimo)
  IN  [k \in 1..Len(hashes) |-> Prova(hashes, k)]

Nativos == {b \in lotes : b.tipo = "nativo"}

(* The highest sequence that any batch ends with.                          *)
Topo(t) == t \in {0} \cup {b.ultimo : b \in lotes} /\ \A b \in lotes : b.ultimo <= t

(* UNIQUE(tenant, first, last), UNIQUE(merkle_root) and, for native        *)
(* batches, UNIQUE(event_id) of audit_batch_events.                        *)
Sobrepoe(a, b) == a.primeiro <= b.ultimo /\ b.primeiro <= a.ultimo
Colide(n) ==
  \E b \in lotes :
    \/ b.primeiro = n.primeiro /\ b.ultimo = n.ultimo
    \/ b.raiz = n.raiz \/ b.id = n.id
    \/ b.tipo = "nativo" /\ n.tipo = "nativo" /\ Sobrepoe(b, n)

(* What the contract holds of a batch.                                     *)
Registro(m, r) == [id |-> m, raiz |-> r]

(* How many local events have no anchor: the chain against the highest     *)
(* line of ancoras.jsonl.                                                  *)
SemAncora(k) ==
  \E t \in {0} \cup {ancoras[i].n : i \in DOMAIN ancoras} :
    /\ \A i \in DOMAIN ancoras : ancoras[i].n <= t
    /\ t + k <= corrente

Init ==
  /\ eventos = 0 /\ corrente = 0
  /\ lotes = {} /\ ancorasD1 = {} /\ contrato = {}
  /\ ancoras = <<>>
  /\ manifestos = 0
  /\ processos = [p \in Processos |-> Parado]
  /\ quedas = 0

------------------------------------------------------------------------------
(* batch: GET /events, GET /batches, POST /batches.                        *)

CrescerD1 ==
  /\ eventos < MaxEventos
  /\ eventos' = eventos + 1
  /\ UNCHANGED <<corrente, lotes, ancorasD1, contrato, ancoras, manifestos, processos, quedas>>

(* The last events of the ledger: at most Janela of them.                  *)
LerEventos(p) ==
  /\ processos[p].pc = "parado"
  /\ processos' = [processos EXCEPT ![p] =
       [pc |-> "lotes", de |-> IF eventos > Janela THEN eventos - Janela + 1 ELSE 1, ate |-> eventos]]
  /\ UNCHANGED <<eventos, corrente, lotes, ancorasD1, contrato, ancoras, manifestos, quedas>>

(* What was read is pending above the highest batch; the new batch names   *)
(* the root of a batch that ends there, if there is one.                   *)
PendentesDoTopo(t, de) == IF t >= de THEN t ELSE de    \* mutant: from the last one batched
Pendentes(t, de) == IF t >= de THEN t + 1 ELSE de

RaizAnterior(t, r) ==
  \/ \E b \in lotes : b.ultimo = t /\ r = b.raiz
  \/ r = Nenhuma /\ \A b \in lotes : b.ultimo # t

LerLotes(p) ==
  /\ processos[p].pc = "lotes"
  /\ \E t \in 0..(MaxEventos + MaxLocais) :
       /\ Topo(t)
       /\ LET i == Pendentes(t, processos[p].de)
          IN  \/ /\ i <= processos[p].ate
                 /\ \E r \in {Nenhuma} \cup {b.raiz : b \in lotes} :
                      /\ RaizAnterior(t, r)
                      /\ processos' = [processos EXCEPT ![p] =
                           [pc |-> "gravarLote", lote |-> LoteNativo(i, processos[p].ate, r)]]
              \/ /\ i > processos[p].ate
                 /\ processos' = [processos EXCEPT ![p] = Parado]
  /\ UNCHANGED <<eventos, corrente, lotes, ancorasD1, contrato, ancoras, manifestos, quedas>>

(* The batch, its events and their proofs, together or not at all.  The    *)
(* events were read from the ledger, which has them all.                   *)
GravarLote(p) ==
  /\ processos[p].pc = "gravarLote"
  /\ ~Colide(processos[p].lote)
  /\ lotes' = lotes \cup {processos[p].lote}
  /\ processos' = [processos EXCEPT ![p] = Parado]
  /\ UNCHANGED <<eventos, corrente, ancorasD1, contrato, ancoras, manifestos, quedas>>

RecusarLote(p) ==
  /\ processos[p].pc = "gravarLote"
  /\ Colide(processos[p].lote)
  /\ processos' = [processos EXCEPT ![p] = Parado]
  /\ UNCHANGED <<eventos, corrente, lotes, ancorasD1, contrato, ancoras, manifestos, quedas>>

------------------------------------------------------------------------------
(* markets-anchor --execute.                                               *)

CrescerLocal ==
  /\ corrente < MaxLocais
  /\ corrente' = corrente + 1
  /\ UNCHANGED <<eventos, lotes, ancorasD1, contrato, ancoras, manifestos, processos, quedas>>

(* The manifest of the whole chain, with a uuid of its own.                *)
IniciarAncora(p) ==
  /\ processos[p].pc = "parado"
  /\ corrente > 0 /\ SemAncora(Minimo)
  /\ manifestos < MaxManifestos
  /\ manifestos' = manifestos + 1
  /\ processos' = [processos EXCEPT ![p] = [pc |-> "transmitir", m |-> manifestos + 1, n |-> corrente]]
  /\ UNCHANGED <<eventos, corrente, lotes, ancorasD1, contrato, ancoras, quedas>>

(* anchorBatch reverts for a batch or a root it holds already.             *)
ContratoAceita(m, r) == \A c \in contrato : c.id # m /\ c.raiz # r

Transmitir(p) ==
  /\ processos[p].pc = "transmitir"
  /\ LET c == Registro(processos[p].m, RaizLocal(processos[p].n))
     IN  \/ /\ ContratoAceita(c.id, c.raiz)
            /\ contrato' = contrato \cup {c}
            /\ processos' = [processos EXCEPT ![p].pc = "registrar"]
         \/ /\ ~ContratoAceita(c.id, c.raiz)
            /\ processos' = [processos EXCEPT ![p] = Parado]
            /\ UNCHANGED contrato
  /\ UNCHANGED <<eventos, corrente, lotes, ancorasD1, ancoras, manifestos, quedas>>

RegistrarAncora(p) ==
  /\ processos[p].pc = "registrar"
  /\ ancoras' = Append(ancoras, [id |-> processos[p].m, n |-> processos[p].n])
  /\ processos' = [processos EXCEPT ![p] = Parado]
  /\ UNCHANGED <<eventos, corrente, lotes, ancorasD1, contrato, manifestos, quedas>>

------------------------------------------------------------------------------
(* publicar-ancora: POST /batches/external, POST /anchors.                 *)

Ultima == ancoras[Len(ancoras)]

(* Only the last line, and only when it has the root of the chain as it    *)
(* is: publicar raises otherwise.                                          *)
LerAncora(p) ==
  /\ processos[p].pc = "parado"
  /\ ancoras # <<>>
  /\ RaizLocal(corrente) = RaizLocal(Ultima.n)
  /\ processos' = [processos EXCEPT ![p] = [pc |-> "externo", m |-> Ultima.id, n |-> Ultima.n]]
  /\ UNCHANGED <<eventos, corrente, lotes, ancorasD1, contrato, ancoras, manifestos, quedas>>

PostarExterno(p) ==
  /\ processos[p].pc = "externo"
  /\ LET l == LoteExterno(processos[p].m, processos[p].n)
     IN  \/ /\ ~Colide(l)
            /\ lotes' = lotes \cup {l}
            /\ processos' = [processos EXCEPT ![p] = [pc |-> "ancora", m |-> @.m, lote |-> l.id]]
         \/ /\ Colide(l)
            /\ processos' = [processos EXCEPT ![p].pc = "existente"]
            /\ UNCHANGED lotes
  /\ UNCHANGED <<eventos, corrente, ancorasD1, contrato, ancoras, manifestos, quedas>>

(* The row that was there: the same batch or the same root.                *)
MesmaFaixa(b, l) == b.primeiro = l.primeiro /\ b.ultimo = l.ultimo    \* mutant
MesmoLoteNunca(b, l) == FALSE                                         \* mutant
MesmoLote(b, l) == b.id = l.id \/ b.raiz = l.raiz

Existente(p) ==
  /\ processos[p].pc = "existente"
  /\ LET l == LoteExterno(processos[p].m, processos[p].n)
     IN  \/ \E b \in lotes :
              /\ MesmoLote(b, l)
              /\ processos' = [processos EXCEPT ![p] = [pc |-> "ancora", m |-> @.m, lote |-> b.id]]
         \/ /\ \A b \in lotes : ~MesmoLote(b, l)
            /\ processos' = [processos EXCEPT ![p] = Parado]
  /\ UNCHANGED <<eventos, corrente, lotes, ancorasD1, contrato, ancoras, manifestos, quedas>>

(* An anchor of the batch or of the transaction is left as it is.          *)
PostarAncora(p) ==
  /\ processos[p].pc = "ancora"
  /\ ancorasD1' =
       IF \E a \in ancorasD1 : a.lote = processos[p].lote \/ a.tx = processos[p].m
       THEN ancorasD1
       ELSE ancorasD1 \cup {[lote |-> processos[p].lote, tx |-> processos[p].m]}
  /\ processos' = [processos EXCEPT ![p] = Parado]
  /\ UNCHANGED <<eventos, corrente, lotes, contrato, ancoras, manifestos, quedas>>

------------------------------------------------------------------------------
(* A command ends where it stands: killed, refused by the network, or      *)
(* waiting in vain for the receipt of a transaction that was mined.        *)
Queda(p) ==
  /\ quedas < MaxQuedas
  /\ processos[p].pc # "parado"
  /\ quedas' = quedas + 1
  /\ processos' = [processos EXCEPT ![p] = Parado]
  /\ UNCHANGED <<eventos, corrente, lotes, ancorasD1, contrato, ancoras, manifestos>>

Passo(p) ==
  \/ LerLotes(p) \/ GravarLote(p) \/ RecusarLote(p)
  \/ Transmitir(p) \/ RegistrarAncora(p)
  \/ PostarExterno(p) \/ Existente(p) \/ PostarAncora(p)

Next ==
  \/ CrescerD1 \/ CrescerLocal
  \/ \E p \in Processos : LerEventos(p) \/ IniciarAncora(p) \/ LerAncora(p) \/ Passo(p) \/ Queda(p)

Spec == Init /\ [][Next]_vars

(* Commands that were started go on; publicar-ancora is run again, by      *)
(* whoever operates it.                                                    *)
FairSpec ==
  /\ Spec
  /\ \A p \in Processos : WF_vars(Passo(p)) /\ SF_vars(LerAncora(p))

------------------------------------------------------------------------------
IdsDeLote == {<<"externo", m>> : m \in 1..MaxManifestos}
             \cup {<<"nativo", i, j>> : i, j \in 1..MaxEventos}

TypeOK ==
  /\ eventos \in 0..MaxEventos /\ corrente \in 0..MaxLocais
  /\ manifestos \in 0..MaxManifestos /\ quedas \in 0..MaxQuedas
  /\ \A b \in lotes :
       /\ b.tipo \in {"nativo", "externo"} /\ b.id \in IdsDeLote
       /\ b.primeiro \in Nat \ {0} /\ b.ultimo \in Nat \ {0}
  /\ ancorasD1 \subseteq [lote : IdsDeLote, tx : 1..MaxManifestos]
  /\ \A c \in contrato : c.id \in 1..MaxManifestos
  /\ ancoras \in Seq([id : 1..MaxManifestos, n : 1..MaxLocais])
  /\ processos = [p \in Processos |-> processos[p]]

(* A native batch that is shorter than the window goes on where another    *)
(* batch ends and names its root, or is the first: whatever two batchers   *)
(* read before the other stored (batching.py:113-116), no event is left    *)
(* out between two batches unless the window was full.                     *)
Continua(b) ==
  b.ultimo - b.primeiro + 1 < Janela =>
    \/ b.primeiro = 1 /\ b.anterior = Nenhuma
    \/ \E a \in lotes : a.ultimo + 1 = b.primeiro /\ a.raiz = b.anterior

LoteContinua == \A b \in Nativos : Continua(b)

(* The proof stored for an event verifies against the root of its batch    *)
(* for that event and for no other (merkle.py:62-90).                      *)
ProvaServe ==
  \A b \in Nativos :
    LET provas == Provas(b)
    IN  \A k \in DOMAIN provas :
          /\ provas[k].raiz = b.raiz
          /\ \A s \in 1..eventos : Verifica(HashD1(s), provas[k]) <=> s = b.primeiro + k - 1

(* What the public verifier serves (publishedRoots): the anchors of D1     *)
(* with the roots of their batches.                                        *)
Servidas ==
  UNION {{[raiz |-> b.raiz, tx |-> a.tx] : b \in {b \in lotes : b.id = a.lote}} : a \in ancorasD1}

(* Every root the verifier serves is in the contract, put there by the     *)
(* transaction it is served with (publicar_ancora.py:81-106), though the   *)
(* batch of an anchor may be a row that was in the ledger before.          *)
RaizServida == \A s \in Servidas : Registro(s.tx, s.raiz) \in contrato

(* What the proofs need.  A row is a native batch of the ledger, or the    *)
(* manifest of an anchor the contract holds; rows have different ids; and  *)
(* what a command or a line of ancoras.jsonl says of an anchor is true.    *)
NativoFiel(b) ==
  /\ b = LoteNativo(b.primeiro, b.ultimo, b.anterior)
  /\ b.primeiro \in 1..MaxEventos /\ b.ultimo \in b.primeiro..MaxEventos
  /\ Continua(b)

ExternoFiel(b) ==
  \E m \in 1..MaxManifestos, n \in 1..MaxLocais :
    b = LoteExterno(m, n) /\ Registro(m, RaizLocal(n)) \in contrato

Ancorado(l, m) == \E b \in lotes : b.id = l /\ Registro(m, b.raiz) \in contrato

ProcessoFiel(e) ==
  \/ e = Parado
  \/ /\ e \in [pc : {"lotes"}, de : Nat \ {0}, ate : 0..MaxEventos]
     /\ e.ate - e.de + 1 < Janela => e.de = 1
  \/ /\ e.pc = "gravarLote" /\ e = [pc |-> "gravarLote", lote |-> e.lote]
     /\ NativoFiel(e.lote)
  \/ e \in [pc : {"transmitir"}, m : 1..MaxManifestos, n : 1..MaxLocais]
  \/ /\ e \in [pc : {"registrar", "externo", "existente"}, m : 1..MaxManifestos, n : 1..MaxLocais]
     /\ Registro(e.m, RaizLocal(e.n)) \in contrato
  \/ /\ e \in [pc : {"ancora"}, m : 1..MaxManifestos, lote : IdsDeLote]
     /\ Ancorado(e.lote, e.m)

IInv ==
  /\ TypeOK
  /\ \A b \in lotes : NativoFiel(b) \/ ExternoFiel(b)
  /\ \A a, b \in lotes : a.id = b.id => a = b
  /\ \A i \in DOMAIN ancoras : Registro(ancoras[i].id, RaizLocal(ancoras[i].n)) \in contrato
  /\ \A a \in ancorasD1 : Ancorado(a.lote, a.tx)
  /\ \A p \in Processos : ProcessoFiel(processos[p])

(* The anchor of the chain as it is gets served in the end, though a run   *)
(* ends between batch and anchor, for as long as its line is the last and  *)
(* the chain does not grow -- unless the native batches have taken the     *)
(* range 1..n first, which UNIQUE(tenant_id, first_sequence,               *)
(* last_sequence) then refuses for good (worker.ts:302-330).               *)
Publicavel(m) == ancoras # <<>> /\ Ultima.id = m /\ Ultima.n = corrente

FaixaTomada == \E b \in Nativos : b.primeiro = 1 /\ b.ultimo = corrente

AncoraServida ==
  \A m \in 1..MaxManifestos :
    Publicavel(m) ~> (~Publicavel(m) \/ FaixaTomada \/ \E s \in Servidas : s.tx = m)
=============================================================================
