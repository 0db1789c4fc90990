------------------------------ MODULE EspelhoD1 ------------------------------
(***************************************************************************)
(* The ledger in the cloud: publishers post events over HTTP, one Durable  *)
(* Object per tenant appends them to a D1 table.  The object is a single   *)
(* thread, but it awaits D1 three times for each request (is the key       *)
(* there, which is the last row, insert), and other requests run in        *)
(* between.  Publishers are the mirror of the local chain (sincronizar,    *)
(* one post per local event, in order, over again from the first at every  *)
(* run) and commands that publish one event of their own.  A post may time *)
(* out while the object is still at work on it.                            *)
(*                                                                         *)
(* One tenant: the rows, the keys and the object of a tenant are its own.  *)
(* A local event is its position in eventos.jsonl, which is append-only    *)
(* and verifies (CorrenteLocal); its key is derived from its hash.  The    *)
(* key of a row stands for its hash: no two rows share a key.              *)
(***************************************************************************)
EXTENDS Naturals

CONSTANTS
  Clientes,   \* commands that publish: sync-ledger runs and others
  Nativas,    \* keys of the events that are not mirrors
  Vagas,      \* requests the sequencer may have under way at once
  MaxLocais,  \* bound on the local chain
  MaxLinhas,  \* bound on the table; at least the number of keys, so that it never binds
  MaxFalhas   \* bound on lost requests and timeouts

ASSUME LocaisAssumption == MaxLocais \in Nat
ASSUME LinhasAssumption == MaxLinhas \in Nat
ASSUME FalhasAssumption == MaxFalhas \in Nat
ASSUME NativasAssumption == Nativas \cap Nat = {}

VARIABLES
  locais,    \* how many events the local chain has
  tabela,    \* the rows of audit_events
  pedidos,   \* the request each place of the sequencer holds
  clientes,  \* what each command is doing
  recibos,   \* the answers that reached a command
  falhas

vars == <<locais, tabela, pedidos, clientes, recibos, falhas>>

Chaves == 1..MaxLocais \cup Nativas
GENESIS == [seq |-> 0, chave |-> 0, anterior |-> 0]
Linhas == [seq : 1..MaxLinhas, chave : Chaves, anterior : Chaves \cup {0}]
Ninguem == 0
Recusado == 0

Livre == [pc |-> "livre"]
Parado == [pc |-> "parado"]

(* A request: who waits for it, and how far the sequencer is with it.      *)
Pedido(c, k) ==
  [pc |-> "duplicata", de |-> {c}, chave |-> k, cabeca |-> GENESIS, resposta |-> Recusado]

TemLinha(k) == \E r \in tabela : r.chave = k

Init ==
  /\ locais = 0
  /\ tabela = {}
  /\ pedidos = [v \in Vagas |-> Livre]
  /\ clientes = [c \in Clientes |-> Parado]
  /\ recibos = {}
  /\ falhas = 0

(* After a receipt, sincronizar goes on to the next local event.           *)
Seguinte(c) ==
  IF clientes[c].chave \in 1..MaxLocais /\ clientes[c].chave < clientes[c].alvo
  THEN [clientes[c] EXCEPT !.pc = "postar", !.chave = @ + 1]
  ELSE Parado

(* The last row of the tenant, or none.                                    *)
Cabeca(r) == r \in tabela \cup {GENESIS} /\ \A q \in tabela : q.seq <= r.seq

(* The row a request would insert: the next sequence, linked to the row it *)
(* has read.                                                               *)
Nova(v) ==
  [seq |-> pedidos[v].cabeca.seq + 1, chave |-> pedidos[v].chave, anterior |-> pedidos[v].cabeca.chave]

(* UNIQUE(tenant_id, sequence) and UNIQUE(tenant_id, idempotency_key).     *)
ColideNaChave(n) == \E r \in tabela : r.chave = n.chave      \* mutant
ColideNaSequencia(n) == \E r \in tabela : r.seq = n.seq      \* mutant
Colide(n) == \E r \in tabela : r.seq = n.seq \/ r.chave = n.chave

------------------------------------------------------------------------------
(* MUTANTS: what the actions below would be with a plausible bug.          *)

(* sincronizar takes up the chain where it ends.                           *)
IniciarNoFim(c) ==
  /\ clientes[c].pc = "parado"
  /\ locais > 0
  /\ clientes' = [clientes EXCEPT ![c] = [pc |-> "postar", chave |-> locais, alvo |-> locais]]
  /\ UNCHANGED <<locais, tabela, pedidos, recibos, falhas>>

(* An event that was refused is skipped and the next one posted.           *)
LevantarESegue(c, v) ==
  /\ pedidos[v].pc = "responder" /\ c \in pedidos[v].de
  /\ pedidos[v].resposta = Recusado
  /\ clientes' = [clientes EXCEPT ![c] = Seguinte(c)]
  /\ pedidos' = [pedidos EXCEPT ![v] = Livre]
  /\ UNCHANGED <<locais, tabela, recibos, falhas>>

(* The failure of the insert is not noticed.                               *)
RecusarCalado(v) ==
  /\ pedidos[v].pc = "gravar" /\ Colide(Nova(v))
  /\ pedidos' = [pedidos EXCEPT ![v].pc = "responder", ![v].resposta = Nova(v).seq]
  /\ UNCHANGED <<locais, tabela, clientes, recibos, falhas>>

------------------------------------------------------------------------------
(* The publishers.                                                         *)

(* The local chain gains an event.                                         *)
Crescer ==
  /\ locais < MaxLocais
  /\ locais' = locais + 1
  /\ UNCHANGED <<tabela, pedidos, clientes, recibos, falhas>>

(* sincronizar reads the whole chain and starts from its first event.      *)
IniciarSync(c) ==
  /\ clientes[c].pc = "parado"
  /\ locais > 0
  /\ clientes' = [clientes EXCEPT ![c] = [pc |-> "postar", chave |-> 1, alvo |-> locais]]
  /\ UNCHANGED <<locais, tabela, pedidos, recibos, falhas>>

(* Another command publishes one event.                                    *)
IniciarPublicacao(c) ==
  /\ clientes[c].pc = "parado"
  /\ \E k \in Nativas : clientes' = [clientes EXCEPT ![c] = [pc |-> "postar", chave |-> k, alvo |-> 0]]
  /\ UNCHANGED <<locais, tabela, pedidos, recibos, falhas>>

Postar(c) ==
  /\ clientes[c].pc = "postar"
  /\ \E v \in Vagas :
       /\ pedidos[v].pc = "livre"
       /\ pedidos' = [pedidos EXCEPT ![v] = Pedido(c, clientes[c].chave)]
  /\ clientes' = [clientes EXCEPT ![c].pc = "esperar"]
  /\ UNCHANGED <<locais, tabela, recibos, falhas>>

(* A receipt: the answer of the sequencer reaches the command.             *)
Receber(c, v) ==
  /\ pedidos[v].pc = "responder" /\ c \in pedidos[v].de
  /\ pedidos[v].resposta # Recusado
  /\ recibos' = recibos \cup {[chave |-> pedidos[v].chave, seq |-> pedidos[v].resposta]}
  /\ clientes' = [clientes EXCEPT ![c] = Seguinte(c)]
  /\ pedidos' = [pedidos EXCEPT ![v] = Livre]
  /\ UNCHANGED <<locais, tabela, falhas>>

(* HTTP 500: publish_event raises and the whole command ends.              *)
Levantar(c, v) ==
  /\ pedidos[v].pc = "responder" /\ c \in pedidos[v].de
  /\ pedidos[v].resposta = Recusado
  /\ clientes' = [clientes EXCEPT ![c] = Parado]
  /\ pedidos' = [pedidos EXCEPT ![v] = Livre]
  /\ UNCHANGED <<locais, tabela, recibos, falhas>>

(* The command stops waiting, and raises; the sequencer goes on.           *)
Desistir(c, v) ==
  /\ falhas < MaxFalhas
  /\ pedidos[v].pc # "livre" /\ c \in pedidos[v].de
  /\ falhas' = falhas + 1
  /\ clientes' = [clientes EXCEPT ![c] = Parado]
  /\ pedidos' = [pedidos EXCEPT ![v].de = {}]
  /\ UNCHANGED <<locais, tabela, recibos>>

------------------------------------------------------------------------------
(* The sequencer.                                                          *)

(* The row of the key, when there is one, is the answer.                   *)
Duplicata(v) ==
  /\ pedidos[v].pc = "duplicata"
  /\ \/ \E r \in tabela :
          /\ r.chave = pedidos[v].chave
          /\ pedidos' = [pedidos EXCEPT ![v].pc = "responder", ![v].resposta = r.seq]
     \/ /\ ~TemLinha(pedidos[v].chave)
        /\ pedidos' = [pedidos EXCEPT ![v].pc = "cabeca"]
  /\ UNCHANGED <<locais, tabela, clientes, recibos, falhas>>

LerCabeca(v) ==
  /\ pedidos[v].pc = "cabeca"
  /\ \E r \in tabela \cup {GENESIS} :
       /\ Cabeca(r)
       /\ pedidos' = [pedidos EXCEPT ![v].pc = "gravar", ![v].cabeca = r]
  /\ UNCHANGED <<locais, tabela, clientes, recibos, falhas>>

(* The insert of event and outbox row, together or not at all.             *)
Gravar(v) ==
  /\ pedidos[v].pc = "gravar" /\ ~Colide(Nova(v))
  /\ Nova(v).seq <= MaxLinhas
  /\ tabela' = tabela \cup {Nova(v)}
  /\ pedidos' = [pedidos EXCEPT ![v].pc = "responder", ![v].resposta = Nova(v).seq]
  /\ UNCHANGED <<locais, clientes, recibos, falhas>>

(* The insert breaks a constraint: the exception becomes HTTP 500.         *)
Recusar(v) ==
  /\ pedidos[v].pc = "gravar" /\ Colide(Nova(v))
  /\ pedidos' = [pedidos EXCEPT ![v].pc = "responder"]
  /\ UNCHANGED <<locais, tabela, clientes, recibos, falhas>>

(* Nobody waits for the answer.                                            *)
Descartar(v) ==
  /\ pedidos[v].pc = "responder" /\ pedidos[v].de = {}
  /\ pedidos' = [pedidos EXCEPT ![v] = Livre]
  /\ UNCHANGED <<locais, tabela, clientes, recibos, falhas>>

(* The request is lost wherever it is, or its answer: the command raises.  *)
Perder(v) ==
  /\ falhas < MaxFalhas
  /\ pedidos[v].pc # "livre"
  /\ falhas' = falhas + 1
  /\ clientes' = [c \in Clientes |-> IF c \in pedidos[v].de THEN Parado ELSE clientes[c]]
  /\ pedidos' = [pedidos EXCEPT ![v] = Livre]
  /\ UNCHANGED <<locais, tabela, recibos>>

------------------------------------------------------------------------------
Sequenciador(v) == Duplicata(v) \/ LerCabeca(v) \/ Gravar(v) \/ Recusar(v) \/ Descartar(v)

Resposta(c, v) == Receber(c, v) \/ Levantar(c, v)

Next ==
  \/ Crescer
  \/ \E c \in Clientes : IniciarSync(c) \/ IniciarPublicacao(c) \/ Postar(c)
  \/ \E c \in Clientes, v \in Vagas : Resposta(c, v) \/ Desistir(c, v)
  \/ \E v \in Vagas : Sequenciador(v) \/ Perder(v)

Spec == Init /\ [][Next]_vars

(* Requests are served, answers arrive, and commands that are started post *)
(* to the end; the mirror is run again, by whoever operates it.            *)
FairSpec ==
  /\ Spec
  /\ \A v \in Vagas : WF_vars(Sequenciador(v))
  /\ \A c \in Clientes, v \in Vagas : WF_vars(Resposta(c, v))
  /\ \A c \in Clientes : SF_vars(Postar(c)) /\ SF_vars(IniciarSync(c))

------------------------------------------------------------------------------
EmCurso ==
  [pc : {"duplicata", "cabeca", "gravar", "responder"}, de : SUBSET Clientes, chave : Chaves,
   cabeca : Linhas \cup {GENESIS}, resposta : 0..MaxLinhas]

Andando == [pc : {"postar", "esperar"}, chave : Chaves, alvo : 0..MaxLocais]

TypeOK ==
  /\ locais \in 0..MaxLocais
  /\ tabela \subseteq Linhas
  /\ pedidos \in [Vagas -> EmCurso \cup {Livre}]
  /\ clientes \in [Clientes -> Andando \cup {Parado}]
  /\ recibos \subseteq [chave : Chaves, seq : 1..MaxLinhas]
  /\ falhas \in 0..MaxFalhas

(* However the requests interleave between the awaits of the sequencer     *)
(* (worker.ts:443-495), the rows are one chain without gaps, forks or      *)
(* repeated keys, each linked to the row before it.                        *)
CadeiaD1 ==
  /\ \A r, q \in tabela : r # q => r.seq # q.seq /\ r.chave # q.chave
  /\ \A r \in tabela :
       \E q \in tabela \cup {GENESIS} : q.seq + 1 = r.seq /\ r.anterior = q.chave

(* A command that was told its event is recorded (remote_ledger.py:77-109) *)
(* was told the sequence of the one row its key has, whether the row is of *)
(* this request, of an earlier one or of one it gave up on.                *)
ReciboDoLedger == \A e \in recibos : \E r \in tabela : r.chave = e.chave /\ r.seq = e.seq

(* The mirror has no hole: with a local event, the cloud has all the       *)
(* events before it, in the same order, though runs are cut short, overlap *)
(* and leave requests behind that are executed later (sync_ledger.py:99).  *)
EspelhoEmOrdem ==
  \A r \in tabela : r.chave \in 2..MaxLocais =>
    \E q \in tabela : q.chave = r.chave - 1 /\ q.seq < r.seq

(* What the proofs need.  Rows are numbered from one; a request whose head *)
(* was read holds a row of the table, and one that was accepted names its  *)
(* row; a command waits for one request at most, which is for its key; and *)
(* nobody holds a local event before the one that precedes it has its row. *)
Numeradas == \E n \in 0..MaxLinhas : {r.seq : r \in tabela} = 1..n

AnteriorGravado(k) == k \in 2..MaxLocais => TemLinha(k - 1)

PedidoFiel(v) ==
  /\ pedidos[v].pc = "gravar" => pedidos[v].cabeca \in tabela \cup {GENESIS}
  /\ pedidos[v].pc \in {"duplicata", "cabeca", "gravar"} => pedidos[v].resposta = Recusado
  /\ (pedidos[v].pc = "responder" /\ pedidos[v].resposta # Recusado) =>
       \E r \in tabela : r.chave = pedidos[v].chave /\ r.seq = pedidos[v].resposta
  /\ pedidos[v].pc # "livre" => AnteriorGravado(pedidos[v].chave)

Espera(c, v) == pedidos[v].pc # "livre" /\ c \in pedidos[v].de

EsperaFiel ==
  \A c \in Clientes, v \in Vagas :
    Espera(c, v) =>
      /\ clientes[c].pc = "esperar" /\ clientes[c].chave = pedidos[v].chave
      /\ \A w \in Vagas : Espera(c, w) => w = v

IInv ==
  /\ TypeOK
  /\ CadeiaD1
  /\ Numeradas
  /\ ReciboDoLedger
  /\ EspelhoEmOrdem
  /\ \A v \in Vagas : PedidoFiel(v)
  /\ \A c \in Clientes : clientes[c].pc # "parado" => AnteriorGravado(clientes[c].chave)
  /\ EsperaFiel

(* Every event of the local chain is in the cloud in the end, in spite of  *)
(* lost posts, timeouts and refusals.                                      *)
EspelhoCompleto == \A k \in 1..MaxLocais : locais >= k ~> TemLinha(k)

(* The sequencer keeps what a sealed ledger promises: one entry per key,   *)
(* each after all the others, and receipts that name the entry of their    *)
(* key.  An entry is identified by its sequence, its content by its key.   *)
Conteudo == "conteudo"
Entrada(r) == [pos |-> r.seq, chave |-> <<r.chave>>, conteudo |-> Conteudo, id |-> r.seq]
Entregue(e) == [chave |-> <<e.chave>>, conteudo |-> Conteudo, id |-> e.seq]

Diario == INSTANCE DiarioSelado WITH
  Correlacoes <- {<<k>> : k \in Chaves},
  Conteudos   <- {Conteudo},
  Ids         <- 1..MaxLinhas,
  diario      <- {Entrada(r) : r \in tabela},
  entregues   <- {Entregue(e) : e \in recibos}

ImplementaDiario == Diario!Spec
=============================================================================
