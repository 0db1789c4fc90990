------------------------------- MODULE Operacao -------------------------------
(***************************************************************************)
(* The unattended operation: two scheduled workflows, each in a clone of   *)
(* its own, write to one repository, one cloud mirror and one blockchain.  *)
(* operacao-continua seals, anchors, mirrors and then pushes; any number   *)
(* of its runs may be under way.  rodada-diaria seals, then rebases and    *)
(* pushes in a loop; a concurrency group keeps its runs apart.  On five    *)
(* days of the month both start at the same minute.                        *)
(*                                                                         *)
(* A chain is what a clone has in eventos.jsonl: an event is linked to the *)
(* one before it, so that events sealed by two clones at one position are  *)
(* different events.  A clone has no ledger database: opening it restores  *)
(* the file's events (CorrenteLocal), and sealing extends the file.  The   *)
(* root of a whole chain stands for the chain.  Of the other files of the  *)
(* repository only ancoras.jsonl is modelled.                              *)
(***************************************************************************)
EXTENDS Naturals, FiniteSets, Sequences, SequencesExt

CONSTANTS
  Continuas,   \* runs of operacao-continua that may be under way together
  Diarias,     \* runs of rodada-diaria
  Minimo,      \* --minimo: events without anchor that make a run anchor
  Tentativas,  \* attempts of rodada-diaria to rebase and push
  MaxEventos,  \* bound on the events ever sealed
  MaxOutros    \* bound on commits of others, which leave the chain alone

ASSUME LacosDistintos == Continuas \cap Diarias = {}
ASSUME LimitesAssumption == {Minimo, MaxEventos, MaxOutros} \subseteq Nat
ASSUME TentativasAssumption == Tentativas \in Nat \ {0}

VARIABLES
  principal,  \* the main branch: number of its last commit, chain, anchors
  fase,       \* how far each run is
  base,       \* the commit each run works on
  copia,      \* what each run has in its clone
  tentativa,  \* attempts each run of rodada-diaria has spent
  espelho,    \* events with a row in the cloud ledger
  contrato,   \* chains whose root the contract has anchored
  prometidos, \* events of runs that ended green
  emitidos,   \* how many events were ever sealed
  outros

vars == <<principal, fase, base, copia, tentativa, espelho, contrato, prometidos, emitidos, outros>>

Lacos == Continuas \cup Diarias

Vazio == [commit |-> 0, corrente |-> <<>>, ancoras |-> {}]

Eventos == [id : 1..MaxEventos, seq : 1..MaxEventos, anterior : 0..MaxEventos]
Correntes == Seq(Eventos)
Repositorios == [commit : Nat, corrente : Correntes, ancoras : SUBSET Correntes]

(* The event that seals the next record of a chain.                        *)
ProximoSemSomar(s) ==    \* mutant: the position of the last event
  [id |-> emitidos + 1, seq |-> Len(s), anterior |-> IF s = <<>> THEN 0 ELSE Last(s).id]
Proximo(s) ==
  [id |-> emitidos + 1, seq |-> Len(s) + 1, anterior |-> IF s = <<>> THEN 0 ELSE Last(s).id]

(* eventos_sem_ancora: the events above the last anchored sequence.        *)
SemAncora(repo) == {e \in ToSet(repo.corrente) : \A a \in repo.ancoras : e.seq > Len(a)}

Novos(r) == ToSet(copia[r].corrente) \ ToSet(base[r].corrente)

Mudou(r) == copia[r] # base[r]

(* The runner is discarded, and its clone with it.                         *)
Encerra(r) ==
  /\ fase' = [fase EXCEPT ![r] = "fora"]
  /\ base' = [base EXCEPT ![r] = Vazio]
  /\ copia' = [copia EXCEPT ![r] = Vazio]
  /\ tentativa' = [tentativa EXCEPT ![r] = 0]

Vai(r, f) == fase' = [fase EXCEPT ![r] = f] /\ UNCHANGED <<base, tentativa>>

(* The run ends green: what it sealed is taken for done.                   *)
Verde(r) == Encerra(r) /\ prometidos' = prometidos \cup Novos(r)

(* The run ends red; somebody is told.                                     *)
Vermelho(r) == Encerra(r) /\ UNCHANGED prometidos

(* The clone becomes the main branch.                                      *)
Publica(r) == principal' = [copia[r] EXCEPT !.commit = principal.commit + 1]

Init ==
  /\ principal = Vazio
  /\ fase = [r \in Lacos |-> "fora"]
  /\ base = [r \in Lacos |-> Vazio]
  /\ copia = [r \in Lacos |-> Vazio]
  /\ tentativa = [r \in Lacos |-> 0]
  /\ espelho = {} /\ contrato = {} /\ prometidos = {}
  /\ emitidos = 0 /\ outros = 0

------------------------------------------------------------------------------
(* MUTANTS: what the actions below would be with a plausible bug.          *)

(* git push --force.                                                       *)
EmpurrarForca(r) ==
  /\ r \in Continuas
  /\ fase[r] = "commitar" /\ Mudou(r)
  /\ Publica(r) /\ Verde(r)
  /\ UNCHANGED <<espelho, contrato, emitidos, outros>>

(* git push || true.                                                       *)
EmpurrarOuNada(r) ==
  /\ r \in Continuas
  /\ fase[r] = "commitar" /\ Mudou(r)
  /\ IF principal.commit = base[r].commit THEN Publica(r) ELSE UNCHANGED principal
  /\ Verde(r)
  /\ UNCHANGED <<espelho, contrato, emitidos, outros>>

(* eventos.jsonl merges by union: both sides' lines, one after the other.  *)
PuxarUniao(r) ==
  /\ fase[r] = "puxar"
  /\ base' = [base EXCEPT ![r] = principal]
  /\ copia' = [copia EXCEPT ![r] = [principal EXCEPT
       !.corrente = @ \o SubSeq(copia[r].corrente, Len(base[r].corrente) + 1, Len(copia[r].corrente))]]
  /\ fase' = [fase EXCEPT ![r] = "empurrar"]
  /\ UNCHANGED <<principal, tentativa, espelho, contrato, prometidos, emitidos, outros>>

(* Only what the run itself sealed is mirrored.                            *)
EspelharNovos(r) ==
  /\ fase[r] = "espelhar"
  /\ espelho' = espelho \cup Novos(r)
  /\ Vai(r, "commitar")
  /\ UNCHANGED <<principal, copia, contrato, prometidos, emitidos, outros>>

------------------------------------------------------------------------------
(* What both workflows do.                                                 *)

(* Checkout.  The concurrency group keeps the runs of rodada-diaria apart. *)
Clonar(r) ==
  /\ fase[r] = "fora"
  /\ r \in Diarias => \A d \in Diarias : fase[d] = "fora"
  /\ base' = [base EXCEPT ![r] = principal]
  /\ copia' = [copia EXCEPT ![r] = principal]
  /\ fase' = [fase EXCEPT ![r] = "selar"]
  /\ UNCHANGED <<principal, tentativa, espelho, contrato, prometidos, emitidos, outros>>

(* One of the commands seals a record.                                     *)
Selar(r) ==
  /\ fase[r] = "selar" /\ emitidos < MaxEventos
  /\ copia' = [copia EXCEPT ![r].corrente = Append(@, Proximo(@))]
  /\ emitidos' = emitidos + 1
  /\ UNCHANGED <<principal, fase, base, tentativa, espelho, contrato, prometidos, outros>>

(* The commands are done.                                                  *)
FimDosComandos(r) ==
  /\ fase[r] = "selar"
  /\ Vai(r, IF r \in Continuas THEN "ancorar" ELSE "commitar")
  /\ UNCHANGED <<principal, copia, espelho, contrato, prometidos, emitidos, outros>>

(* A step exits with an error, a refused git push of operacao-continua     *)
(* among them, or the job runs out of time.                                *)
Falhar(r) ==
  /\ fase[r] # "fora"
  /\ Vermelho(r)
  /\ UNCHANGED <<principal, espelho, contrato, emitidos, outros>>

NadaMudou(r) ==
  /\ fase[r] = "commitar" /\ ~Mudou(r)
  /\ Verde(r)
  /\ UNCHANGED <<principal, espelho, contrato, emitidos, outros>>

------------------------------------------------------------------------------
(* operacao-continua.                                                      *)

(* The anchoring step is skipped: no secret, or too few events.            *)
PularAncora(r) ==
  /\ fase[r] = "ancorar"
  /\ Vai(r, "espelhar")
  /\ UNCHANGED <<principal, copia, espelho, contrato, prometidos, emitidos, outros>>

(* The transaction is mined; the answer arrives, and the anchor is written *)
(* to the clone, or the wait ends first and so does the run.               *)
Ancorar(r) ==
  /\ fase[r] = "ancorar"
  /\ Cardinality(SemAncora(copia[r])) >= Minimo
  /\ copia[r].corrente \notin contrato
  /\ contrato' = contrato \cup {copia[r].corrente}
  /\ \/ /\ copia' = [copia EXCEPT ![r].ancoras = @ \cup {copia[r].corrente}]
        /\ Vai(r, "espelhar")
        /\ UNCHANGED prometidos
     \/ Vermelho(r)
  /\ UNCHANGED <<principal, espelho, emitidos, outros>>

(* ledger-sync posts the chain in order; when a post fails it raises.      *)
Espelhar(r) ==
  /\ fase[r] = "espelhar"
  /\ espelho' = espelho \cup ToSet(copia[r].corrente)
  /\ Vai(r, "commitar")
  /\ UNCHANGED <<principal, copia, contrato, prometidos, emitidos, outros>>

EspelharEmParte(r) ==
  /\ fase[r] = "espelhar"
  /\ \E n \in 1..Len(copia[r].corrente) - 1 :
       espelho' = espelho \cup ToSet(SubSeq(copia[r].corrente, 1, n))
  /\ Vermelho(r)
  /\ UNCHANGED <<principal, contrato, emitidos, outros>>

(* git push, which only moves the branch forward.                          *)
Empurrar(r) ==
  /\ r \in Continuas
  /\ fase[r] = "commitar" /\ Mudou(r)
  /\ principal.commit = base[r].commit
  /\ Publica(r) /\ Verde(r)
  /\ UNCHANGED <<espelho, contrato, emitidos, outros>>

------------------------------------------------------------------------------
(* rodada-diaria: git pull --rebase && git push, up to three times.        *)

Commitar(r) ==
  /\ r \in Diarias
  /\ fase[r] = "commitar" /\ Mudou(r)
  /\ Vai(r, "puxar")
  /\ UNCHANGED <<principal, copia, espelho, contrato, prometidos, emitidos, outros>>

(* The rebase is clean when the other commits left the chain alone.        *)
Puxar(r) ==
  /\ fase[r] = "puxar"
  /\ principal.corrente = base[r].corrente
  /\ base' = [base EXCEPT ![r] = principal]
  /\ copia' = [copia EXCEPT ![r] = [principal EXCEPT !.corrente = copia[r].corrente]]
  /\ fase' = [fase EXCEPT ![r] = "empurrar"]
  /\ UNCHANGED <<principal, tentativa, espelho, contrato, prometidos, emitidos, outros>>

(* Both sides appended to eventos.jsonl: the rebase stops in a conflict,   *)
(* and the other attempts find it unfinished.                              *)
Conflito(r) ==
  /\ fase[r] = "puxar"
  /\ principal.corrente # base[r].corrente
  /\ Vai(r, "esgotado")
  /\ UNCHANGED <<principal, copia, espelho, contrato, prometidos, emitidos, outros>>

EmpurrarDiaria(r) ==
  /\ fase[r] = "empurrar"
  /\ principal.commit = base[r].commit
  /\ Publica(r) /\ Verde(r)
  /\ UNCHANGED <<espelho, contrato, emitidos, outros>>

(* Another commit came in between: the next attempt, if there is one.      *)
Repetir(r) ==
  /\ fase[r] = "empurrar"
  /\ principal.commit # base[r].commit
  /\ tentativa' = [tentativa EXCEPT ![r] = @ + 1]
  /\ fase' = [fase EXCEPT ![r] = IF tentativa[r] + 1 < Tentativas THEN "puxar" ELSE "esgotado"]
  /\ UNCHANGED <<principal, base, copia, espelho, contrato, prometidos, emitidos, outros>>

(* The loop ends with the exit status of its last sleep: success.          *)
Esgotar(r) ==
  /\ fase[r] = "esgotado"
  /\ Verde(r)
  /\ UNCHANGED <<principal, espelho, contrato, emitidos, outros>>

------------------------------------------------------------------------------
(* Somebody else pushes a commit that does not touch the chain.            *)
OutroCommit ==
  /\ outros < MaxOutros
  /\ outros' = outros + 1
  /\ principal' = [principal EXCEPT !.commit = @ + 1]
  /\ UNCHANGED <<fase, base, copia, tentativa, espelho, contrato, prometidos, emitidos>>

Continua(r) ==
  PularAncora(r) \/ Ancorar(r) \/ Espelhar(r) \/ EspelharEmParte(r) \/ Empurrar(r)

Diaria(r) ==
  Commitar(r) \/ Puxar(r) \/ Conflito(r) \/ EmpurrarDiaria(r) \/ Repetir(r) \/ Esgotar(r)

Passo(r) ==
  \/ Clonar(r) \/ Selar(r) \/ FimDosComandos(r) \/ Falhar(r) \/ NadaMudou(r)
  \/ Continua(r) \/ Diaria(r)

Next == OutroCommit \/ \E r \in Lacos : Passo(r)

Spec == Init /\ [][Next]_vars

(* The scheduler starts the runs, the steps of a run are executed, and a   *)
(* run of operacao-continua does not fail for ever before its mirror.      *)
FairSpec ==
  /\ Spec
  /\ \A r \in Continuas :
       /\ WF_vars(Clonar(r)) /\ SF_vars(FimDosComandos(r))
       /\ SF_vars(PularAncora(r) \/ Ancorar(r)) /\ SF_vars(Espelhar(r))
       /\ WF_vars(NadaMudou(r) \/ Empurrar(r) \/ Falhar(r))

------------------------------------------------------------------------------
TypeOK ==
  /\ principal \in Repositorios
  /\ fase \in [Lacos -> {"fora", "selar", "ancorar", "espelhar", "commitar", "puxar", "empurrar", "esgotado"}]
  /\ base \in [Lacos -> Repositorios] /\ copia \in [Lacos -> Repositorios]
  /\ tentativa \in [Lacos -> 0..Tentativas]
  /\ espelho \subseteq Eventos /\ prometidos \subseteq Eventos
  /\ contrato \subseteq Correntes
  /\ emitidos \in 0..MaxEventos /\ outros \in 0..MaxOutros

(* verify_chain.                                                           *)
Verifica(s) ==
  \A i \in DOMAIN s : s[i].seq = i /\ s[i].anterior = (IF i = 1 THEN 0 ELSE s[i - 1].id)

(* The chain verifies, and the contract holds what the anchors claim, each *)
(* of them of a beginning of the chain.                                    *)
Integro(repo) ==
  /\ Verifica(repo.corrente)
  /\ \A a \in repo.ancoras : a \in contrato /\ IsPrefix(a, repo.corrente)

(* Whatever runs overlap, fail or are refused, the published file is one   *)
(* chain that verifies, and every published anchor is one the contract     *)
(* holds, of a beginning of the published chain (operacao-continua.yml:    *)
(* 139-150, rodada-diaria.yml:68-83).                                      *)
PublicadaIntegra == Integro(principal)

(* Nothing published is ever taken back or rewritten, neither an event nor *)
(* an anchor.                                                              *)
SoAvanca ==
  [][/\ IsPrefix(principal.corrente, principal'.corrente)
     /\ principal.ancoras \subseteq principal'.ancoras]_principal

(* A run of operacao-continua that ends green has published and mirrored   *)
(* what it sealed: a refused push is seen.                                 *)
VerdeDaContinua ==
  [][\A r \in Continuas :
       fase[r] # "fora" /\ prometidos # prometidos' /\ fase'[r] = "fora" =>
         Novos(r) \subseteq ToSet(principal'.corrente) \cap espelho']_vars

(* What is published is mirrored in the end, also what rodada-diaria, which*)
(* does not mirror, has published.                                         *)
PublicadoChegaAoEspelho ==
  \A i \in 1..MaxEventos :
    (\E e \in ToSet(principal.corrente) : e.id = i) ~> (\E e \in espelho : e.id = i)

(* What the proofs need.  A clone extends what it was cloned from and is   *)
(* sound itself; a clone of the last commit is a clone of the branch as it *)
(* is; and what a run of operacao-continua commits is already mirrored.    *)
CopiaFiel(r) ==
  /\ IsPrefix(base[r].corrente, copia[r].corrente)
  /\ base[r].ancoras \subseteq copia[r].ancoras
  /\ Integro(copia[r])
  /\ Len(copia[r].corrente) <= emitidos

BaseAtual(r) ==
  fase[r] # "fora" =>
    /\ base[r].commit <= principal.commit
    /\ base[r].commit = principal.commit => base[r] = principal

FaseFiel(r) ==
  /\ fase[r] # "esgotado" => tentativa[r] < Tentativas
  /\ fase[r] \in {"ancorar", "espelhar"} => r \in Continuas
  /\ fase[r] \in {"puxar", "empurrar", "esgotado"} => r \in Diarias
  /\ r \in Continuas /\ fase[r] = "commitar" => ToSet(copia[r].corrente) \subseteq espelho

IInv ==
  /\ TypeOK
  /\ PublicadaIntegra
  /\ Len(principal.corrente) <= emitidos
  /\ \A r \in Lacos : CopiaFiel(r) /\ BaseAtual(r) /\ FaseFiel(r)

(* A green run has published what it sealed.                               *)
VerdePublicou == prometidos \subseteq ToSet(principal.corrente)
=============================================================================
