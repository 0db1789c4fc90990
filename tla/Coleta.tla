-------------------------------- MODULE Coleta --------------------------------
(***************************************************************************)
(* Collection by several threads through one polite fetcher.  The tasks    *)
(* are split into queues by the host they are filed under, one thread      *)
(* works off a queue in order, and every thread asks the same fetcher:     *)
(* robots.txt first (a cache without a lock), then a slot of the site (a   *)
(* lock held only to look and to reserve, the sleep outside of it), then   *)
(* the request, with a bounded number of retries.                          *)
(*                                                                         *)
(* Queues need not match sites: what a task is filed under is given by     *)
(* hand, what the fetcher limits is the host of the URL.                   *)
(*                                                                         *)
(* Time passes in steps of the action Passar.  Nothing depends on how old  *)
(* a slot or a robots entry is once it is old enough, so ages stop there.  *)
(***************************************************************************)
EXTENDS Naturals, Sequences, FiniteSets

CONSTANTS
  Tarefas,
  Filas,
  FilaDe,        \* the tasks of a queue, in order
  Sitios,
  Sitio,         \* the host in the URL of a task
  MaxHosts,      \* threads of the pool
  Intervalo,     \* min_interval_seconds
  Validade,      \* ttl of a robots entry
  MaxTentativas, \* max_retries
  MaxPausa       \* bound on a backoff or a Retry-After

ASSUME ColetaAssumption ==
  /\ FilaDe \in [Filas -> Seq(Tarefas)] /\ Sitio \in [Tarefas -> Sitios]
  /\ \A f, g \in Filas : \A i \in DOMAIN FilaDe[f], j \in DOMAIN FilaDe[g] :
       FilaDe[f][i] = FilaDe[g][j] => f = g /\ i = j
  /\ MaxHosts \in Nat \ {0}
ASSUME TempoAssumption ==
  /\ Intervalo \in Nat \ {0} /\ Validade \in Nat \ {0}
  /\ MaxTentativas \in Nat /\ MaxPausa \in Nat

VARIABLES
  porTermos,   \* access_basis: the terms of an API, not robots.txt
  idade,       \* time since the last slot of a site, at most Intervalo
  robots,      \* the robots entry of a site, with its age
  fios,        \* what the thread of each queue does
  respostas,   \* the answers each task got
  resultados

vars == <<porTermos, idade, robots, fios, respostas, resultados>>

Retentaveis == {"falha", "tente"}   \* HttpError; 429 and 5xx
Respostas == Retentaveis \cup {"ok", "recusa", "quebra"}   \* 4xx and too large; any other exception

SemEntrada == [idade |-> Validade, proibidas |-> {}]
Tarefa(f) == FilaDe[f][fios[f].i]
DoSitio(s) == {t \in Tarefas : Sitio[t] = s}
Ativos == {f \in Filas : fios[f].pc \notin {"fora", "fim"}}

Init ==
  /\ porTermos \in BOOLEAN
  /\ idade = [s \in Sitios |-> Intervalo]
  /\ robots = [s \in Sitios |-> SemEntrada]
  /\ fios = [f \in Filas |-> [pc |-> "fora", i |-> 1, tentativa |-> 0, tempo |-> 0]]
  /\ respostas = [t \in Tarefas |-> <<>>]
  /\ resultados = [t \in Tarefas |-> "nenhum"]

Ir(f, pc, tempo) == fios' = [fios EXCEPT ![f].pc = pc, ![f].tempo = tempo]

------------------------------------------------------------------------------
(* The pool.                                                               *)

Comecar(f) ==
  /\ fios[f].pc = "fora"
  /\ Cardinality(Ativos) < MaxHosts
  /\ Ir(f, "proxima", 0)
  /\ UNCHANGED <<porTermos, idade, robots, respostas, resultados>>

Acabar(f) ==
  /\ fios[f].pc = "proxima" /\ fios[f].i > Len(FilaDe[f])
  /\ Ir(f, "fim", 0)
  /\ UNCHANGED <<porTermos, idade, robots, respostas, resultados>>

(* Whatever a task raises becomes its result; the queue goes on.           *)
ConcluirOuParar(f, r) ==    \* mutant: an exception ends the thread
  /\ resultados' = [resultados EXCEPT ![Tarefa(f)] = r]
  /\ fios' = [fios EXCEPT ![f] =
       [pc |-> IF r = "ok" THEN "proxima" ELSE "fim", i |-> @.i + 1, tentativa |-> 0, tempo |-> 0]]
Concluir(f, r) ==
  /\ resultados' = [resultados EXCEPT ![Tarefa(f)] = r]
  /\ fios' = [fios EXCEPT ![f] = [pc |-> "proxima", i |-> @.i + 1, tentativa |-> 0, tempo |-> 0]]

------------------------------------------------------------------------------
(* robots.txt: the cached entry, or one that is fetched now.               *)

Decidir(f, proibidas) ==
  IF Tarefa(f) \in proibidas
  THEN Concluir(f, "robots")
  ELSE Ir(f, "vez", 0) /\ UNCHANGED resultados

Consultar(f) ==
  /\ fios[f].pc = "proxima" /\ fios[f].i <= Len(FilaDe[f])
  /\ LET e == robots[Sitio[Tarefa(f)]]
     IN  \/ /\ porTermos
            /\ Ir(f, "vez", 0)
            /\ UNCHANGED resultados
         \/ ~porTermos /\ e.idade < Validade /\ Decidir(f, e.proibidas)
         \/ /\ ~porTermos /\ e.idade = Validade
            /\ Ir(f, "robots", 0)
            /\ UNCHANGED resultados
  /\ UNCHANGED <<porTermos, idade, robots, respostas>>

(* The answer of the site; a file that is missing or does not come forbids *)
(* nothing.  The entry is as old as the look at the cache, and replaces    *)
(* what another thread put there meanwhile.  Other exceptions end the task.*)
Receber(f) ==
  /\ fios[f].pc = "robots"
  /\ LET s == Sitio[Tarefa(f)]
     IN  \/ \E proibidas \in SUBSET DoSitio(s) :
              /\ robots' = [robots EXCEPT ![s] = [idade |-> fios[f].tempo, proibidas |-> proibidas]]
              /\ Decidir(f, proibidas)
         \/ Concluir(f, "erro") /\ UNCHANGED robots
  /\ UNCHANGED <<porTermos, idade, respostas>>

------------------------------------------------------------------------------
(* The slot.                                                               *)

Vez(f) ==
  /\ fios[f].pc = "vez"
  /\ LET s == Sitio[Tarefa(f)]
     IN  \/ /\ idade[s] >= Intervalo
            /\ idade' = [idade EXCEPT ![s] = 0]
            /\ Ir(f, "pedir", 0)
         \/ /\ idade[s] < Intervalo
            /\ Ir(f, "dormir", Intervalo - idade[s])
            /\ UNCHANGED idade
  /\ UNCHANGED <<porTermos, robots, respostas, resultados>>

(* Awake, after what was missing or later, it looks again.                 *)
AcordarEIr(f) ==    \* mutant: the slot it slept for is taken to be its own
  /\ fios[f].pc \in {"dormir", "pausa"} /\ fios[f].tempo = 0
  /\ IF fios[f].pc = "dormir"
     THEN Ir(f, "pedir", 0) /\ idade' = [idade EXCEPT ![Sitio[Tarefa(f)]] = 0]
     ELSE Ir(f, "vez", 0) /\ UNCHANGED idade
  /\ UNCHANGED <<porTermos, robots, respostas, resultados>>
Acordar(f) ==
  /\ fios[f].pc \in {"dormir", "pausa"} /\ fios[f].tempo = 0
  /\ Ir(f, "vez", 0)
  /\ UNCHANGED <<porTermos, idade, robots, respostas, resultados>>

------------------------------------------------------------------------------
(* The request.                                                            *)

Ouvir(f, r) == respostas' = [respostas EXCEPT ![Tarefa(f)] = Append(@, r)]

EncerraSoNoOk(r) == r = "ok"     \* mutant: a 403 is tried again
Encerra(r) == r \notin Retentaveis

Responder(f) ==
  /\ fios[f].pc = "pedir"
  /\ \E r \in Respostas :
       /\ Ouvir(f, r)
       /\ Encerra(r)
       /\ Concluir(f, IF r = "quebra" THEN "erro" ELSE r)
  /\ UNCHANGED <<porTermos, idade, robots>>

Retentar(f) ==
  /\ fios[f].pc = "pedir"
  /\ \E r \in Respostas :
       /\ ~Encerra(r)
       /\ Ouvir(f, r)
       /\ fios[f].tentativa < MaxTentativas
       /\ \E pausa \in 0..MaxPausa :
            fios' = [fios EXCEPT ![f] =
              [pc |-> "pausa", i |-> @.i, tentativa |-> @.tentativa + 1, tempo |-> pausa]]
  /\ UNCHANGED <<porTermos, idade, robots, resultados>>

(* Attempts used up, or a Retry-After no sleep accepts (a negative number).*)
Desistir(f) ==
  /\ fios[f].pc = "pedir"
  /\ \E r \in Respostas :
       /\ ~Encerra(r)
       /\ Ouvir(f, r)
       /\ fios[f].tentativa >= MaxTentativas \/ r = "tente"
       /\ Concluir(f, "erro")
  /\ UNCHANGED <<porTermos, idade, robots>>

------------------------------------------------------------------------------
Mais(n, teto) == IF n < teto THEN n + 1 ELSE teto

(* Time: slots and entries age, sleepers wait, and a robots.txt that is    *)
(* under way makes its entry older.                                        *)
Passar ==
  /\ idade' = [s \in Sitios |-> Mais(idade[s], Intervalo)]
  /\ robots' = [s \in Sitios |-> [robots[s] EXCEPT !.idade = Mais(@, Validade)]]
  /\ fios' = [f \in Filas |-> [fios[f] EXCEPT !.tempo =
       IF fios[f].pc = "robots" THEN Mais(@, Validade)
       ELSE IF @ > 0 THEN @ - 1 ELSE 0]]
  /\ UNCHANGED <<porTermos, respostas, resultados>>

Passo(f) ==
  \/ Comecar(f) \/ Acabar(f) \/ Consultar(f) \/ Receber(f)
  \/ Vez(f) \/ Acordar(f) \/ Responder(f) \/ Retentar(f) \/ Desistir(f)

Next == Passar \/ \E f \in Filas : Passo(f)

(* Threads run, requests end (timeout_seconds), time passes.               *)
FairSpec ==
  /\ Init /\ [][Next]_vars
  /\ WF_vars(Passar) /\ \A f \in Filas : WF_vars(Passo(f))

Spec == Init /\ [][Next]_vars

------------------------------------------------------------------------------
Fios ==
  [pc : {"fora", "proxima", "robots", "vez", "dormir", "pedir", "pausa", "fim"},
   i : Nat \ {0}, tentativa : 0..MaxTentativas, tempo : Nat]

TypeOK ==
  /\ porTermos \in BOOLEAN
  /\ idade \in [Sitios -> 0..Intervalo]
  /\ robots \in [Sitios -> [idade : 0..Validade, proibidas : SUBSET Tarefas]]
  /\ fios \in [Filas -> Fios]
  /\ respostas \in [Tarefas -> Seq(Respostas)]
  /\ resultados \in [Tarefas -> {"nenhum", "ok", "recusa", "robots", "erro"}]

(* Two slots of one site are never closer than the interval, whichever     *)
(* threads wait for them and however they slept (fetcher.py:127-141).      *)
Concede(f) == fios[f].pc # "pedir" /\ fios'[f].pc = "pedir"

EspacoPorHost ==
  [][\A f \in Filas : Concede(f) => idade[Sitio[Tarefa(f)]] = Intervalo]_vars

(* Nobody insists: every answer but the last was one to be tried again,    *)
(* there are at most MaxTentativas + 1, robots.txt forbids before the      *)
(* first request, and the result is what the last answer says              *)
(* (fetcher.py:143-195).                                                   *)
Honesto(rs, resultado) ==
  /\ Len(rs) <= MaxTentativas + 1
  /\ \A k \in 1..Len(rs) : k < Len(rs) => rs[k] \in Retentaveis
  /\ resultado = "robots" => Len(rs) = 0
  /\ resultado \in {"ok", "recusa"} => Len(rs) > 0 /\ rs[Len(rs)] = resultado
  /\ resultado = "nenhum" /\ Len(rs) > 0 => rs[Len(rs)] \in Retentaveis
  /\ resultado = "erro" /\ Len(rs) > 0 => rs[Len(rs)] \in Retentaveis \cup {"quebra"}

NinguemInsiste == \A t \in Tarefas : Honesto(respostas[t], resultados[t])

(* Every task gets a result, whatever the others fail with and however     *)
(* many threads want the same slots (paralelo.py:84-104).                  *)
TodaTarefaTermina == \A t \in Tarefas : <>(resultados[t] # "nenhum")

(* What the proofs need: a task in hand has no result and as many answers  *)
(* as attempts, the ones that wait have neither.                           *)
EmMaos(f) == fios[f].pc \in {"robots", "vez", "dormir", "pedir", "pausa"}

FioFiel(f) ==
  /\ EmMaos(f) => fios[f].i <= Len(FilaDe[f])
  /\ ~EmMaos(f) => fios[f].tentativa = 0
  /\ fios[f].i <= Len(FilaDe[f]) => Len(respostas[Tarefa(f)]) = fios[f].tentativa
  /\ fios[f].pc = "robots" => fios[f].tentativa = 0 /\ fios[f].tempo <= Validade
  /\ \A j \in DOMAIN FilaDe[f] : j >= fios[f].i => resultados[FilaDe[f][j]] = "nenhum"
  /\ \A j \in DOMAIN FilaDe[f] : j > fios[f].i => respostas[FilaDe[f][j]] = <<>>

IInv == TypeOK /\ NinguemInsiste /\ \A f \in Filas : FioFiel(f)
=============================================================================
