---------------------------- MODULE Coleta_proofs ----------------------------
(***************************************************************************)
(* Proofs about Coleta, for any number of queues, tasks, sites, threads    *)
(* and attempts: slots of a site keep the interval, and nobody insists     *)
(* after a refusal or beyond the attempts.                                 *)
(***************************************************************************)
EXTENDS Coleta, TLAPS

USE ColetaAssumption, TempoAssumption

Indices(f) == 1..Len(FilaDe[f])

(* The queues, as the proofs use them.                                     *)
LEMMA Fila ==
  ASSUME NEW f \in Filas
  PROVE  /\ Len(FilaDe[f]) \in Nat /\ DOMAIN FilaDe[f] = Indices(f)
         /\ \A i \in Indices(f) : FilaDe[f][i] \in Tarefas
         /\ \A g \in Filas : \A i \in Indices(f), j \in Indices(g) :
              FilaDe[f][i] = FilaDe[g][j] => f = g /\ i = j
<1>1. \A g \in Filas : FilaDe[g] \in Seq(Tarefas) /\ DOMAIN FilaDe[g] = Indices(g)
  BY DEF Indices
<1>. QED
  BY <1>1 DEF Indices

(* The thread of another queue does not notice what is done for a task that*)
(* is not in it.                                                           *)
LEMMA OutroFio ==
  ASSUME NEW f \in Filas, NEW g \in Filas \ {f}, FioFiel(g), fios'[g] = fios[g], fios[g] \in Fios,
         NEW i \in Indices(f),
         \A t \in Tarefas \ {FilaDe[f][i]} : respostas'[t] = respostas[t] /\ resultados'[t] = resultados[t]
  PROVE  FioFiel(g)'
<1>1. \A j \in Indices(g) : /\ FilaDe[g][j] \in Tarefas \ {FilaDe[f][i]}
                            /\ respostas'[FilaDe[g][j]] = respostas[FilaDe[g][j]]
                            /\ resultados'[FilaDe[g][j]] = resultados[FilaDe[g][j]]
  BY Fila
<1>2. DOMAIN FilaDe[g] = Indices(g) /\ Len(FilaDe[g]) \in Nat
  BY Fila
<1>3. fios[g].i \in Nat \ {0}
  BY DEF Fios
<1>4. (fios[g].i <= Len(FilaDe[g]) => Len(respostas[Tarefa(g)]) = fios[g].tentativa)'
  <2>. SUFFICES ASSUME fios[g].i <= Len(FilaDe[g])
                PROVE  Len(respostas'[FilaDe[g][fios[g].i]]) = fios[g].tentativa
    BY DEF Tarefa
  <2>1. fios[g].i \in Indices(g)
    BY <1>2, <1>3 DEF Indices
  <2>2. Len(respostas[FilaDe[g][fios[g].i]]) = fios[g].tentativa
    BY DEF FioFiel, Tarefa
  <2>. QED
    BY <1>1, <2>1, <2>2
<1>5. (EmMaos(g) => fios[g].i <= Len(FilaDe[g]))' /\ (~EmMaos(g) => fios[g].tentativa = 0)'
  BY DEF FioFiel, EmMaos
<1>. QED
  BY <1>1, <1>2, <1>4, <1>5 DEF FioFiel

(* A step that touches neither answers nor results.                        *)
LEMMA SemResposta ==
  ASSUME IInv, TypeOK', UNCHANGED <<respostas, resultados>>, NEW f \in Filas, FioFiel(f)',
         \A g \in Filas \ {f} : fios'[g] = fios[g]
  PROVE  IInv'
<1>1. NinguemInsiste'
  BY DEF IInv, NinguemInsiste
<1>2. ASSUME NEW g \in Filas \ {f} PROVE FioFiel(g)'
  BY <1>2 DEF IInv, FioFiel, EmMaos, Tarefa
<1>. QED
  BY <1>1, <1>2 DEF IInv

(* One thread moves, and nothing else of it than step and time.            *)
Movido(f, pc, tempo) ==
  /\ fios' \in [Filas -> Fios] /\ \A g \in Filas \ {f} : fios'[g] = fios[g]
  /\ fios'[f].pc = pc /\ fios'[f].tempo = tempo
  /\ fios'[f].i = fios[f].i /\ fios'[f].tentativa = fios[f].tentativa

LEMMA Move ==
  ASSUME TypeOK, NEW f \in Filas, NEW pc \in {"fora", "proxima", "robots", "vez", "dormir", "pedir", "pausa", "fim"},
         NEW tempo \in Nat, Ir(f, pc, tempo)
  PROVE  Movido(f, pc, tempo)
<1>1. PICK r \in Fios : r = fios[f]
  BY DEF TypeOK
<1>2. PICK e : e = [r EXCEPT !.pc = pc, !.tempo = tempo]
  OBVIOUS
<1>3. e \in Fios /\ e.pc = pc /\ e.tempo = tempo /\ e.i = r.i /\ e.tentativa = r.tentativa
  BY <1>2 DEF Fios
<1>4. fios' = [fios EXCEPT ![f] = e]
  BY <1>1, <1>2 DEF Ir
<1>. QED
  BY <1>1, <1>3, <1>4 DEF TypeOK, Movido

(* The thread goes on with the task it has in hand.                        *)
Externos ==
  /\ idade' \in [Sitios -> 0..Intervalo]
  /\ robots' \in [Sitios -> [idade : 0..Validade, proibidas : SUBSET Tarefas]]
  /\ porTermos' = porTermos

LEMMA Continua ==
  ASSUME IInv, Externos, NEW f \in Filas,
         fios' \in [Filas -> Fios], \A g \in Filas \ {f} : fios'[g] = fios[g],
         fios'[f].pc \in {"robots", "vez", "dormir", "pedir"},
         fios'[f].i = fios[f].i, fios'[f].tentativa = fios[f].tentativa,
         fios'[f].pc = "robots" => fios'[f].tempo = 0 /\ fios[f].tentativa = 0,
         fios[f].i <= Len(FilaDe[f]),
         respostas' = respostas, resultados' = resultados
  PROVE  IInv'
<1>2. TypeOK'
  BY DEF IInv, TypeOK, Externos
<1>3. FioFiel(f)'
  BY DEF IInv, FioFiel, EmMaos, Tarefa
<1>. QED
  BY <1>2, <1>3, SemResposta

(* A task ends, with the answers it has or with one more.                  *)
LEMMA Conclui ==
  ASSUME IInv, NEW f \in Filas, fios[f].i <= Len(FilaDe[f]),
         NEW r \in {"ok", "recusa", "robots", "erro"}, Concluir(f, r),
         Externos,
         \/ UNCHANGED respostas /\ fios[f].tentativa = 0 /\ r \in {"robots", "erro"}
         \/ \E a \in Respostas :
              /\ Ouvir(f, a)
              /\ r \in {"ok", "recusa"} => a = r
              /\ r = "erro" => a \in Retentaveis \cup {"quebra"}
              /\ r # "robots"
  PROVE  IInv'
<1>1. PICK i \in Indices(f) : i = fios[f].i
  BY Fila DEF IInv, TypeOK, Fios, Indices
<1>2. PICK t \in Tarefas : t = FilaDe[f][i]
  BY Fila
<1>3. Tarefa(f) = t
  BY <1>1, <1>2 DEF Tarefa
<1>4. PICK e : e = [pc |-> "proxima", i |-> i + 1, tentativa |-> 0, tempo |-> 0]
  OBVIOUS
<1>5. e \in Fios /\ e.pc = "proxima" /\ e.i = i + 1 /\ e.tentativa = 0
  BY <1>4, Fila DEF Fios, Indices
<1>6. fios' = [fios EXCEPT ![f] = e]
  BY <1>1, <1>4 DEF Concluir
<1>7. fios' \in [Filas -> Fios] /\ fios'[f] = e /\ \A g \in Filas \ {f} : fios'[g] = fios[g]
  BY <1>5, <1>6 DEF IInv, TypeOK
<1>8. resultados' = [resultados EXCEPT ![t] = r]
  BY <1>3 DEF Concluir
<1>9. \A x \in Tarefas \ {t} : respostas'[x] = respostas[x] /\ resultados'[x] = resultados[x]
  BY <1>3, <1>8 DEF IInv, TypeOK, Ouvir
<1>10. respostas[t] \in Seq(Respostas) /\ Len(respostas[t]) = fios[f].tentativa /\ resultados[t] = "nenhum"
       /\ fios[f].tentativa \in 0..MaxTentativas
  <2>1. respostas[t] \in Seq(Respostas) /\ fios[f].tentativa \in 0..MaxTentativas
    BY DEF IInv, TypeOK, Fios
  <2>2. Len(respostas[t]) = fios[f].tentativa
    BY <1>3 DEF IInv, FioFiel
  <2>3. i \in DOMAIN FilaDe[f] /\ i >= fios[f].i
    BY <1>1, Fila DEF Indices
  <2>4. resultados[t] = "nenhum"
    BY <1>2, <2>3 DEF IInv, FioFiel
  <2>. QED
    BY <2>1, <2>2, <2>4
<1>11. resultados'[t] = r
  BY <1>8 DEF IInv, TypeOK
<1>14. FioFiel(f)'
  <2>1. \A j \in Indices(f) : j > i => FilaDe[f][j] \in Tarefas \ {t}
    BY <1>2, Fila DEF Indices
  <2>2. \A j \in Indices(f) : j > i => resultados[FilaDe[f][j]] = "nenhum" /\ respostas[FilaDe[f][j]] = <<>>
    <3>1. DOMAIN FilaDe[f] = Indices(f) /\ \A j \in Indices(f) : j > i => j >= fios[f].i /\ j > fios[f].i
      BY <1>1, Fila DEF Indices
    <3>. QED
      BY <3>1 DEF IInv, FioFiel
  <2>3. \A j \in Indices(f) : j > i => resultados'[FilaDe[f][j]] = "nenhum" /\ respostas'[FilaDe[f][j]] = <<>>
    BY <1>9, <2>1, <2>2
  <2>4. DOMAIN FilaDe[f] = Indices(f) /\ \A j \in Indices(f) : j >= i + 1 \/ j > i + 1 => j > i
    BY Fila DEF Indices
  <2>5. i + 1 <= Len(FilaDe[f]) => i + 1 \in Indices(f) /\ i + 1 > i
    BY Fila DEF Indices
  <2>6. (i + 1 <= Len(FilaDe[f]) => Len(respostas[FilaDe[f][i + 1]]) = 0)'
    BY <2>3, <2>5
  <2>. QED
    BY <1>5, <1>7, <2>3, <2>4, <2>6 DEF FioFiel, EmMaos, Tarefa
<1>12. CASE UNCHANGED respostas /\ fios[f].tentativa = 0 /\ r \in {"robots", "erro"}
  <2>1. TypeOK'
    BY <1>7, <1>8, <1>12 DEF IInv, TypeOK, Externos
  <2>2. NinguemInsiste'
    <3>1. Len(respostas[t]) = 0
      BY <1>10, <1>12
    <3>. QED
      BY <1>8, <1>9, <1>11, <1>12, <3>1 DEF IInv, NinguemInsiste, Honesto
  <2>. QED
    <3>1. FioFiel(f)'
      BY <1>14
    <3>2. ASSUME NEW g \in Filas \ {f} PROVE FioFiel(g)'
      BY <1>2, <1>7, <1>9, <3>2, OutroFio DEF IInv, TypeOK
    <3>. QED
      BY <2>1, <2>2, <3>1, <3>2 DEF IInv
<1>13. ASSUME NEW a \in Respostas, Ouvir(f, a),
              r \in {"ok", "recusa"} => a = r,
              r = "erro" => a \in Retentaveis \cup {"quebra"}, r # "robots"
       PROVE  IInv'
  <2>1. respostas' = [respostas EXCEPT ![t] = Append(respostas[t], a)]
    BY <1>3, <1>13 DEF Ouvir
  <2>2. respostas'[t] = Append(respostas[t], a)
    BY <2>1 DEF IInv, TypeOK
  <2>3. TypeOK'
    BY <1>7, <1>8, <1>10, <2>1 DEF IInv, TypeOK, Externos
  <2>4. PICK n \in Nat : n = Len(respostas[t]) /\ n <= MaxTentativas
    BY <1>10
  <2>5. \A k \in 1..n : respostas[t][k] \in Retentaveis
    BY <1>10, <2>4 DEF IInv, NinguemInsiste, Honesto
  <2>6. /\ Len(respostas'[t]) = n + 1 /\ respostas'[t][n + 1] = a
        /\ \A k \in 1..n : respostas'[t][k] \in Retentaveis
    BY <1>10, <2>2, <2>4, <2>5
  <2>7. NinguemInsiste'
    <3>1. ASSUME NEW x \in Tarefas \ {t}
          PROVE  respostas'[x] = respostas[x] /\ resultados'[x] = resultados[x]
      BY <1>9
    <3>2. n + 1 <= MaxTentativas + 1 /\ \A k \in 1..(n + 1) : k < n + 1 => k \in 1..n
      BY <2>4
    <3>3. PICK rs : rs = respostas'[t]
      OBVIOUS
    <3>4. Honesto(rs, r)
      BY <1>13, <2>6, <3>2, <3>3 DEF Honesto
    <3>5. ASSUME NEW x \in Tarefas \ {t} PROVE Honesto(respostas'[x], resultados'[x])
      BY <3>1, <3>5 DEF IInv, NinguemInsiste
    <3>. QED
      BY <1>11, <3>3, <3>4, <3>5 DEF NinguemInsiste
  <2>. QED
    <3>1. FioFiel(f)'
      BY <1>14
    <3>2. ASSUME NEW g \in Filas \ {f} PROVE FioFiel(g)'
      BY <1>2, <1>7, <1>9, <3>2, OutroFio DEF IInv, TypeOK
    <3>. QED
      BY <2>3, <2>7, <3>1, <3>2 DEF IInv
<1>. QED
  BY <1>12, <1>13

LEMMA IInvInicial == Init => IInv
<1>. SUFFICES ASSUME Init PROVE IInv
  OBVIOUS
<1>1. TypeOK
  BY DEF Init, TypeOK, Fios, SemEntrada
<1>2. NinguemInsiste
  BY DEF Init, NinguemInsiste, Honesto
<1>3. ASSUME NEW f \in Filas PROVE FioFiel(f)
  <2>1. \A j \in DOMAIN FilaDe[f] : FilaDe[f][j] \in Tarefas
    BY Fila
  <2>2. 1 <= Len(FilaDe[f]) => 1 \in DOMAIN FilaDe[f]
    BY Fila DEF Indices
  <2>3. fios[f] = [pc |-> "fora", i |-> 1, tentativa |-> 0, tempo |-> 0]
    BY DEF Init
  <2>. QED
    BY <2>1, <2>2, <2>3 DEF Init, FioFiel, EmMaos, Tarefa
<1>. QED
  BY <1>1, <1>2, <1>3 DEF IInv

------------------------------------------------------------------------------
(* One step per action.                                                    *)

LEMMA PassoPool ==
  ASSUME IInv, NEW f \in Filas, Comecar(f) \/ Acabar(f)
  PROVE  IInv'
<1>1. PICK pc \in {"proxima", "fim"} : Ir(f, pc, 0)
  BY DEF Comecar, Acabar
<1>2. UNCHANGED <<porTermos, idade, robots, respostas, resultados>> /\ fios[f].pc \in {"fora", "proxima"}
  BY DEF Comecar, Acabar
<1>3. Movido(f, pc, 0)
  BY <1>1, Move DEF IInv
<1>4. TypeOK'
  BY <1>2, <1>3 DEF IInv, TypeOK, Movido
<1>5. FioFiel(f)'
  BY <1>2, <1>3 DEF IInv, FioFiel, EmMaos, Tarefa, Movido
<1>. QED
  BY <1>2, <1>3, <1>4, <1>5, SemResposta DEF Movido

(* What robots.txt says of the task in hand.                               *)
LEMMA PassoVezDa ==
  ASSUME IInv, Externos, NEW f \in Filas, Ir(f, "vez", 0), fios[f].i <= Len(FilaDe[f]),
         respostas' = respostas, resultados' = resultados
  PROVE  IInv'
<1>1. Movido(f, "vez", 0)
  BY Move DEF IInv
<1>. QED
  BY <1>1, Continua DEF Movido

LEMMA PassoDecidir ==
  ASSUME IInv, Externos, NEW f \in Filas, NEW proibidas, Decidir(f, proibidas),
         fios[f].i <= Len(FilaDe[f]), fios[f].tentativa = 0, respostas' = respostas
  PROVE  IInv'
<1>1. CASE Concluir(f, "robots")
  BY <1>1, Conclui
<1>2. CASE Ir(f, "vez", 0) /\ UNCHANGED resultados
  BY <1>2, PassoVezDa
<1>. QED
  BY <1>1, <1>2 DEF Decidir

LEMMA PassoConsultar ==
  ASSUME IInv, NEW f \in Filas, Consultar(f)
  PROVE  IInv'
<1>1. fios[f].pc = "proxima" /\ fios[f].i <= Len(FilaDe[f]) /\ respostas' = respostas
  BY DEF Consultar
<1>2. fios[f].tentativa = 0
  BY <1>1 DEF IInv, FioFiel, EmMaos
<1>3. Externos
  BY DEF IInv, TypeOK, Consultar, Externos
<1>4. CASE Ir(f, "vez", 0) /\ UNCHANGED resultados
  BY <1>1, <1>3, <1>4, PassoVezDa
<1>5. CASE Decidir(f, robots[Sitio[Tarefa(f)]].proibidas)
  BY <1>1, <1>2, <1>3, <1>5, PassoDecidir
<1>6. CASE Ir(f, "robots", 0) /\ UNCHANGED resultados
  <2>1. Movido(f, "robots", 0)
    BY <1>6, Move DEF IInv
  <2>. QED
    BY <1>1, <1>2, <1>3, <1>6, <2>1, Continua DEF Movido
<1>. QED
  BY <1>4, <1>5, <1>6 DEF Consultar

LEMMA PassoReceber ==
  ASSUME IInv, NEW f \in Filas, Receber(f)
  PROVE  IInv'
<1>1. /\ fios[f].pc = "robots" /\ fios[f].i <= Len(FilaDe[f]) /\ fios[f].tentativa = 0
      /\ fios[f].tempo \in 0..Validade /\ UNCHANGED <<porTermos, idade, respostas>>
  <2>1. fios[f].tempo \in Nat /\ fios[f].pc = "robots"
    BY DEF Receber, IInv, TypeOK, Fios
  <2>. QED
    BY <2>1 DEF Receber, IInv, FioFiel, EmMaos
<1>2. CASE \E proibidas \in SUBSET DoSitio(Sitio[Tarefa(f)]) :
             /\ robots' = [robots EXCEPT ![Sitio[Tarefa(f)]] = [idade |-> fios[f].tempo, proibidas |-> proibidas]]
             /\ Decidir(f, proibidas)
  <2>1. PICK proibidas \in SUBSET DoSitio(Sitio[Tarefa(f)]) :
             /\ robots' = [robots EXCEPT ![Sitio[Tarefa(f)]] = [idade |-> fios[f].tempo, proibidas |-> proibidas]]
             /\ Decidir(f, proibidas)
    BY <1>2
  <2>2. [idade |-> fios[f].tempo, proibidas |-> proibidas] \in [idade : 0..Validade, proibidas : SUBSET Tarefas]
    BY <1>1 DEF DoSitio
  <2>3. Externos
    BY <1>1, <2>1, <2>2 DEF IInv, TypeOK, Externos
  <2>. QED
    BY <1>1, <2>1, <2>3, PassoDecidir
<1>3. CASE Concluir(f, "erro") /\ UNCHANGED robots
  <2>1. Externos
    BY <1>1, <1>3 DEF IInv, TypeOK, Externos
  <2>. QED
    BY <1>1, <1>3, <2>1, Conclui
<1>. QED
  BY <1>2, <1>3 DEF Receber

LEMMA PassoVez ==
  ASSUME IInv, NEW f \in Filas, Vez(f)
  PROVE  IInv'
<1>1. fios[f].i <= Len(FilaDe[f]) /\ UNCHANGED <<porTermos, robots, respostas, resultados>>
  BY DEF Vez, IInv, FioFiel, EmMaos
<1>2. fios[f].i \in Indices(f)
  BY <1>1, Fila DEF IInv, TypeOK, Fios, Indices
<1>3. PICK s \in Sitios : s = Sitio[Tarefa(f)]
  BY <1>2, Fila DEF Tarefa
<1>4. CASE idade' = [idade EXCEPT ![s] = 0] /\ Ir(f, "pedir", 0)
  <2>1. Externos
    BY <1>1, <1>4 DEF IInv, TypeOK, Externos
  <2>2. Movido(f, "pedir", 0)
    BY <1>4, Move DEF IInv
  <2>. QED
    BY <1>1, <2>1, <2>2, Continua DEF Movido
<1>5. CASE idade[s] < Intervalo /\ Ir(f, "dormir", Intervalo - idade[s]) /\ UNCHANGED idade
  <2>1. Externos /\ Intervalo - idade[s] \in Nat
    BY <1>1, <1>5 DEF IInv, TypeOK, Externos
  <2>2. Movido(f, "dormir", Intervalo - idade[s])
    BY <1>5, <2>1, Move DEF IInv
  <2>. QED
    BY <1>1, <2>1, <2>2, Continua DEF Movido
<1>. QED
  BY <1>3, <1>4, <1>5 DEF Vez

LEMMA PassoAcordar ==
  ASSUME IInv, NEW f \in Filas, Acordar(f)
  PROVE  IInv'
<1>1. /\ fios[f].i <= Len(FilaDe[f]) /\ UNCHANGED <<porTermos, robots, idade, respostas, resultados>>
      /\ Ir(f, "vez", 0)
  BY DEF Acordar, IInv, FioFiel, EmMaos
<1>2. Externos
  BY <1>1 DEF IInv, TypeOK, Externos
<1>. QED
  BY <1>1, <1>2, PassoVezDa

LEMMA PassoFinal ==
  ASSUME IInv, NEW f \in Filas, Responder(f) \/ Desistir(f)
  PROVE  IInv'
<1>1. fios[f].i <= Len(FilaDe[f]) /\ UNCHANGED <<porTermos, robots, idade>>
  BY DEF Responder, Desistir, IInv, FioFiel, EmMaos
<1>2. Externos
  BY <1>1 DEF IInv, TypeOK, Externos
<1>3. CASE Responder(f)
  <2>1. PICK a \in Respostas : Ouvir(f, a) /\ Encerra(a) /\ Concluir(f, IF a = "quebra" THEN "erro" ELSE a)
    BY <1>3 DEF Responder
  <2>2. CASE a = "quebra"
    <3>1. Concluir(f, "erro")
      BY <2>1, <2>2
    <3>. QED
      BY <1>1, <1>2, <2>1, <2>2, <3>1, Conclui
  <2>3. CASE a # "quebra"
    <3>1. a \in {"ok", "recusa"} /\ Concluir(f, a)
      BY <2>1, <2>3 DEF Respostas, Encerra
    <3>. QED
      BY <1>1, <1>2, <2>1, <3>1, Conclui
  <2>. QED
    BY <2>2, <2>3
<1>4. CASE Desistir(f)
  <2>1. PICK a \in Respostas : Ouvir(f, a) /\ a \in Retentaveis /\ Concluir(f, "erro")
    BY <1>4 DEF Desistir, Encerra
  <2>. QED
    BY <1>1, <1>2, <2>1, Conclui
<1>. QED
  BY <1>3, <1>4

(* The task keeps its thread, with one answer and one attempt more.        *)
LEMMA PassoRetentar ==
  ASSUME IInv, NEW f \in Filas, Retentar(f)
  PROVE  IInv'
<1>1. PICK a \in Respostas, pausa \in 0..MaxPausa :
        /\ a \in Retentaveis /\ Ouvir(f, a) /\ fios[f].tentativa < MaxTentativas
        /\ fios' = [fios EXCEPT ![f] = [pc |-> "pausa", i |-> fios[f].i,
                     tentativa |-> fios[f].tentativa + 1, tempo |-> pausa]]
        /\ UNCHANGED <<porTermos, idade, robots, resultados>>
  BY DEF Retentar, Encerra
<1>2. /\ fios[f].i <= Len(FilaDe[f]) /\ fios[f].i \in Nat \ {0} /\ fios[f].tentativa \in 0..MaxTentativas
      /\ fios[f].pc = "pedir"
  BY DEF Retentar, IInv, FioFiel, EmMaos, TypeOK, Fios
<1>3. PICK i \in Indices(f) : i = fios[f].i
  BY <1>2, Fila DEF Indices
<1>4. PICK t \in Tarefas : t = FilaDe[f][i]
  BY Fila
<1>4a. Tarefa(f) = t
  BY <1>3, <1>4 DEF Tarefa
<1>5. PICK n \in Nat : n = fios[f].tentativa /\ n + 1 <= MaxTentativas /\ n + 1 \in 0..MaxTentativas
  BY <1>1, <1>2
<1>6. PICK e : e = [pc |-> "pausa", i |-> i, tentativa |-> n + 1, tempo |-> pausa]
  OBVIOUS
<1>7. e \in Fios /\ e.pc = "pausa" /\ e.i = i /\ e.tentativa = n + 1
  BY <1>2, <1>3, <1>5, <1>6 DEF Fios
<1>8. fios' = [fios EXCEPT ![f] = e]
  BY <1>1, <1>3, <1>5, <1>6
<1>9. fios' \in [Filas -> Fios] /\ fios'[f] = e /\ \A g \in Filas \ {f} : fios'[g] = fios[g]
  BY <1>7, <1>8 DEF IInv, TypeOK
<1>10. respostas[t] \in Seq(Respostas) /\ Len(respostas[t]) = n /\ resultados[t] = "nenhum"
  <2>1. respostas[t] \in Seq(Respostas)
    BY DEF IInv, TypeOK
  <2>2. Len(respostas[t]) = n
    BY <1>2, <1>4a, <1>5 DEF IInv, FioFiel
  <2>3. i \in DOMAIN FilaDe[f] /\ i >= fios[f].i
    BY <1>3, Fila DEF Indices
  <2>4. resultados[t] = "nenhum"
    BY <1>4, <2>3 DEF IInv, FioFiel
  <2>. QED
    BY <2>1, <2>2, <2>4
<1>11. respostas' = [respostas EXCEPT ![t] = Append(respostas[t], a)]
  BY <1>1, <1>4a DEF Ouvir
<1>12. respostas'[t] = Append(respostas[t], a) /\ \A x \in Tarefas \ {t} : respostas'[x] = respostas[x]
  BY <1>11 DEF IInv, TypeOK
<1>13. TypeOK'
  BY <1>1, <1>9, <1>10, <1>11 DEF IInv, TypeOK
<1>14. \A k \in 1..n : respostas[t][k] \in Retentaveis
  BY <1>10 DEF IInv, NinguemInsiste, Honesto
<1>15. /\ Len(respostas'[t]) = n + 1 /\ respostas'[t][n + 1] = a
       /\ \A k \in 1..n : respostas'[t][k] \in Retentaveis
  BY <1>10, <1>12, <1>14
<1>16. NinguemInsiste'
  <2>1. PICK rs : rs = respostas'[t]
    OBVIOUS
  <2>2. n + 1 <= MaxTentativas + 1 /\ \A k \in 1..(n + 1) : k < n + 1 => k \in 1..n
    BY <1>5
  <2>3. Honesto(rs, "nenhum")
    BY <1>1, <1>15, <2>1, <2>2 DEF Honesto
  <2>4. ASSUME NEW x \in Tarefas \ {t} PROVE Honesto(respostas'[x], resultados'[x])
    BY <1>1, <1>12, <2>4 DEF IInv, NinguemInsiste
  <2>. QED
    BY <1>1, <1>10, <2>1, <2>3, <2>4 DEF NinguemInsiste
<1>17. FioFiel(f)'
  <2>1. DOMAIN FilaDe[f] = Indices(f) /\ \A j \in Indices(f) : j > i => FilaDe[f][j] \in Tarefas \ {t}
    BY <1>4, Fila DEF Indices
  <2>2. \A j \in Indices(f) : j >= i => resultados'[FilaDe[f][j]] = "nenhum"
    BY <1>1, <1>3, <2>1 DEF IInv, FioFiel
  <2>3. \A j \in Indices(f) : j > i => respostas[FilaDe[f][j]] = <<>>
    BY <1>3, <2>1 DEF IInv, FioFiel
  <2>4. \A j \in Indices(f) : j > i => respostas'[FilaDe[f][j]] = <<>>
    BY <1>12, <2>1, <2>3
  <2>5. Len(respostas'[FilaDe[f][i]]) = n + 1
    BY <1>4, <1>15
  <2>6. i <= Len(FilaDe[f])
    BY Fila DEF Indices
  <2>. QED
    BY <1>7, <1>9, <2>1, <2>2, <2>4, <2>5, <2>6 DEF FioFiel, EmMaos, Tarefa
<1>18. ASSUME NEW g \in Filas \ {f} PROVE FioFiel(g)'
  BY <1>1, <1>4, <1>9, <1>12, <1>18, OutroFio DEF IInv, TypeOK
<1>. QED
  BY <1>13, <1>16, <1>17, <1>18 DEF IInv

LEMMA PassoPassar ==
  ASSUME IInv, Passar
  PROVE  IInv'
<1>1. idade' \in [Sitios -> 0..Intervalo]
  BY DEF IInv, TypeOK, Passar, Mais
<1>2. robots' \in [Sitios -> [idade : 0..Validade, proibidas : SUBSET Tarefas]]
  <2>1. ASSUME NEW s \in Sitios
        PROVE  [robots[s] EXCEPT !.idade = Mais(@, Validade)] \in [idade : 0..Validade, proibidas : SUBSET Tarefas]
    <3>1. PICK r \in [idade : 0..Validade, proibidas : SUBSET Tarefas] : r = robots[s]
      BY DEF IInv, TypeOK
    <3>2. Mais(r.idade, Validade) \in 0..Validade
      BY DEF Mais
    <3>. HIDE DEF Mais
    <3>3. [r EXCEPT !.idade = Mais(r.idade, Validade)] \in [idade : 0..Validade, proibidas : SUBSET Tarefas]
      BY <3>2
    <3>. QED
      BY <3>1, <3>3
  <2>. QED
    BY <2>1 DEF Passar
<1>3. ASSUME NEW f \in Filas
      PROVE  /\ fios'[f] \in Fios /\ fios'[f].pc = fios[f].pc /\ fios'[f].i = fios[f].i
             /\ fios'[f].tentativa = fios[f].tentativa
             /\ fios[f].pc = "robots" /\ fios[f].tempo <= Validade => fios'[f].tempo <= Validade
  <2>1. PICK r \in Fios : r = fios[f]
    BY DEF IInv, TypeOK
  <2>2. PICK k : k = IF r.pc = "robots" THEN Mais(r.tempo, Validade) ELSE IF r.tempo > 0 THEN r.tempo - 1 ELSE 0
    OBVIOUS
  <2>3. k \in Nat /\ (r.pc = "robots" /\ r.tempo <= Validade => k <= Validade)
    BY <2>2 DEF Mais, Fios
  <2>4. fios'[f] = [r EXCEPT !.tempo = k]
    BY <2>1, <2>2 DEF Passar
  <2>. QED
    BY <2>1, <2>3, <2>4 DEF Fios
<1>4. fios' \in [Filas -> Fios]
  <2>1. fios' = [f \in Filas |-> fios'[f]]
    BY DEF Passar
  <2>. QED
    BY <1>3, <2>1
<1>5. TypeOK'
  BY <1>1, <1>2, <1>4 DEF IInv, TypeOK, Passar
<1>6. NinguemInsiste'
  BY DEF IInv, NinguemInsiste, Passar
<1>7. ASSUME NEW f \in Filas PROVE FioFiel(f)'
  BY <1>3 DEF IInv, FioFiel, EmMaos, Tarefa, Passar
<1>. QED
  BY <1>5, <1>6, <1>7 DEF IInv

LEMMA IInvPasso == IInv /\ [Next]_vars => IInv'
<1>. SUFFICES ASSUME IInv, [Next]_vars PROVE IInv'
  OBVIOUS
<1>1. ASSUME NEW f \in Filas, Passo(f) PROVE IInv'
  BY <1>1, PassoPool, PassoConsultar, PassoReceber, PassoVez, PassoAcordar, PassoFinal, PassoRetentar DEF Passo
<1>2. CASE UNCHANGED vars
  <2>1. TypeOK'
    BY <1>2 DEF IInv, TypeOK, vars
  <2>2. NinguemInsiste'
    BY <1>2 DEF IInv, NinguemInsiste, vars
  <2>3. ASSUME NEW f \in Filas PROVE FioFiel(f)'
    BY <1>2 DEF IInv, FioFiel, EmMaos, Tarefa, vars
  <2>. QED
    BY <2>1, <2>2, <2>3 DEF IInv
<1>. QED
  BY <1>1, <1>2, PassoPassar DEF Next

------------------------------------------------------------------------------
(* The inductive invariant of the queues and the fetcher                   *)
(* (paralelo.py:84-104, fetcher.py:127-195).                               *)
THEOREM Invariante == Spec => []IInv
<1>1. Init => IInv
  BY IInvInicial
<1>2. IInv /\ [Next]_vars => IInv'
  BY IInvPasso
<1>. QED
  BY <1>1, <1>2, PTL DEF Spec

(* After a refusal there is no other request, and never more than the      *)
(* attempts, for any number of threads and tasks (fetcher.py:143-195).     *)
THEOREM RecusaNaoSeRepete == Spec => []NinguemInsiste
<1>1. IInv => NinguemInsiste
  BY DEF IInv
<1>. QED
  BY <1>1, Invariante, PTL

(* Slots of one site keep the interval whichever threads sleep for them    *)
(* (fetcher.py:127-141).                                                   *)
THEOREM EspacoGarantido == Spec => EspacoPorHost
<1>. DEFINE A == \A f \in Filas : Concede(f) => idade[Sitio[Tarefa(f)]] = Intervalo
<1>1. IInv /\ [Next]_vars => A
  <2>. SUFFICES ASSUME IInv, [Next]_vars, NEW f \in Filas, Concede(f)
                PROVE  idade[Sitio[Tarefa(f)]] = Intervalo
    OBVIOUS
  <2>1. Vez(f)
    <3>1. ~UNCHANGED vars
      BY DEF Concede, vars
    <3>2. ~Passar
      <4>1. ASSUME Passar PROVE fios'[f].pc = fios[f].pc
        <5>1. PICK r \in Fios : r = fios[f]
          BY DEF IInv, TypeOK
        <5>2. PICK k : fios'[f] = [r EXCEPT !.tempo = k]
          BY <4>1, <5>1 DEF Passar
        <5>. QED
          BY <5>1, <5>2 DEF Fios
      <4>. QED
        BY <4>1 DEF Concede
    <3>3. ASSUME NEW g \in Filas, Passo(g), g # f PROVE FALSE
      <4>1. fios'[f] = fios[f]
        BY <3>3 DEF Passo, Comecar, Acabar, Consultar, Receber, Vez, Acordar, Responder, Retentar, Desistir,
           Decidir, Concluir, Ir, IInv, TypeOK
      <4>. QED
        BY <4>1 DEF Concede
    <3>4. Passo(f)
      BY <3>1, <3>2, <3>3 DEF Next
    <3>5. ASSUME NEW pc \in {"proxima", "robots", "vez", "fim"}, Ir(f, pc, 0) PROVE FALSE
      BY <3>5, Move DEF IInv, Concede, Movido
    <3>6. ASSUME NEW r, Concluir(f, r) PROVE FALSE
      BY <3>6 DEF Concluir, IInv, TypeOK, Concede
    <3>7. ~Retentar(f)
      BY DEF Retentar, IInv, TypeOK, Concede
    <3>8. ~Comecar(f) /\ ~Acabar(f) /\ ~Acordar(f)
      BY <3>5 DEF Comecar, Acabar, Acordar
    <3>9. ~Consultar(f) /\ ~Receber(f)
      BY <3>5, <3>6 DEF Consultar, Receber, Decidir
    <3>10. ~Responder(f) /\ ~Desistir(f)
      BY <3>6 DEF Responder, Desistir
    <3>. QED
      BY <3>4, <3>7, <3>8, <3>9, <3>10 DEF Passo
  <2>2. PICK s \in Sitios : s = Sitio[Tarefa(f)]
    <3>1. fios[f].i \in Indices(f)
      BY <2>1, Fila DEF Vez, IInv, FioFiel, EmMaos, TypeOK, Fios, Indices
    <3>. QED
      BY <3>1, Fila DEF Tarefa
  <2>3. idade[s] < Intervalo => Ir(f, "dormir", Intervalo - idade[s])
    BY <2>1, <2>2 DEF Vez, IInv, TypeOK
  <2>4. idade[s] \in 0..Intervalo
    BY DEF IInv, TypeOK
  <2>5. ~(idade[s] < Intervalo)
    <3>1. ASSUME Ir(f, "dormir", Intervalo - idade[s]), idade[s] < Intervalo PROVE FALSE
      BY <2>4, <3>1, Move DEF IInv, Concede, Movido
    <3>. QED
      BY <2>3, <3>1
  <2>. QED
    BY <2>2, <2>4, <2>5
<1>2. IInv /\ [Next]_vars => [A]_vars
  BY <1>1
<1>. HIDE DEF A
<1>3. Spec => [][A]_vars
  BY <1>2, Invariante, PTL DEF Spec
<1>. QED
  BY <1>3 DEF EspacoPorHost, A
=============================================================================
