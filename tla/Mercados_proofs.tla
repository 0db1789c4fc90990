--------------------------- MODULE Mercados_proofs ---------------------------
(***************************************************************************)
(* Proofs about Mercados, for any number of processes, areas and months,   *)
(* and any interleaving of the four commands.  What the lock protects is   *)
(* proved from it; what no lock protects is proved from the copies: each   *)
(* registry in memory is as justified as the one on disk.                  *)
(***************************************************************************)
EXTENDS Mercados, TLAPS

Vazios == [c \in Claims |-> Vazio]

LEMMA NovoTipado ==
  ASSUME NEW e \in Estados, NEW prob \in Probs PROVE Novo(e, prob) \in Mercado
BY MercadosAssumptions DEF Novo, Mercado

LEMMA VaziosTipados == Vazios \in Registros
BY NovoTipado, MercadosAssumptions DEF Vazios, Vazio, Registros, Estados

(* A market that waits for the source, and one that settles.               *)
LEMMA EsperaTipada ==
  ASSUME NEW m \in Mercado PROVE [m EXCEPT !.estado = "EM_RESOLUCAO"] \in Mercado
BY DEF Mercado, Estados

LEMMA LiquidadoTipado ==
  ASSUME NEW m \in Mercado, NEW v \in Valores \cup {Nenhum}, NEW d \in 0 .. UltimoMes
  PROVE  [m EXCEPT !.estado = "LIQUIDADO", !.valor = v, !.em = d] \in Mercado
BY DEF Mercado, Estados

LEMMA MesTipado == \A c \in Claims : Mes(c) \in Meses /\ c[1] \in Areas /\ Mes(c) \in Nat
BY MercadosAssumptions DEF Claims, Mes, Meses

(* What the moves of the cursor do to the process and to the others.       *)
LEMMA EntraMove ==
  ASSUME TypeOK, NEW p \in Processos, NEW e \in Etapas, NEW S \in SUBSET Claims, Entra(p, e, S)
  PROVE  /\ etapa' \in [Processos -> Etapas] /\ passo' \in [Processos -> Passos]
         /\ restam' \in [Processos -> SUBSET Claims]
         /\ alvo' \in [Processos -> Claims \cup {Nenhum}]
         /\ etapa'[p] = e /\ passo'[p] = "item" /\ restam'[p] = S
         /\ \A q \in Processos \ {p} :
              etapa'[q] = etapa[q] /\ passo'[q] = passo[q]
              /\ restam'[q] = restam[q] /\ alvo'[q] = alvo[q]
BY DEF Entra, TypeOK, Passos

LEMMA ConcluiMove ==
  ASSUME TypeOK, NEW p \in Processos, NEW c, Conclui(p, c)
  PROVE  /\ etapa' \in [Processos -> Etapas] /\ passo' \in [Processos -> Passos]
         /\ restam' \in [Processos -> SUBSET Claims]
         /\ alvo' \in [Processos -> Claims \cup {Nenhum}]
         /\ etapa'[p] = etapa[p] /\ passo'[p] = "item" /\ restam'[p] = restam[p] \ {c}
         /\ \A q \in Processos \ {p} :
              etapa'[q] = etapa[q] /\ passo'[q] = passo[q]
              /\ restam'[q] = restam[q] /\ alvo'[q] = alvo[q]
BY DEF Conclui, TypeOK, Passos

LEMMA TomaMove ==
  ASSUME TypeOK, NEW p \in Processos, NEW c \in Claims, NEW s \in Passos, Toma(p, c, s)
  PROVE  /\ etapa' \in [Processos -> Etapas] /\ passo' \in [Processos -> Passos]
         /\ restam' \in [Processos -> SUBSET Claims]
         /\ alvo' \in [Processos -> Claims \cup {Nenhum}]
         /\ etapa'[p] = etapa[p] /\ passo'[p] = s /\ restam'[p] = restam[p] /\ alvo'[p] = c
         /\ \A q \in Processos \ {p} :
              etapa'[q] = etapa[q] /\ passo'[q] = passo[q]
              /\ restam'[q] = restam[q] /\ alvo'[q] = alvo[q]
BY DEF Toma, TypeOK

LEMMA EsqueceMove ==
  ASSUME TypeOK, NEW p \in Processos, Esquece(p)
  PROVE  /\ memoria' \in [Processos -> Registros] /\ lido' \in [Processos -> Registros]
         /\ novo' \in [Processos -> Probs] /\ data' \in [Processos -> Meses]
         /\ memoria'[p] = Vazios /\ lido'[p] = Vazios /\ data'[p] = 1
         /\ \A q \in Processos \ {p} :
              memoria'[q] = memoria[q] /\ lido'[q] = lido[q] /\ data'[q] = data[q]
BY VaziosTipados, MercadosAssumptions DEF Esquece, TypeOK, Meses, Vazios

-----------------------------------------------------------------------------
(* TYPES                                                                   *)

LEMMA LinhaTipada ==
  ASSUME NEW c \in Claims, NEW m \in Mercado PROVE Linha(c, m) \in Linhas
BY DEF Linha, Linhas, Mercado

LEMMA EmitidoTipado ==
  ASSUME NEW r \in Registros, NEW c \in Claims, NEW prob \in Probs
  PROVE  Emitido(r, c, prob) \in Registros
BY NovoTipado DEF Emitido, Registros, Estados

(* An overdue claim has a next month within the calendar: the current one. *)
LEMMA SeguinteTipado ==
  ASSUME TypeOK, NEW p \in Processos, NEW c \in Claims, Vencido(p, c)
  PROVE  Seguinte(p, c) \in Claims
<1>1. data[p] \in Meses /\ Mes(c) \in Meses /\ c[1] \in Areas
  BY MesTipado DEF TypeOK
<1>2. data[p] > Mes(c)
  BY DEF Vencido
<1>3. (IF Mes(c) + 1 >= data[p] THEN Mes(c) + 1 ELSE data[p]) \in Meses
  BY <1>1, <1>2, MercadosAssumptions DEF Meses
<1>. QED
  BY <1>1, <1>3 DEF Seguinte, Claims

LEMMA TypeOKIniciar ==
  ASSUME TypeOK, NEW p \in Processos, Iniciar(p) PROVE TypeOK'
<1>1. CASE IniciarResolucao(p)
  BY <1>1, EntraMove DEF IniciarResolucao, TypeOK, Etapas, Com, mundo, disco, cadeia
<1>2. CASE IniciarRodada(p)
  BY <1>2, EntraMove DEF IniciarRodada, TypeOK, Etapas, Vivos, Com, mundo, disco, cadeia
<1>3. CASE IniciarReprecificacao(p)
  BY <1>3, EntraMove DEF IniciarReprecificacao, TypeOK, Etapas, mundo, disco, cadeia
<1>4. CASE IniciarEmissao(p)
  BY <1>4, EntraMove DEF IniciarEmissao, TypeOK, Etapas, Com, mundo, disco, cadeia
<1>. QED
  BY <1>1, <1>2, <1>3, <1>4 DEF Iniciar

LEMMA TypeOKResolver ==
  ASSUME TypeOK, NEW p \in Processos, EmCurso(p), Resolver(p) PROVE TypeOK'
<1>. USE DEF mundo, disco, cadeia, copias
<1>0. passo[p] # "item" => alvo[p] \in Claims
  BY DEF EmCurso
<1>1. CASE Reparar(p)
  BY <1>1, TomaMove DEF Reparar, TypeOK, Passos
<1>2. CASE LinhaExiste(p)
  BY <1>0, <1>2, TomaMove, ConcluiMove DEF LinhaExiste, DepoisDaLinha, TypeOK, Passos
<1>3. CASE LinhaFalta(p)
  BY <1>0, <1>3, TomaMove DEF LinhaFalta, TypeOK, Passos
<1>4. CASE AnexarLinha(p)
  <2>1. Linha(alvo[p], memoria[p][alvo[p]]) \in Linhas
    BY <1>0, <1>4, LinhaTipada DEF AnexarLinha, TypeOK, Registros
  <2>2. resolucoes' \in Seq(Linhas)
    BY <1>4, <2>1 DEF AnexarLinha, TypeOK
  <2>. QED
    BY <1>0, <1>4, <2>2, TomaMove, ConcluiMove DEF AnexarLinha, DepoisDaLinha, TypeOK, Passos
<1>5. CASE FimDoReparo(p)
  BY <1>5, EntraMove DEF FimDoReparo, TypeOK, Etapas, Vivos, Com
<1>6. CASE Visitar(p)
  <2>1. PICK c \in Claims : Aguardar(p, c) \/ ErroDeFonte(p, c) \/ SemPublicacao(p, c) \/ Liquidar(p, c)
    BY <1>6 DEF Visitar
  <2>2. CASE Aguardar(p, c) \/ ErroDeFonte(p, c)
    BY <2>2, ConcluiMove DEF Aguardar, ErroDeFonte, TypeOK
  <2>3. CASE SemPublicacao(p, c)
    <3>0. [memoria[p][c] EXCEPT !.estado = "EM_RESOLUCAO"] \in Mercado
      BY EsperaTipada DEF TypeOK, Registros
    <3>1. registro' \in Registros
      BY <2>3, <3>0 DEF SemPublicacao, Salva, TypeOK, Registros
    <3>. QED
      BY <2>3, <3>1, ConcluiMove DEF SemPublicacao, Salva, TypeOK
  <2>4. CASE Liquidar(p, c)
    <3>1. fonte[c] \in Valores \cup {Nenhum} /\ data[p] \in 0 .. UltimoMes
      BY MercadosAssumptions DEF TypeOK, Meses
    <3>. DEFINE m == [memoria[p][c] EXCEPT !.estado = "LIQUIDADO", !.valor = fonte[c], !.em = data[p]]
    <3>2. memoria[p][c] \in Mercado
      BY DEF TypeOK, Registros
    <3>3. m \in Mercado
      BY <3>1, <3>2, LiquidadoTipado
    <3>4. registro' = [memoria[p] EXCEPT ![c] = m]
      BY <2>4 DEF Liquidar, Salva, TypeOK, Registros, Mercado
    <3>5. registro' \in Registros
      BY <3>3, <3>4 DEF TypeOK, Registros
    <3>. QED
      BY <2>4, <3>5, TomaMove DEF Liquidar, Salva, TypeOK, Passos
  <2>. QED
    BY <2>1, <2>2, <2>3, <2>4
<1>7. CASE EmitirSeguinte(p)
  <2>1. Seguinte(p, alvo[p]) \in Claims
    BY <1>0, <1>7, SeguinteTipado DEF EmitirSeguinte, EmCurso
  <2>2. registro' \in Registros
    BY <1>7, <2>1, EmitidoTipado DEF EmitirSeguinte, Salva, TypeOK
  <2>3. memoria' = [memoria EXCEPT ![p] = registro']
    BY <1>7 DEF EmitirSeguinte, Salva
  <2>. QED
    BY <1>7, <2>1, <2>2, <2>3 DEF EmitirSeguinte, TypeOK, Passos
<1>8. CASE JaEmitido(p) \/ NaoEmitido(p)
  BY <1>8, ConcluiMove DEF JaEmitido, NaoEmitido, SemEmissao, TypeOK
<1>9. CASE FimDaVisita(p)
  BY <1>9, EntraMove DEF FimDaVisita, TypeOK, Etapas, Com
<1>10. CASE \E c \in Claims : SelarLiquidacao(p, c)
  <2>1. PICK c \in Claims : SelarLiquidacao(p, c)
    BY <1>10
  <2>2. Linha(c, memoria[p][c]) \in Linhas
    BY LinhaTipada DEF TypeOK, Registros
  <2>. QED
    BY <2>1, <2>2, ConcluiMove DEF SelarLiquidacao, TypeOK
<1>11. CASE NaoSela(p)
  BY <1>11, ConcluiMove DEF NaoSela, TypeOK
<1>12. CASE FimDaResolucao(p)
  BY <1>12, EntraMove, EsqueceMove DEF FimDaResolucao, Termina, TypeOK, Etapas
<1>. QED
  BY <1>1, <1>2, <1>3, <1>4, <1>5, <1>6, <1>7, <1>8, <1>9, <1>10, <1>11, <1>12
     DEF Resolver, Anexacao

LEMMA TypeOKReprecificar ==
  ASSUME TypeOK, NEW p \in Processos, EmCurso(p), Reprecificar(p) PROVE TypeOK'
<1>. USE DEF mundo, disco, cadeia, copias
<1>0. passo[p] # "item" => alvo[p] \in Claims
  BY DEF EmCurso
<1>1. CASE NaoMove(p) \/ Recusar(p)
  BY <1>1, ConcluiMove DEF NaoMove, Recusar, TypeOK
<1>2. CASE Mover(p)
  BY <1>2, TomaMove DEF Mover, Vivos, Com, TypeOK, Passos
<1>3. CASE SelarMudanca(p)
  <2>1. alvo[p] \in Claims /\ lido[p][alvo[p]] \in Mercado
    BY <1>0, <1>3 DEF SelarMudanca, TypeOK, Registros
  <2>2. mudancas' \in Seq(Mudancas)
    BY <1>3, <2>1 DEF SelarMudanca, TypeOK, Mudancas, Mercado
  <2>3. Len(mudancas) + 1 \in Nat \ {0}
    BY DEF TypeOK
  <2>4. lido' \in [Processos -> Registros]
    BY <1>3, <2>1, <2>3 DEF SelarMudanca, TypeOK, Registros, Mercado
  <2>. QED
    BY <1>3, <2>1, <2>2, <2>4, TomaMove DEF SelarMudanca, TypeOK, Passos
<1>4. CASE GravarMudanca(p)
  BY <1>4, ConcluiMove DEF GravarMudanca, TypeOK
<1>5. CASE FimDaRodada(p) \/ FimDaReprecificacao(p) \/ SelagemLevanta(p)
  BY <1>5, EntraMove, EsqueceMove
     DEF FimDaRodada, FimDaReprecificacao, SelagemLevanta, Termina, TypeOK, Etapas
<1>. QED
  BY <1>1, <1>2, <1>3, <1>4, <1>5 DEF Reprecificar

LEMMA TypeOKPreservado ==
  ASSUME TypeOK, Ordem, Next PROVE TypeOK'
<1>1. ASSUME NEW p \in Processos, Emitir(p) PROVE TypeOK'
  BY <1>1, EmitidoTipado, EntraMove, EsqueceMove
     DEF Emitir, Termina, TypeOK, Etapas, mundo, disco, cadeia
<1>2. ASSUME NEW p \in Processos, Queda(p) PROVE TypeOK'
  BY <1>2, MercadosAssumptions, EntraMove, EsqueceMove
     DEF Queda, Termina, TypeOK, Etapas, mundo, disco, cadeia
<1>3. CASE Avancar
  BY <1>3, MercadosAssumptions DEF Avancar, TypeOK, Meses, disco, cadeia, cursor, copias
<1>4. ASSUME NEW c \in Claims, Publicar(c) PROVE TypeOK'
  BY <1>4 DEF Publicar, TypeOK, disco, cadeia, cursor, copias
<1>. QED
  BY <1>1, <1>2, <1>3, <1>4, TypeOKIniciar, TypeOKResolver, TypeOKReprecificar DEF Next, Ordem

-----------------------------------------------------------------------------
(* FRAMES                                                                  *)

PassoDe(p) == Iniciar(p) \/ Resolver(p) \/ Reprecificar(p) \/ Emitir(p) \/ Queda(p)

(* A step of p changes nothing of q.                                       *)
Alheio(p) ==
  \A q \in Processos \ {p} :
    /\ etapa'[q] = etapa[q] /\ passo'[q] = passo[q]
    /\ restam'[q] = restam[q] /\ alvo'[q] = alvo[q]
    /\ memoria'[q] = memoria[q] /\ lido'[q] = lido[q] /\ data'[q] = data[q]

LEMMA Quadro ==
  ASSUME TypeOK, NEW p \in Processos, PassoDe(p) PROVE Alheio(p)
<1>. USE DEF Alheio, copias, Entra, Toma, Conclui, Esquece, Termina, TypeOK
<1>1. CASE Iniciar(p)
  BY <1>1 DEF Iniciar, IniciarResolucao, IniciarRodada, IniciarReprecificacao, IniciarEmissao
<1>2. CASE Reparar(p) \/ Anexacao(p) \/ FimDoReparo(p) \/ JaEmitido(p)
           \/ NaoEmitido(p) \/ FimDaVisita(p) \/ NaoSela(p) \/ FimDaResolucao(p)
  BY <1>2 DEF Reparar, Anexacao, LinhaExiste, LinhaFalta, AnexarLinha, DepoisDaLinha,
              FimDoReparo, JaEmitido, NaoEmitido, SemEmissao, FimDaVisita, NaoSela, FimDaResolucao
<1>3. CASE Visitar(p) \/ EmitirSeguinte(p) \/ \E c \in Claims : SelarLiquidacao(p, c)
  BY <1>3 DEF Visitar, Aguardar, ErroDeFonte, SemPublicacao, Liquidar, Salva, EmitirSeguinte,
              SelarLiquidacao
<1>4. CASE Reprecificar(p)
  BY <1>4 DEF Reprecificar, NaoMove, Recusar, Mover, SelarMudanca, GravarMudanca, FimDaRodada,
              FimDaReprecificacao, SelagemLevanta
<1>5. CASE Emitir(p) \/ Queda(p)
  BY <1>5 DEF Emitir, Queda
<1>. QED
  BY <1>1, <1>2, <1>3, <1>4, <1>5 DEF PassoDe, Resolver

-----------------------------------------------------------------------------
(* THE LOCK AND THE CURSOR                                                 *)

LEMMA OrdemIniciar ==
  ASSUME TypeOK, NEW p \in Processos, EmCurso(p), Iniciar(p)
  PROVE  EmCurso(p)' /\ hoje' = hoje /\ (trava' = trava \/ (trava = Nenhum /\ trava' = p))
<1>. USE DEF EmCurso, mundo, disco, cadeia
<1>1. CASE IniciarResolucao(p)
  <2>1. etapa'[p] = "reparo" /\ passo'[p] = "item"
    BY <1>1, EntraMove DEF IniciarResolucao, Etapas, Com
  <2>. QED
    BY <1>1, <2>1 DEF IniciarResolucao, Travado, TypeOK, Meses
<1>2. CASE IniciarRodada(p)
  <2>1. etapa'[p] = "laco" /\ passo'[p] = "item"
    BY <1>2, EntraMove DEF IniciarRodada, Etapas, Vivos, Com
  <2>. QED
    BY <1>2, <2>1 DEF IniciarRodada, Travado, TypeOK, Meses
<1>3. CASE IniciarReprecificacao(p)
  <2>1. etapa'[p] = "ajuste" /\ passo'[p] = "item"
    BY <1>3, EntraMove DEF IniciarReprecificacao, Etapas
  <2>. QED
    BY <1>3, <2>1 DEF IniciarReprecificacao, Travado, TypeOK, Meses
<1>4. CASE IniciarEmissao(p)
  <2>1. etapa'[p] = "emissao" /\ passo'[p] = "item"
    BY <1>4, EntraMove DEF IniciarEmissao, Etapas, Com
  <2>. QED
    BY <1>4, <2>1 DEF IniciarEmissao, Travado
<1>. QED
  BY <1>1, <1>2, <1>3, <1>4 DEF Iniciar

LEMMA OrdemResolver ==
  ASSUME TypeOK, NEW p \in Processos, EmCurso(p), Resolver(p)
  PROVE  /\ EmCurso(p)' /\ hoje' = hoje
         /\ etapa[p] \in Travado
         /\ trava' = trava \/ (trava = p /\ trava' = Nenhum)
<1>. USE DEF mundo, disco, cadeia, copias, Travado
<1>1. CASE Reparar(p)
  <2>1. PICK c \in Claims : NoItem(p, "reparo", c) /\ Toma(p, c, "conferir")
    BY <1>1 DEF Reparar
  <2>2. etapa[p] = "reparo" /\ etapa'[p] = "reparo" /\ passo'[p] = "conferir" /\ alvo'[p] = c
    BY <2>1, TomaMove DEF NoItem, Passos
  <2>. QED
    BY <1>1, <2>2 DEF Reparar, EmCurso
<1>2. CASE LinhaExiste(p) \/ LinhaFalta(p) \/ AnexarLinha(p)
  <2>1. alvo[p] \in Claims /\ etapa[p] \in {"reparo", "visita"}
    BY <1>2 DEF LinhaExiste, LinhaFalta, AnexarLinha, EmCurso
  <2>2. etapa'[p] = etapa[p] /\ (passo'[p] = "item" \/ alvo'[p] = alvo[p])
    BY <1>2, <2>1, TomaMove, ConcluiMove
       DEF LinhaExiste, LinhaFalta, AnexarLinha, DepoisDaLinha, Passos
  <2>3. /\ passo'[p] \in {"item", "anexar", "emitir"}
        /\ passo'[p] = "emitir" => etapa[p] = "visita"
    BY <1>2, <2>1, TomaMove, ConcluiMove
       DEF LinhaExiste, LinhaFalta, AnexarLinha, DepoisDaLinha, Passos
  <2>4. hoje' = hoje /\ trava' = trava /\ data' = data /\ passo[p] # "item"
    BY <1>2 DEF LinhaExiste, LinhaFalta, AnexarLinha
  <2>. QED
    BY <2>1, <2>2, <2>3, <2>4 DEF EmCurso, Vencido
<1>3. CASE FimDoReparo(p) \/ FimDaVisita(p)
  <2>1. etapa[p] \in Travado /\ etapa'[p] \in Travado /\ passo'[p] = "item"
    BY <1>3, EntraMove DEF FimDoReparo, FimDaVisita, FimDaLista, Etapas, Vivos, Com
  <2>. QED
    BY <1>3, <2>1 DEF FimDoReparo, FimDaVisita, EmCurso, FimDaLista
<1>4. CASE Visitar(p)
  <2>1. PICK c \in Claims : Aguardar(p, c) \/ ErroDeFonte(p, c) \/ SemPublicacao(p, c) \/ Liquidar(p, c)
    BY <1>4 DEF Visitar
  <2>2. etapa[p] = "visita" /\ trava' = trava /\ hoje' = hoje /\ data' = data
    BY <2>1 DEF Aguardar, ErroDeFonte, SemPublicacao, Liquidar, NoItem
  <2>3. CASE Aguardar(p, c) \/ ErroDeFonte(p, c) \/ SemPublicacao(p, c)
    <3>1. etapa'[p] = etapa[p] /\ passo'[p] = "item"
      BY <2>3, ConcluiMove DEF Aguardar, ErroDeFonte, SemPublicacao
    <3>. QED
      BY <2>2, <3>1 DEF EmCurso
  <2>4. CASE Liquidar(p, c)
    <3>1. etapa'[p] = etapa[p] /\ passo'[p] = "conferir" /\ alvo'[p] = c
      BY <2>4, TomaMove DEF Liquidar, Passos
    <3>. QED
      BY <2>2, <2>4, <3>1 DEF Liquidar, EmCurso, Vencido
  <2>. QED
    BY <2>1, <2>3, <2>4
<1>5. CASE EmitirSeguinte(p) \/ JaEmitido(p) \/ NaoEmitido(p)
  <2>1. etapa[p] = "visita" /\ etapa'[p] = "visita" /\ passo'[p] = "item"
    BY <1>5, ConcluiMove DEF EmitirSeguinte, JaEmitido, NaoEmitido, SemEmissao, EmCurso, TypeOK
  <2>. QED
    BY <1>5, <2>1 DEF EmitirSeguinte, JaEmitido, NaoEmitido, SemEmissao, EmCurso
<1>6. CASE (\E c \in Claims : SelarLiquidacao(p, c)) \/ NaoSela(p)
  <2>1. etapa[p] = "selagem" /\ etapa'[p] = "selagem" /\ passo'[p] = "item"
    BY <1>6, ConcluiMove DEF SelarLiquidacao, NaoSela, NoItem
  <2>. QED
    BY <1>6, <2>1 DEF SelarLiquidacao, NaoSela, EmCurso
<1>7. CASE FimDaResolucao(p)
  <2>1. etapa[p] = "selagem" /\ etapa'[p] = "ocioso" /\ passo'[p] = "item" /\ data'[p] = 1
    BY <1>7, EntraMove, EsqueceMove DEF FimDaResolucao, FimDaLista, Termina, Etapas
  <2>2. trava = p /\ trava' = Nenhum /\ hoje' = hoje /\ hoje \in Nat /\ hoje >= 1
    BY <1>7, <2>1 DEF FimDaResolucao, EmCurso, TypeOK, Meses
  <2>. QED
    BY <2>1, <2>2, MercadosAssumptions DEF EmCurso
<1>. QED
  BY <1>1, <1>2, <1>3, <1>4, <1>5, <1>6, <1>7 DEF Resolver, Anexacao

LEMMA OrdemReprecificar ==
  ASSUME TypeOK, NEW p \in Processos, EmCurso(p), Reprecificar(p)
  PROVE  EmCurso(p)' /\ hoje' = hoje /\ trava' = trava /\ etapa[p] \notin Travado
<1>. USE DEF mundo, disco, cadeia, copias, Travado, Precos
<1>1. CASE NaoMove(p) \/ Recusar(p)
  <2>1. etapa[p] \in Precos /\ etapa'[p] = etapa[p] /\ passo'[p] = "item"
    BY <1>1, ConcluiMove DEF NaoMove, Recusar, NoItem
  <2>. QED
    BY <1>1, <2>1 DEF NaoMove, Recusar, EmCurso
<1>2. CASE Mover(p)
  <2>1. etapa[p] \in Precos /\ etapa'[p] = etapa[p] /\ passo'[p] = "selar" /\ alvo'[p] \in Claims
    BY <1>2, TomaMove DEF Mover, NoItem, Vivos, Com, Passos
  <2>. QED
    BY <1>2, <2>1 DEF Mover, EmCurso
<1>3. CASE SelarMudanca(p) \/ GravarMudanca(p)
  <2>1. etapa[p] \in Precos /\ alvo[p] \in Claims
    BY <1>3 DEF SelarMudanca, GravarMudanca, EmCurso
  <2>2. /\ etapa'[p] = etapa[p]
        /\ passo'[p] = "item" \/ (passo'[p] = "gravar" /\ alvo'[p] = alvo[p])
    BY <1>3, <2>1, TomaMove, ConcluiMove DEF SelarMudanca, GravarMudanca, Passos
  <2>. QED
    BY <1>3, <2>1, <2>2 DEF SelarMudanca, GravarMudanca, EmCurso
<1>4. CASE FimDaRodada(p) \/ FimDaReprecificacao(p) \/ SelagemLevanta(p)
  <2>1. /\ etapa[p] \in Precos /\ etapa'[p] = "ocioso" /\ passo'[p] = "item" /\ data'[p] = 1
        /\ trava' = trava /\ hoje' = hoje
    BY <1>4, EntraMove, EsqueceMove
       DEF FimDaRodada, FimDaReprecificacao, SelagemLevanta, FimDaLista, Termina, Etapas
  <2>2. hoje \in Nat /\ hoje >= 1
    BY DEF TypeOK, Meses
  <2>. QED
    BY <2>1, <2>2 DEF EmCurso
<1>. QED
  BY <1>1, <1>2, <1>3, <1>4 DEF Reprecificar

LEMMA OrdemTermina ==
  ASSUME TypeOK, NEW p \in Processos, EmCurso(p), Emitir(p) \/ Queda(p)
  PROVE  /\ EmCurso(p)' /\ hoje' = hoje
         /\ trava' = trava \/ (trava = p /\ trava' = Nenhum)
<1>1. etapa'[p] = "ocioso" /\ passo'[p] = "item" /\ data'[p] = 1 /\ hoje' = hoje
  BY EntraMove, EsqueceMove DEF Emitir, Queda, Termina, Etapas, mundo
<1>2. trava' # p
  BY MercadosAssumptions DEF Emitir, Queda, NoItem, EmCurso, Travado
<1>3. hoje \in Nat /\ hoje >= 1
  BY DEF TypeOK, Meses
<1>. QED
  BY <1>1, <1>2, <1>3 DEF EmCurso, Travado, Emitir, Queda

(* A process other than the one that moves keeps its place.                *)
LEMMA OrdemAlheia ==
  ASSUME TypeOK, Ordem, NEW p \in Processos, NEW q \in Processos \ {p}, Alheio(p),
         hoje' = hoje,
         trava' = trava \/ (trava = Nenhum /\ trava' = p) \/ (trava = p /\ trava' = Nenhum)
  PROVE  EmCurso(q)'
<1>1. trava' = q <=> trava = q
  BY MercadosAssumptions
<1>. QED
  BY <1>1 DEF Alheio, Ordem, EmCurso, Vencido

LEMMA OrdemPreservada ==
  ASSUME TypeOK, Ordem, Next PROVE Ordem'
<1>1. ASSUME NEW p \in Processos, PassoDe(p) PROVE Ordem'
  <2>1. /\ EmCurso(p)' /\ hoje' = hoje
        /\ trava' = trava \/ (trava = Nenhum /\ trava' = p) \/ (trava = p /\ trava' = Nenhum)
    BY <1>1, OrdemIniciar, OrdemResolver, OrdemReprecificar, OrdemTermina DEF PassoDe, Ordem
  <2>. QED
    BY <1>1, <2>1, Quadro, OrdemAlheia DEF Ordem
<1>2. CASE Avancar
  BY <1>2 DEF Avancar, Ordem, EmCurso, Vencido, cursor, copias, TypeOK, Meses
<1>3. ASSUME NEW c \in Claims, Publicar(c) PROVE Ordem'
  BY <1>3 DEF Publicar, Ordem, EmCurso, Vencido, cursor, copias
<1>. QED
  BY <1>1, <1>2, <1>3 DEF Next, PassoDe

-----------------------------------------------------------------------------
(* THE LEDGER                                                              *)

LEMMA ResolucoesMudam ==
  ASSUME NEW p \in Processos, PassoDe(p)
  PROVE  resolucoes' = resolucoes \/ AnexarLinha(p)
<1>. USE DEF disco
<1>1. CASE Iniciar(p)
  BY <1>1 DEF Iniciar, IniciarResolucao, IniciarRodada, IniciarReprecificacao, IniciarEmissao
<1>2. CASE Resolver(p)
  BY <1>2 DEF Resolver, Anexacao, Reparar, LinhaExiste, LinhaFalta, FimDoReparo, Visitar,
              Aguardar, ErroDeFonte, SemPublicacao, Liquidar, EmitirSeguinte, JaEmitido,
              NaoEmitido, SemEmissao, FimDaVisita, SelarLiquidacao, NaoSela, FimDaResolucao
<1>3. CASE Reprecificar(p)
  BY <1>3 DEF Reprecificar, NaoMove, Recusar, Mover, SelarMudanca, GravarMudanca, FimDaRodada,
              FimDaReprecificacao, SelagemLevanta
<1>4. CASE Emitir(p) \/ Queda(p)
  BY <1>4 DEF Emitir, Queda
<1>. QED
  BY <1>1, <1>2, <1>3, <1>4 DEF PassoDe

(* Appending adds a line at the end and its claim to those registered.     *)
LEMMA LinhaAnexada ==
  ASSUME TypeOK, NEW p \in Processos, EmCurso(p), AnexarLinha(p)
  PROVE  LET l == Linha(alvo[p], memoria[p][alvo[p]]) IN
         /\ alvo[p] \in Claims /\ l \in Linhas
         /\ resolucoes' = Append(resolucoes, l)
         /\ DOMAIN resolucoes' = DOMAIN resolucoes \cup {Len(resolucoes) + 1}
         /\ Len(resolucoes) + 1 \notin DOMAIN resolucoes
         /\ resolucoes'[Len(resolucoes) + 1] = l /\ l.claim = alvo[p]
         /\ \A i \in DOMAIN resolucoes : resolucoes'[i] = resolucoes[i]
         /\ Registrados' = Registrados \cup {alvo[p]}
<1>. DEFINE l == Linha(alvo[p], memoria[p][alvo[p]])
<1>1. alvo[p] \in Claims /\ l.claim = alvo[p]
  BY DEF AnexarLinha, EmCurso, Linha
<1>2. l \in Linhas
  BY <1>1, LinhaTipada DEF TypeOK, Registros
<1>3. resolucoes' = Append(resolucoes, l) /\ resolucoes \in Seq(Linhas)
  BY DEF AnexarLinha, TypeOK
<1>. HIDE DEF l
<1>4. /\ DOMAIN resolucoes' = DOMAIN resolucoes \cup {Len(resolucoes) + 1}
      /\ Len(resolucoes) + 1 \notin DOMAIN resolucoes
      /\ resolucoes'[Len(resolucoes) + 1] = l
      /\ \A i \in DOMAIN resolucoes : resolucoes'[i] = resolucoes[i]
  BY <1>2, <1>3
<1>5. Registrados' = Registrados \cup {alvo[p]}
  BY <1>1, <1>4 DEF Registrados
<1>. QED
  BY <1>1, <1>2, <1>3, <1>4, <1>5 DEF l

(* Only the check that found no line leads to the append.                  *)
LEMMA VaiAnexar ==
  ASSUME TypeOK, NEW p \in Processos, EmCurso(p), PassoDe(p), passo'[p] = "anexar"
  PROVE  LinhaFalta(p)
<1>. USE DEF Entra, Conclui, Toma, Termina, TypeOK
<1>1. CASE Iniciar(p)
  BY <1>1 DEF Iniciar, IniciarResolucao, IniciarRodada, IniciarReprecificacao, IniciarEmissao
<1>2. CASE Reparar(p) \/ LinhaExiste(p) \/ AnexarLinha(p) \/ FimDoReparo(p) \/ JaEmitido(p)
           \/ NaoEmitido(p) \/ FimDaVisita(p) \/ NaoSela(p) \/ FimDaResolucao(p)
  BY <1>2 DEF Reparar, LinhaExiste, AnexarLinha, DepoisDaLinha,
              FimDoReparo, JaEmitido, NaoEmitido, SemEmissao, FimDaVisita, NaoSela, FimDaResolucao
<1>3. CASE Visitar(p) \/ EmitirSeguinte(p) \/ \E c \in Claims : SelarLiquidacao(p, c)
  BY <1>3 DEF Visitar, Aguardar, ErroDeFonte, SemPublicacao, Liquidar, EmitirSeguinte,
              SelarLiquidacao
<1>4. CASE Reprecificar(p)
  BY <1>4 DEF Reprecificar, NaoMove, Recusar, Mover, SelarMudanca, GravarMudanca, FimDaRodada,
              FimDaReprecificacao, SelagemLevanta
<1>5. CASE Emitir(p) \/ Queda(p)
  BY <1>5 DEF Emitir, Queda
<1>. QED
  BY <1>1, <1>2, <1>3, <1>4, <1>5 DEF PassoDe, Resolver, Anexacao

LEMMA LedgerPreservado ==
  ASSUME IInv, Next PROVE LedgerUnico' /\ AnexaInedito'
<1>0. TypeOK /\ Ordem /\ LedgerUnico /\ AnexaInedito
  BY DEF IInv
<1>1. ASSUME NEW p \in Processos, PassoDe(p) PROVE LedgerUnico' /\ AnexaInedito'
  <2>0. EmCurso(p) /\ Alheio(p)
    BY <1>0, <1>1, Quadro DEF Ordem
  <2>1. CASE resolucoes' = resolucoes
    <3>1. Registrados' = Registrados
      BY <2>1 DEF Registrados
    <3>2. passo'[p] = "anexar" => alvo'[p] \notin Registrados
      BY <1>0, <1>1, <2>0, VaiAnexar, TomaMove DEF LinhaFalta, EmCurso, Passos
    <3>3. \A q \in Processos \ {p} : passo'[q] = "anexar" => alvo'[q] \notin Registrados
      BY <1>0, <2>0 DEF Alheio, AnexaInedito
    <3>. QED
      BY <1>0, <2>1, <3>1, <3>2, <3>3 DEF LedgerUnico, AnexaInedito
  <2>2. CASE AnexarLinha(p)
    <3>1. alvo[p] \notin Registrados /\ trava = p
      BY <1>0, <2>0, <2>2 DEF AnexarLinha, AnexaInedito, EmCurso, Travado
    <3>2. LedgerUnico'
      <4>1. \A i \in DOMAIN resolucoes : resolucoes[i].claim # alvo[p]
        BY <3>1 DEF Registrados
      <4>2. resolucoes'[Len(resolucoes) + 1].claim = alvo[p]
        BY <1>0, <2>0, <2>2, LinhaAnexada
      <4>3. /\ DOMAIN resolucoes' = DOMAIN resolucoes \cup {Len(resolucoes) + 1}
            /\ \A i \in DOMAIN resolucoes : resolucoes'[i] = resolucoes[i]
        BY <1>0, <2>0, <2>2, LinhaAnexada
      <4>. QED
        BY <1>0, <4>1, <4>2, <4>3 DEF LedgerUnico
    <3>3. passo'[p] # "anexar"
      BY <1>0, <1>1, <2>0, <2>2, VaiAnexar DEF AnexarLinha, LinhaFalta
    <3>4. \A q \in Processos \ {p} : passo'[q] # "anexar"
      BY <1>0, <2>0, <3>1 DEF Alheio, Ordem, EmCurso, Travado
    <3>. QED
      BY <3>2, <3>3, <3>4 DEF AnexaInedito
  <2>. QED
    BY <1>1, <2>1, <2>2, ResolucoesMudam
<1>2. CASE Avancar \/ \E c \in Claims : Publicar(c)
  BY <1>0, <1>2 DEF Avancar, Publicar, disco, cursor, LedgerUnico, AnexaInedito, Registrados
<1>. QED
  BY <1>1, <1>2 DEF Next, PassoDe

-----------------------------------------------------------------------------
(* THE COPIES OF THE REGISTRY                                              *)

(* Justificado with the world it speaks of as parameters.                  *)
BomOficial(r, h, f) == \A c \in Com(r, "LIQUIDADO") : h > Mes(c) /\ f[c] # Nenhum /\ r[c].valor = f[c]
BomProvado(r, ms) ==
  \A c \in Claims :
    /\ \A n \in r[c].movimentos : n \in DOMAIN ms /\ ms[n].claim = c
    /\ \A n \in r[c].movimentos :
         (\A m \in r[c].movimentos : m <= n) => r[c].p = ms[n].para
Bom(r, h, f, ms) == BomOficial(r, h, f) /\ BomProvado(r, ms)

LEMMA BomInicial ==
  ASSUME NEW h, NEW f, NEW ms, NEW r,
         \A c \in Claims : r[c].estado # "LIQUIDADO" /\ r[c].movimentos = {}
  PROVE  Bom(r, h, f, ms)
BY DEF Bom, BomOficial, BomProvado, Com

LEMMA VaziosBons == ASSUME NEW h, NEW f, NEW ms PROVE Bom(Vazios, h, f, ms)
BY BomInicial DEF Vazios, Vazio, Novo

(* Changing one market to a good one keeps a registry good.                *)
LEMMA BomTroca ==
  ASSUME NEW r \in Registros, NEW h, NEW f, NEW ms, Bom(r, h, f, ms),
         NEW c \in Claims, NEW m \in Mercado,
         m.estado = "LIQUIDADO" => h > Mes(c) /\ f[c] # Nenhum /\ m.valor = f[c],
         \A n \in m.movimentos : n \in DOMAIN ms /\ ms[n].claim = c,
         \A n \in m.movimentos : (\A k \in m.movimentos : k <= n) => m.p = ms[n].para
  PROVE  Bom([r EXCEPT ![c] = m], h, f, ms)
BY DEF Bom, BomOficial, BomProvado, Com, Registros

(* The world only moves on: months pass, a final value stays, the chain    *)
(* grows at its end.                                                       *)
LEMMA MundoAvanca ==
  ASSUME TypeOK, Next
  PROVE  /\ hoje' >= hoje /\ hoje' \in Nat
         /\ \A c \in Claims : hoje > Mes(c) /\ fonte[c] # Nenhum => fonte'[c] = fonte[c]
         /\ \A n \in DOMAIN mudancas : n \in DOMAIN mudancas' /\ mudancas'[n] = mudancas[n]
<1>1. CASE mudancas' = mudancas /\ hoje' = hoje /\ fonte' = fonte
  BY <1>1 DEF TypeOK, Meses
<1>2. ASSUME NEW p \in Processos, SelarMudanca(p)
      PROVE  /\ hoje' = hoje /\ fonte' = fonte
             /\ \A n \in DOMAIN mudancas : n \in DOMAIN mudancas' /\ mudancas'[n] = mudancas[n]
  <2>. DEFINE e == [claim |-> alvo[p], de |-> lido[p][alvo[p]].p, para |-> novo[p], em |-> data[p]]
  <2>1. mudancas' = Append(mudancas, e) /\ mudancas \in Seq(Mudancas)
    BY <1>2 DEF SelarMudanca, TypeOK
  <2>2. DOMAIN mudancas = 1 .. Len(mudancas) /\ DOMAIN mudancas' = 1 .. Len(mudancas) + 1
        /\ Len(mudancas) \in Nat
    BY <2>1
  <2>3. \A n \in 1 .. Len(mudancas) : Append(mudancas, e)[n] = mudancas[n]
    BY <2>1
  <2>4. \A n \in DOMAIN mudancas : n \in DOMAIN mudancas' /\ mudancas'[n] = mudancas[n]
    BY <2>1, <2>2, <2>3
  <2>. QED
    BY <1>2, <2>4 DEF SelarMudanca, mundo
<1>3. CASE Avancar
  BY <1>3 DEF Avancar, cadeia, TypeOK, Meses
<1>4. ASSUME NEW c \in Claims, Publicar(c)
      PROVE  /\ hoje' = hoje /\ mudancas' = mudancas
             /\ \A d \in Claims : hoje > Mes(d) /\ fonte[d] # Nenhum => fonte'[d] = fonte[d]
  <2>1. ~(hoje > Mes(c) /\ fonte[c] # Nenhum)
    BY <1>4, MesTipado DEF Publicar, TypeOK, Meses
  <2>. QED
    BY <1>4, <2>1 DEF Publicar, cadeia, TypeOK
<1>5. ASSUME NEW p \in Processos, PassoDe(p)
      PROVE  SelarMudanca(p) \/ (mudancas' = mudancas /\ hoje' = hoje /\ fonte' = fonte)
  <2>. USE DEF mundo, cadeia
  <2>1. CASE Iniciar(p)
    BY <2>1 DEF Iniciar, IniciarResolucao, IniciarRodada, IniciarReprecificacao, IniciarEmissao
  <2>2. CASE Resolver(p)
    BY <2>2 DEF Resolver, Anexacao, Reparar, LinhaExiste, LinhaFalta, AnexarLinha, FimDoReparo,
                Visitar, Aguardar, ErroDeFonte, SemPublicacao, Liquidar, EmitirSeguinte,
                JaEmitido, NaoEmitido, SemEmissao, FimDaVisita, SelarLiquidacao, NaoSela, FimDaResolucao
  <2>3. CASE Reprecificar(p)
    BY <2>3 DEF Reprecificar, NaoMove, Recusar, Mover, GravarMudanca, FimDaRodada,
                FimDaReprecificacao, SelagemLevanta
  <2>4. CASE Emitir(p) \/ Queda(p)
    BY <2>4 DEF Emitir, Queda
  <2>. QED
    BY <1>5, <2>1, <2>2, <2>3, <2>4 DEF PassoDe
<1>. QED
  BY <1>1, <1>2, <1>3, <1>4, <1>5 DEF Next, PassoDe, TypeOK, Meses

LEMMA BomPermanece ==
  ASSUME TypeOK, Next, NEW r, Bom(r, hoje, fonte, mudancas)
  PROVE  Bom(r, hoje', fonte', mudancas')
<1>1. hoje' >= hoje /\ hoje \in Nat /\ hoje' \in Nat
  BY MundoAvanca DEF TypeOK, Meses
<1>2. BomOficial(r, hoje', fonte')
  BY <1>1, MundoAvanca, MesTipado DEF Bom, BomOficial, Com
<1>3. BomProvado(r, mudancas')
  BY MundoAvanca DEF Bom, BomProvado
<1>. QED
  BY <1>2, <1>3 DEF Bom

BomAgora(r) == Bom(r, hoje, fonte, mudancas)
BomDepois(r) == Bom(r, hoje', fonte', mudancas')

LEMMA CopiasSaoBoas ==
  CopiasJustificadas <=> /\ BomAgora(registro)
                         /\ \A p \in Processos : BomAgora(memoria[p]) /\ BomAgora(lido[p])
BY DEF CopiasJustificadas, Justificado, Oficial, Provado, BomAgora, Bom, BomOficial, BomProvado

LEMMA CopiasSeguemBoas ==
  ASSUME BomDepois(registro'),
         \A p \in Processos : BomDepois(memoria'[p]) /\ BomDepois(lido'[p])
  PROVE  CopiasJustificadas'
BY DEF CopiasJustificadas, Justificado, Oficial, Provado, BomDepois, Bom, BomOficial,
       BomProvado, Com

(* A step that only moves whole registries around.                         *)
SoCopia(p) ==
  /\ registro' \in {registro, memoria[p], lido[p]}
  /\ memoria'[p] \in {memoria[p], registro, Vazios}
  /\ lido'[p] \in {lido[p], registro, Vazios}

LEMMA QuemSoCopia ==
  ASSUME TypeOK, NEW p \in Processos, PassoDe(p)
  PROVE  \/ SoCopia(p)
         \/ (\E c \in Claims : SemPublicacao(p, c) \/ Liquidar(p, c))
         \/ EmitirSeguinte(p) \/ Emitir(p) \/ SelarMudanca(p)
<1>. USE DEF SoCopia, Esquece, Termina, disco, copias, TypeOK, Vazios
<1>1. CASE Iniciar(p)
  BY <1>1 DEF Iniciar, IniciarResolucao, IniciarRodada, IniciarReprecificacao, IniciarEmissao
<1>2. CASE Reparar(p) \/ Anexacao(p) \/ FimDoReparo(p) \/ JaEmitido(p)
           \/ NaoEmitido(p) \/ FimDaVisita(p) \/ NaoSela(p) \/ FimDaResolucao(p) \/ \E c \in Claims : SelarLiquidacao(p, c)
  BY <1>2 DEF Reparar, Anexacao, LinhaExiste, LinhaFalta, AnexarLinha, FimDoReparo, JaEmitido,
              NaoEmitido, SemEmissao, FimDaVisita, NaoSela, FimDaResolucao, SelarLiquidacao
<1>3. CASE Visitar(p) \/ EmitirSeguinte(p)
  BY <1>3 DEF Visitar, Aguardar, ErroDeFonte
<1>4. CASE Reprecificar(p)
  BY <1>4 DEF Reprecificar, NaoMove, Recusar, Mover, GravarMudanca, FimDaRodada,
              FimDaReprecificacao, SelagemLevanta
<1>5. CASE Emitir(p) \/ Queda(p)
  BY <1>5 DEF Queda
<1>. QED
  BY <1>1, <1>2, <1>3, <1>4, <1>5 DEF PassoDe, Resolver

LEMMA TrocaAgora ==
  ASSUME NEW r \in Registros, BomAgora(r), NEW c \in Claims, NEW m \in Mercado,
         m.estado = "LIQUIDADO" => hoje > Mes(c) /\ fonte[c] # Nenhum /\ m.valor = fonte[c],
         \A n \in m.movimentos : n \in DOMAIN mudancas /\ mudancas[n].claim = c,
         \A n \in m.movimentos : (\A k \in m.movimentos : k <= n) => m.p = mudancas[n].para
  PROVE  BomAgora([r EXCEPT ![c] = m])
BY BomTroca DEF BomAgora

LEMMA EmitidoBom ==
  ASSUME NEW r \in Registros, BomAgora(r), NEW c \in Claims, NEW prob \in Probs
  PROVE  BomAgora(Emitido(r, c, prob))
<1>1. Novo("ABERTO", prob) \in Mercado
  BY NovoTipado DEF Estados
<1>2. Novo("ABERTO", prob).estado # "LIQUIDADO" /\ Novo("ABERTO", prob).movimentos = {}
  BY DEF Novo
<1>3. BomAgora([r EXCEPT ![c] = Novo("ABERTO", prob)])
  BY <1>1, <1>2, TrocaAgora
<1>. QED
  BY <1>3 DEF Emitido

(* A sealed change keeps the copy that carries it good.                    *)
LEMMA MudancaBoa ==
  ASSUME TypeOK, Next, NEW p \in Processos, EmCurso(p), SelarMudanca(p), BomAgora(lido[p])
  PROVE  BomDepois(lido'[p])
<1>. DEFINE c == alvo[p]
            k == Len(mudancas) + 1
            e == [claim |-> c, de |-> lido[p][c].p, para |-> novo[p], em |-> data[p]]
            m == [lido[p][c] EXCEPT !.p = novo[p], !.movimentos = @ \cup {k}]
<1>1. c \in Claims /\ lido[p] \in Registros /\ lido[p][c] \in Mercado
  BY DEF SelarMudanca, EmCurso, TypeOK, Registros
<1>2. lido'[p] = [lido[p] EXCEPT ![c] = m]
  BY <1>1 DEF SelarMudanca, TypeOK, Registros, Mercado
<1>3. mudancas' = Append(mudancas, e) /\ mudancas \in Seq(Mudancas) /\ Len(mudancas) \in Nat
  BY DEF SelarMudanca, TypeOK
<1>4. e \in Mudancas
  BY <1>1 DEF Mudancas, Mercado, TypeOK
<1>. HIDE DEF e
<1>5. /\ k \in DOMAIN mudancas' /\ mudancas'[k] = e
      /\ \A n \in DOMAIN mudancas : n \in Nat /\ n < k
  BY <1>3, <1>4
<1>6. m.estado = lido[p][c].estado /\ m.valor = lido[p][c].valor /\ m.p = novo[p]
      /\ m.movimentos = lido[p][c].movimentos \cup {k}
  BY <1>1 DEF Mercado
<1>7. m \in Mercado
  <2>1. k \in Nat \ {0} /\ novo[p] \in Probs
    BY <1>3 DEF TypeOK
  <2>. QED
    BY <1>1, <2>1 DEF Mercado
<1>8. Bom(lido[p], hoje', fonte', mudancas')
  BY BomPermanece DEF BomAgora
<1>9. e.claim = c /\ e.para = novo[p]
  BY DEF e
<1>. HIDE DEF m
<1>10. \A n \in m.movimentos : n \in DOMAIN mudancas' /\ mudancas'[n].claim = c
  BY <1>1, <1>5, <1>6, <1>8, <1>9 DEF Bom, BomProvado
<1>11. \A n \in m.movimentos : (\A j \in m.movimentos : j <= n) => m.p = mudancas'[n].para
  <2>1. \A n \in lido[p][c].movimentos : n \in DOMAIN mudancas
    BY <1>1 DEF BomAgora, Bom, BomProvado
  <2>2. k \in m.movimentos /\ k \in Nat
    BY <1>3, <1>6
  <2>3. \A n \in m.movimentos : (\A j \in m.movimentos : j <= n) => n = k
    BY <1>5, <1>6, <2>1, <2>2
  <2>. QED
    BY <1>5, <1>6, <1>9, <2>3
<1>12. m.estado = "LIQUIDADO" => hoje' > Mes(c) /\ fonte'[c] # Nenhum /\ m.valor = fonte'[c]
  BY <1>1, <1>6, <1>8 DEF Bom, BomOficial, Com
<1>. HIDE DEF c
<1>13. Bom([lido[p] EXCEPT ![c] = m], hoje', fonte', mudancas')
  BY <1>1, <1>7, <1>8, <1>10, <1>11, <1>12, BomTroca
<1>. QED
  BY <1>2, <1>13 DEF BomDepois

LEMMA CopiasPreservadas ==
  ASSUME TypeOK, Ordem, CopiasJustificadas, Next PROVE CopiasJustificadas'
<1>0. /\ BomAgora(registro)
      /\ \A p \in Processos : BomAgora(memoria[p]) /\ BomAgora(lido[p])
  BY CopiasSaoBoas
<1>1. \A r : BomAgora(r) => BomDepois(r)
  BY BomPermanece DEF BomAgora, BomDepois
<1>2. ASSUME NEW p \in Processos, PassoDe(p)
      PROVE  BomDepois(registro') /\ BomDepois(memoria'[p]) /\ BomDepois(lido'[p])
  <2>1. CASE SoCopia(p)
    BY <1>0, <1>1, <2>1, VaziosBons DEF SoCopia, BomDepois
  <2>2. ASSUME NEW c \in Claims, SemPublicacao(p, c)
        PROVE  BomDepois(registro') /\ BomDepois(memoria'[p]) /\ BomDepois(lido'[p])
    <3>. DEFINE m == [memoria[p][c] EXCEPT !.estado = "EM_RESOLUCAO"]
    <3>1. memoria[p] \in Registros /\ memoria[p][c] \in Mercado
      BY DEF TypeOK, Registros
    <3>2. m \in Mercado
      BY <3>1, EsperaTipada
    <3>3. registro' = [memoria[p] EXCEPT ![c] = m] /\ memoria'[p] = registro' /\ lido' = lido
      BY <2>2 DEF SemPublicacao, Salva, TypeOK
    <3>4. m.estado # "LIQUIDADO" /\ m.p = memoria[p][c].p /\ m.movimentos = memoria[p][c].movimentos
      BY <3>1 DEF Mercado
    <3>. HIDE DEF m
    <3>5. BomAgora([memoria[p] EXCEPT ![c] = m])
      <4>1. BomProvado(memoria[p], mudancas) /\ BomAgora(memoria[p])
        BY <1>0 DEF BomAgora, Bom
      <4>. QED
        BY <3>1, <3>2, <3>4, <4>1, TrocaAgora DEF BomProvado
    <3>. QED
      BY <1>0, <1>1, <3>3, <3>5
  <2>3. ASSUME NEW c \in Claims, Liquidar(p, c)
        PROVE  BomDepois(registro') /\ BomDepois(memoria'[p]) /\ BomDepois(lido'[p])
    <3>. DEFINE m == [memoria[p][c] EXCEPT !.estado = "LIQUIDADO", !.valor = fonte[c], !.em = data[p]]
    <3>1. memoria[p] \in Registros /\ memoria[p][c] \in Mercado
          /\ fonte[c] \in Valores \cup {Nenhum} /\ data[p] \in 0 .. UltimoMes
      BY MercadosAssumptions DEF TypeOK, Registros, Meses
    <3>2. m \in Mercado
      BY <3>1, LiquidadoTipado
    <3>3. registro' = [memoria[p] EXCEPT ![c] = m] /\ memoria'[p] = registro' /\ lido' = lido
      BY <2>3, <3>1 DEF Liquidar, Salva, TypeOK, Registros, Mercado
    <3>4. m.valor = fonte[c] /\ m.p = memoria[p][c].p /\ m.movimentos = memoria[p][c].movimentos
      BY <3>1 DEF Mercado
    <3>5. hoje > Mes(c) /\ fonte[c] # Nenhum
      <4>1. data[p] > Mes(c) /\ fonte[c] # Nenhum /\ data[p] <= hoje
        BY <2>3 DEF Liquidar, Vencido, Ordem, EmCurso
      <4>. QED
        BY <4>1, MesTipado DEF TypeOK, Meses
    <3>. HIDE DEF m
    <3>6. BomAgora([memoria[p] EXCEPT ![c] = m])
      <4>1. BomProvado(memoria[p], mudancas) /\ BomAgora(memoria[p])
        BY <1>0 DEF BomAgora, Bom
      <4>. QED
        BY <3>1, <3>2, <3>4, <3>5, <4>1, TrocaAgora DEF BomProvado
    <3>. QED
      BY <1>0, <1>1, <3>3, <3>6
  <2>4. CASE EmitirSeguinte(p)
    <3>1. Seguinte(p, alvo[p]) \in Claims
      BY <2>4, SeguinteTipado DEF EmitirSeguinte, Ordem, EmCurso
    <3>2. PICK prob \in Probs : Salva(p, Emitido(memoria[p], Seguinte(p, alvo[p]), prob))
      BY <2>4 DEF EmitirSeguinte
    <3>3. memoria'[p] = registro' /\ lido' = lido
          /\ registro' = Emitido(memoria[p], Seguinte(p, alvo[p]), prob)
      BY <2>4, <3>2 DEF EmitirSeguinte, Salva, TypeOK
    <3>4. BomAgora(registro')
      BY <1>0, <3>1, <3>3, EmitidoBom DEF TypeOK
    <3>. QED
      BY <1>0, <1>1, <3>3, <3>4
  <2>5. CASE Emitir(p)
    <3>1. PICK c \in Claims, prob \in Probs : registro' = Emitido(memoria[p], c, prob)
      BY <2>5 DEF Emitir
    <3>2. memoria'[p] = Vazios /\ lido'[p] = Vazios
      BY <2>5, EsqueceMove DEF Emitir, Termina
    <3>3. BomAgora(Emitido(memoria[p], c, prob))
      BY <1>0, EmitidoBom DEF TypeOK
    <3>. QED
      BY <1>1, <3>1, <3>2, <3>3, VaziosBons DEF BomDepois
  <2>6. CASE SelarMudanca(p)
    <3>1. registro' = registro /\ memoria' = memoria
      BY <2>6 DEF SelarMudanca, disco
    <3>. QED
      BY <1>0, <1>1, <2>6, <3>1, MudancaBoa DEF Ordem
  <2>. QED
    BY <1>2, <2>1, <2>2, <2>3, <2>4, <2>5, <2>6, QuemSoCopia
<1>3. ASSUME NEW p \in Processos, PassoDe(p) PROVE CopiasJustificadas'
  <2>1. \A q \in Processos \ {p} : BomDepois(memoria'[q]) /\ BomDepois(lido'[q])
    BY <1>0, <1>1, <1>3, Quadro DEF Alheio
  <2>. QED
    BY <1>2, <1>3, <2>1, CopiasSeguemBoas
<1>4. CASE Avancar \/ \E c \in Claims : Publicar(c)
  <2>1. registro' = registro /\ memoria' = memoria /\ lido' = lido
    BY <1>4 DEF Avancar, Publicar, disco, copias
  <2>. QED
    BY <1>0, <1>1, <2>1, CopiasSeguemBoas
<1>. QED
  BY <1>3, <1>4 DEF Next, PassoDe

-----------------------------------------------------------------------------
(* WHAT BECOMES A LINE                                                     *)

(* The settled markets of the memory of a round, and what it has in hand.  *)
LiquidadaDe(p) ==
  /\ passo[p] \in {"conferir", "anexar"} => memoria[p][alvo[p]].estado = "LIQUIDADO"
  /\ etapa[p] = "reparo" => restam[p] \subseteq Com(memoria[p], "LIQUIDADO")

LEMMA LiquidadaResolver ==
  ASSUME TypeOK, NEW p \in Processos, EmCurso(p), LiquidadaDe(p), Resolver(p)
  PROVE  LiquidadaDe(p)'
<1>. USE DEF LiquidadaDe, copias
<1>1. CASE Reparar(p)
  <2>1. PICK c \in Claims : NoItem(p, "reparo", c) /\ Toma(p, c, "conferir")
    BY <1>1 DEF Reparar
  <2>2. /\ c \in restam[p] /\ etapa[p] = "reparo" /\ memoria' = memoria
        /\ etapa'[p] = etapa[p] /\ alvo'[p] = c /\ restam'[p] = restam[p]
    BY <1>1, <2>1, TomaMove DEF Reparar, NoItem, Passos
  <2>. QED
    BY <2>2 DEF Com
<1>2. CASE LinhaExiste(p) \/ AnexarLinha(p)
  <2>1. alvo[p] \in Claims /\ memoria' = memoria
    BY <1>2 DEF LinhaExiste, AnexarLinha, EmCurso
  <2>2. /\ etapa'[p] = etapa[p] /\ restam'[p] \subseteq restam[p]
        /\ passo'[p] \in {"item", "emitir"}
    BY <1>2, <2>1, TomaMove, ConcluiMove DEF LinhaExiste, AnexarLinha, DepoisDaLinha, Passos
  <2>. QED
    BY <2>1, <2>2 DEF Com
<1>3. CASE LinhaFalta(p)
  <2>1. alvo[p] \in Claims /\ memoria' = memoria
    BY <1>3 DEF LinhaFalta, EmCurso
  <2>2. etapa'[p] = etapa[p] /\ restam'[p] = restam[p] /\ alvo'[p] = alvo[p]
    BY <1>3, <2>1, TomaMove DEF LinhaFalta, Passos
  <2>. QED
    BY <1>3, <2>1, <2>2 DEF LinhaFalta, Com
<1>4. CASE Visitar(p)
  <2>1. PICK c \in Claims : Aguardar(p, c) \/ ErroDeFonte(p, c) \/ SemPublicacao(p, c) \/ Liquidar(p, c)
    BY <1>4 DEF Visitar
  <2>2. etapa[p] = "visita"
    BY <2>1 DEF Aguardar, ErroDeFonte, SemPublicacao, Liquidar, NoItem
  <2>3. CASE Aguardar(p, c) \/ ErroDeFonte(p, c) \/ SemPublicacao(p, c)
    BY <2>2, <2>3, ConcluiMove DEF Aguardar, ErroDeFonte, SemPublicacao
  <2>4. CASE Liquidar(p, c)
    <3>1. etapa'[p] = "visita" /\ alvo'[p] = c
      BY <2>2, <2>4, TomaMove DEF Liquidar, Passos
    <3>2. memoria'[p][c].estado = "LIQUIDADO"
      BY <2>4 DEF Liquidar, Salva, TypeOK, Registros, Mercado
    <3>. QED
      BY <3>1, <3>2
  <2>. QED
    BY <2>1, <2>3, <2>4
<1>5. CASE EmitirSeguinte(p) \/ JaEmitido(p) \/ NaoEmitido(p)
  <2>1. etapa'[p] = "visita" /\ passo'[p] = "item"
    BY <1>5, ConcluiMove DEF EmitirSeguinte, JaEmitido, NaoEmitido, SemEmissao, EmCurso, TypeOK
  <2>. QED
    BY <2>1
<1>6. CASE (\E c \in Claims : SelarLiquidacao(p, c)) \/ NaoSela(p)
  BY <1>6, ConcluiMove DEF SelarLiquidacao, NaoSela, NoItem
<1>7. CASE FimDoReparo(p) \/ FimDaVisita(p) \/ FimDaResolucao(p)
  <2>1. etapa'[p] \in {"visita", "selagem", "ocioso"} /\ passo'[p] = "item"
    BY <1>7, EntraMove
       DEF FimDoReparo, FimDaVisita, FimDaResolucao, Termina, Etapas, Vivos, Com
  <2>. QED
    BY <2>1
<1>. QED
  BY <1>1, <1>2, <1>3, <1>4, <1>5, <1>6, <1>7 DEF Resolver, Anexacao

LEMMA LiquidadaOutros ==
  ASSUME TypeOK, NEW p \in Processos, EmCurso(p),
         Iniciar(p) \/ Reprecificar(p) \/ Emitir(p) \/ Queda(p)
  PROVE  LiquidadaDe(p)'
<1>1. CASE IniciarResolucao(p)
  <2>1. passo'[p] = "item" /\ restam'[p] \subseteq Com(registro, "LIQUIDADO")
    BY <1>1, EntraMove DEF IniciarResolucao, Etapas, Com
  <2>2. memoria'[p] = registro
    BY <1>1 DEF IniciarResolucao, TypeOK
  <2>. QED
    BY <2>1, <2>2 DEF LiquidadaDe, Com
<1>2. CASE IniciarRodada(p) \/ IniciarReprecificacao(p) \/ IniciarEmissao(p)
  <2>1. CASE IniciarRodada(p)
    <3>1. etapa'[p] = "laco" /\ passo'[p] = "item"
      BY <2>1, EntraMove DEF IniciarRodada, Etapas, Vivos, Com
    <3>. QED
      BY <3>1 DEF LiquidadaDe
  <2>2. CASE IniciarReprecificacao(p)
    <3>1. PICK c \in Claims : Entra(p, "ajuste", {c})
      BY <2>2 DEF IniciarReprecificacao
    <3>2. etapa'[p] = "ajuste" /\ passo'[p] = "item"
      BY <3>1, EntraMove DEF Etapas
    <3>. QED
      BY <3>2 DEF LiquidadaDe
  <2>3. CASE IniciarEmissao(p)
    <3>1. etapa'[p] = "emissao" /\ passo'[p] = "item"
      BY <2>3, EntraMove DEF IniciarEmissao, Etapas, Com
    <3>. QED
      BY <3>1 DEF LiquidadaDe
  <2>. QED
    BY <1>2, <2>1, <2>2, <2>3
<1>3. CASE Reprecificar(p)
  <2>1. EmCurso(p)' /\ etapa[p] \in Precos
    BY <1>3, OrdemReprecificar
       DEF Reprecificar, NaoMove, Recusar, Mover, SelarMudanca, GravarMudanca, FimDaRodada,
           FimDaReprecificacao, SelagemLevanta, NoItem, FimDaLista, EmCurso, Precos
  <2>2. trava' = trava /\ etapa[p] \notin Travado
    BY <1>3, OrdemReprecificar
  <2>3. etapa'[p] \notin Travado
    BY <2>1, <2>2 DEF EmCurso
  <2>. QED
    BY <2>1, <2>3 DEF LiquidadaDe, EmCurso, Travado
<1>4. CASE Emitir(p) \/ Queda(p)
  BY <1>4, EntraMove DEF Emitir, Queda, Termina, Etapas, LiquidadaDe
<1>. QED
  BY <1>1, <1>2, <1>3, <1>4 DEF Iniciar

LEMMA LiquidadaPreservada ==
  ASSUME IInv, Next PROVE LinhaLiquidada'
<1>0. /\ TypeOK /\ Ordem /\ CopiasJustificadas /\ LinhaLiquidada
      /\ \A p \in Processos : EmCurso(p) /\ LiquidadaDe(p)
  BY DEF IInv, Ordem, LinhaLiquidada, LiquidadaDe
<1>. DEFINE BoaLinha(l, h, f) == h > Mes(l.claim) /\ f[l.claim] # Nenhum /\ l.valor = f[l.claim]
<1>1. \A i \in DOMAIN resolucoes : BoaLinha(resolucoes[i], hoje, fonte)
  BY <1>0 DEF LinhaLiquidada
<1>2. \A l \in Linhas : BoaLinha(l, hoje, fonte) => BoaLinha(l, hoje', fonte')
  <2>1. hoje \in Nat /\ hoje' \in Nat /\ hoje' >= hoje
    BY <1>0, MundoAvanca DEF TypeOK, Meses
  <2>2. \A l \in Linhas : l.claim \in Claims
    BY DEF Linhas
  <2>. QED
    BY <1>0, <2>1, <2>2, MundoAvanca, MesTipado
<1>3. ASSUME NEW p \in Processos, AnexarLinha(p)
      PROVE  \A i \in DOMAIN resolucoes' : BoaLinha(resolucoes'[i], hoje', fonte')
  <2>. DEFINE l == Linha(alvo[p], memoria[p][alvo[p]])
  <2>1. alvo[p] \in Claims /\ memoria[p][alvo[p]].estado = "LIQUIDADO"
    BY <1>0, <1>3 DEF AnexarLinha, EmCurso, LiquidadaDe
  <2>2. BoaLinha(l, hoje, fonte)
    BY <1>0, <2>1 DEF CopiasJustificadas, Justificado, Oficial, Com, Linha
  <2>3. /\ l \in Linhas
        /\ DOMAIN resolucoes' = DOMAIN resolucoes \cup {Len(resolucoes) + 1}
        /\ resolucoes'[Len(resolucoes) + 1] = l
        /\ \A i \in DOMAIN resolucoes : resolucoes'[i] = resolucoes[i]
    BY <1>0, <1>3, LinhaAnexada
  <2>4. \A i \in DOMAIN resolucoes : resolucoes[i] \in Linhas
    BY <1>0 DEF TypeOK
  <2>. HIDE DEF l, BoaLinha
  <2>. QED
    BY <1>1, <1>2, <2>2, <2>3, <2>4
<1>4. \A i \in DOMAIN resolucoes' : BoaLinha(resolucoes'[i], hoje', fonte')
  <2>1. CASE resolucoes' = resolucoes
    <3>1. \A i \in DOMAIN resolucoes : resolucoes[i] \in Linhas
      BY <1>0 DEF TypeOK
    <3>. HIDE DEF BoaLinha
    <3>. QED
      BY <1>1, <1>2, <2>1, <3>1
  <2>2. CASE \E p \in Processos : AnexarLinha(p)
    BY <1>3, <2>2
  <2>. QED
    BY <2>1, <2>2, ResolucoesMudam DEF Next, PassoDe, Avancar, Publicar, disco
<1>5. ASSUME NEW p \in Processos, PassoDe(p), NEW q \in Processos PROVE LiquidadaDe(q)'
  <2>1. CASE q = p
    BY <1>0, <1>5, <2>1, LiquidadaResolver, LiquidadaOutros DEF PassoDe
  <2>2. CASE q # p
    BY <1>0, <1>5, <2>2, Quadro DEF Alheio, LiquidadaDe, Com
  <2>. QED
    BY <2>1, <2>2
<1>6. ASSUME Avancar \/ \E c \in Claims : Publicar(c), NEW q \in Processos PROVE LiquidadaDe(q)'
  BY <1>0, <1>6 DEF Avancar, Publicar, cursor, copias, LiquidadaDe, Com
<1>7. \A q \in Processos : LiquidadaDe(q)'
  BY <1>5, <1>6 DEF Next, PassoDe
<1>. QED
  BY <1>4, <1>7 DEF LinhaLiquidada, LiquidadaDe

-----------------------------------------------------------------------------
(* THEOREMS                                                                *)

LEMMA InitIInv == Init => IInv
<1>. SUFFICES ASSUME Init PROVE IInv
  OBVIOUS
<1>1. TypeOK
  <2>1. \A c \in Claims : registro[c] \in Mercado
    BY NovoTipado, MercadosAssumptions DEF Init, Estados
  <2>2. registro \in Registros
    BY <2>1 DEF Init, Registros
  <2>3. memoria \in [Processos -> Registros] /\ lido \in [Processos -> Registros]
    BY VaziosTipados DEF Init, Vazios
  <2>4. hoje \in Meses /\ data \in [Processos -> Meses] /\ quedas \in 0 .. MaxQuedas
    BY MercadosAssumptions DEF Init, Meses
  <2>5. /\ fonte \in [Claims -> Valores \cup {Nenhum}]
        /\ resolucoes \in Seq(Linhas) /\ mudancas \in Seq(Mudancas)
        /\ selados \in [Claims -> Linhas \cup {Nenhum}]
        /\ trava \in Processos \cup {Nenhum}
    BY DEF Init
  <2>6. /\ etapa \in [Processos -> Etapas] /\ passo \in [Processos -> Passos]
        /\ restam \in [Processos -> SUBSET Claims]
        /\ alvo \in [Processos -> Claims \cup {Nenhum}]
        /\ novo \in [Processos -> Probs]
    BY MercadosAssumptions DEF Init, Etapas, Passos
  <2>. QED
    BY <2>2, <2>3, <2>4, <2>5, <2>6 DEF TypeOK
<1>2. Ordem /\ LedgerUnico /\ AnexaInedito /\ LinhaLiquidada
  BY MercadosAssumptions
     DEF Init, Ordem, EmCurso, Travado, LedgerUnico, AnexaInedito, LinhaLiquidada
<1>3. CopiasJustificadas
  <2>1. BomAgora(registro)
    BY BomInicial DEF Init, Novo, BomAgora
  <2>2. \A p \in Processos : memoria[p] = Vazios /\ lido[p] = Vazios
    BY DEF Init, Vazios
  <2>. QED
    BY <2>1, <2>2, VaziosBons, CopiasSaoBoas DEF BomAgora
<1>. QED
  BY <1>1, <1>2, <1>3 DEF IInv

LEMMA IInvPreservado == IInv /\ [Next]_vars => IInv'
<1>1. ASSUME IInv, Next PROVE IInv'
  BY <1>1, TypeOKPreservado, OrdemPreservada, LedgerPreservado, CopiasPreservadas,
     LiquidadaPreservada DEF IInv
<1>2. ASSUME IInv, UNCHANGED vars PROVE IInv'
  <2>. USE <1>2 DEF vars, mundo, disco, cadeia, cursor, copias
  <2>1. TypeOK' /\ Ordem'
    BY DEF IInv, TypeOK, Ordem, EmCurso, Vencido
  <2>2. LedgerUnico' /\ AnexaInedito'
    BY DEF IInv, LedgerUnico, AnexaInedito, Registrados
  <2>3. CopiasJustificadas'
    BY DEF IInv, CopiasJustificadas, Justificado, Oficial, Provado, Com
  <2>4. LinhaLiquidada'
    BY DEF IInv, LinhaLiquidada, Com
  <2>. QED
    BY <2>1, <2>2, <2>3, <2>4 DEF IInv
<1>. QED
  BY <1>1, <1>2

(* The inductive invariant of the four commands over one registry.         *)
THEOREM Invariante == Spec => []IInv
BY InitIInv, IInvPreservado, PTL DEF Spec

(* Every variable keeps its type, however many processes there are.        *)
THEOREM Tipos == Spec => []TypeOK
<1>1. IInv => TypeOK
  BY DEF IInv
<1>. QED
  BY Invariante, <1>1, PTL

(* No claim has two lines in resolucoes.jsonl, whatever rewrites the       *)
(* registry meanwhile: the lock of resolver_pendentes makes the check and  *)
(* the append of _apendar_resolucao one.                                   *)
THEOREM LedgerSempreUnico == Spec => []LedgerUnico
<1>1. IInv => LedgerUnico
  BY DEF IInv
<1>. QED
  BY Invariante, <1>1, PTL

(* Every settlement on disk is past its month and carries the value the    *)
(* source published: stale writes cannot forge one.                        *)
THEOREM DesfechoSempreOficial == Spec => []DesfechoOficial
<1>1. IInv => DesfechoOficial
  BY DEF IInv, CopiasJustificadas, Justificado, Oficial, LinhaLiquidada, DesfechoOficial
<1>. QED
  BY Invariante, <1>1, PTL

(* A probability that was moved was moved by a sealed event: reprecificar  *)
(* seals before it writes.                                                 *)
THEOREM EfeitoSempreComEvento == Spec => []EfeitoComEvento
<1>1. IInv => EfeitoComEvento
  BY DEF IInv, CopiasJustificadas, Justificado, EfeitoComEvento
<1>. QED
  BY Invariante, <1>1, PTL
=============================================================================
