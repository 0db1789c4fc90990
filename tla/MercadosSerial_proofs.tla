------------------------ MODULE MercadosSerial_proofs ------------------------
(***************************************************************************)
(* What Mercados keeps when its commands do not overlap, for any number of *)
(* processes, deaths, areas and months.  Without a second command the      *)
(* copy in memory is the registry, or lacks only repricings of markets     *)
(* that are still live (CopiaAtual): then writing it back undoes nothing   *)
(* that was settled.                                                       *)
(***************************************************************************)
EXTENDS Mercados_proofs

(* What a step may do to the registry.                                     *)
MantemLiquidados ==
  \A c \in Claims : registro[c].estado = "LIQUIDADO" => registro'[c] = registro[c]
MantemMovimentos ==
  \A c \in Claims : registro[c].movimentos \subseteq registro'[c].movimentos

LEMMA VivosTipados == ASSUME NEW r PROVE Vivos(r) \subseteq Claims
BY DEF Vivos, Com

(* A process moves in the stage it is in, or begins one.                   *)
LEMMA EtapaDe ==
  ASSUME TypeOK, NEW p \in Processos, EmCurso(p), PassoDe(p)
  PROVE  etapa[p] # "ocioso" \/ (Iniciar(p) /\ etapa'[p] # "ocioso")
<1>1. CASE Iniciar(p)
  BY <1>1 DEF Iniciar, IniciarResolucao, IniciarRodada, IniciarReprecificacao, IniciarEmissao,
              Entra, TypeOK
<1>2. CASE Resolver(p)
  BY <1>2, OrdemResolver DEF Travado
<1>3. CASE Reprecificar(p)
  BY <1>3 DEF Reprecificar, NaoMove, Recusar, Mover, SelarMudanca, GravarMudanca, FimDaRodada,
              FimDaReprecificacao, SelagemLevanta, NoItem, FimDaLista, EmCurso, Precos
<1>4. CASE Emitir(p) \/ Queda(p)
  BY <1>4 DEF Emitir, Queda, NoItem
<1>. QED
  BY <1>1, <1>2, <1>3, <1>4 DEF PassoDe

(* While p moves, every other process is idle.                             *)
LEMMA OsOutrosOciosos ==
  ASSUME IInv, IInv', UmPorVez, UmPorVez', NEW p \in Processos, PassoDe(p),
         NEW q \in Processos \ {p}
  PROVE  etapa'[q] = "ocioso" /\ passo'[q] = "item"
<1>1. TypeOK /\ EmCurso(p) /\ EmCurso(q)' /\ Alheio(p) /\ TypeOK'
  BY Quadro DEF IInv, Ordem
<1>2. etapa'[q] = "ocioso"
  BY <1>1, EtapaDe DEF UmPorVez, Alheio
<1>3. passo'[q] \in Passos
  BY <1>1 DEF TypeOK
<1>. QED
  BY <1>1, <1>2, <1>3 DEF EmCurso, Passos, Precos

-----------------------------------------------------------------------------
(* THE REGISTRY                                                            *)

(* One market that is not settled is replaced by one that has at least its *)
(* repricings.                                                             *)
LEMMA TrocaUm ==
  ASSUME TypeOK, AusenteNaoMove, NEW c \in Claims, NEW m,
         registro' = [registro EXCEPT ![c] = m],
         registro[c].estado # "LIQUIDADO", m.estado # "AUSENTE",
         registro[c].movimentos \subseteq m.movimentos
  PROVE  /\ MantemLiquidados /\ MantemMovimentos /\ AusenteNaoMove'
         /\ registro'[c] = m /\ \A d \in Claims \ {c} : registro'[d] = registro[d]
<1>1. registro'[c] = m /\ \A d \in Claims \ {c} : registro'[d] = registro[d]
  BY DEF TypeOK, Registros
<1>. QED
  BY <1>1 DEF MantemLiquidados, MantemMovimentos, AusenteNaoMove, Com

(* A copy that lacks only repricings of live markets is written back.      *)
LEMMA TrocaTodos ==
  ASSUME AusenteNaoMove, NEW r, Acompanha(r), registro' = r
  PROVE  /\ MantemLiquidados /\ AusenteNaoMove'
         /\ Vivos(registro') = Vivos(registro)
         /\ \A e : Com(registro', e) = Com(registro, e)
<1>1. \A e : Com(registro', e) = Com(registro, e)
  BY DEF Acompanha, Com
<1>2. Vivos(registro') = Vivos(registro)
  BY <1>1 DEF Vivos
<1>3. \A c \in Claims : registro[c].estado \in {"LIQUIDADO", "AUSENTE"} => registro'[c] = registro[c]
  BY DEF Acompanha, Vivos, Com
<1>. QED
  BY <1>1, <1>2, <1>3 DEF MantemLiquidados, AusenteNaoMove, Com

(* An unpublished market goes on waiting.                                  *)
LEMMA SemPublicacaoTroca ==
  ASSUME TypeOK, AusenteNaoMove, NEW p \in Processos, CopiaAtual(p),
         NEW c \in Claims, SemPublicacao(p, c)
  PROVE  /\ MantemLiquidados /\ MantemMovimentos /\ AusenteNaoMove'
         /\ memoria'[p] = registro'
         /\ Vivos(registro') = Vivos(registro)
         /\ Com(registro', "LIQUIDADO") = Com(registro, "LIQUIDADO")
<1>. DEFINE m == [registro[c] EXCEPT !.estado = "EM_RESOLUCAO"]
<1>1. memoria[p] = registro /\ c \in Vivos(registro)
  BY DEF CopiaAtual, SemPublicacao, NoItem, Travado
<1>2. registro' = [registro EXCEPT ![c] = m] /\ memoria'[p] = registro'
  BY <1>1 DEF SemPublicacao, Salva, TypeOK
<1>3. registro[c] \in Mercado
  BY DEF TypeOK, Registros
<1>4. m.estado = "EM_RESOLUCAO" /\ m.movimentos = registro[c].movimentos
  BY <1>3 DEF Mercado
<1>5. registro[c].estado \in {"ABERTO", "EM_RESOLUCAO"}
  BY <1>1 DEF Vivos, Com
<1>. HIDE DEF m
<1>6. /\ MantemLiquidados /\ MantemMovimentos /\ AusenteNaoMove'
      /\ registro'[c] = m /\ \A d \in Claims \ {c} : registro'[d] = registro[d]
  BY <1>2, <1>4, <1>5, TrocaUm
<1>. QED
  BY <1>2, <1>4, <1>5, <1>6 DEF Vivos, Com

(* A published market settles.                                             *)
LEMMA LiquidarTroca ==
  ASSUME TypeOK, AusenteNaoMove, NEW p \in Processos, CopiaAtual(p),
         NEW c \in Claims, Liquidar(p, c)
  PROVE  /\ MantemLiquidados /\ MantemMovimentos /\ AusenteNaoMove'
         /\ memoria'[p] = registro'
         /\ Vivos(registro') = Vivos(registro) \ {c}
         /\ Com(registro', "LIQUIDADO") = Com(registro, "LIQUIDADO") \cup {c}
<1>. DEFINE m == [registro[c] EXCEPT !.estado = "LIQUIDADO", !.valor = fonte[c], !.em = data[p]]
<1>1. memoria[p] = registro /\ c \in Vivos(registro)
  BY DEF CopiaAtual, Liquidar, NoItem, Travado
<1>2. registro[c] \in Mercado
  BY DEF TypeOK, Registros
<1>3. registro' = [registro EXCEPT ![c] = m] /\ memoria'[p] = registro'
  BY <1>1, <1>2 DEF Liquidar, Salva, TypeOK, Registros, Mercado
<1>4. m.estado = "LIQUIDADO" /\ m.movimentos = registro[c].movimentos
  BY <1>2 DEF Mercado
<1>5. registro[c].estado \in {"ABERTO", "EM_RESOLUCAO"}
  BY <1>1 DEF Vivos, Com
<1>. HIDE DEF m
<1>6. /\ MantemLiquidados /\ MantemMovimentos /\ AusenteNaoMove'
      /\ registro'[c] = m /\ \A d \in Claims \ {c} : registro'[d] = registro[d]
  BY <1>3, <1>4, <1>5, TrocaUm
<1>. QED
  BY <1>3, <1>4, <1>5, <1>6 DEF Vivos, Com

(* A market is emitted where there was none.                               *)
LEMMA EmitidoTroca ==
  ASSUME TypeOK, AusenteNaoMove, NEW c \in Claims, NEW prob,
         registro' = Emitido(registro, c, prob), registro[c].estado = "AUSENTE"
  PROVE  /\ MantemLiquidados /\ MantemMovimentos /\ AusenteNaoMove'
         /\ Vivos(registro') = Vivos(registro) \cup {c}
         /\ Com(registro', "LIQUIDADO") = Com(registro, "LIQUIDADO")
<1>. DEFINE m == Novo("ABERTO", prob)
<1>1. registro' = [registro EXCEPT ![c] = m]
  BY DEF Emitido
<1>2. m.estado = "ABERTO" /\ m.movimentos = {} /\ registro[c].movimentos = {}
  BY DEF Novo, AusenteNaoMove, Com
<1>. HIDE DEF m
<1>3. /\ MantemLiquidados /\ MantemMovimentos /\ AusenteNaoMove'
      /\ registro'[c] = m /\ \A d \in Claims \ {c} : registro'[d] = registro[d]
  BY <1>1, <1>2, TrocaUm
<1>. QED
  BY <1>2, <1>3 DEF Vivos, Com

(* Only these steps write the registry.                                    *)
LEMMA QuemEscreve ==
  ASSUME NEW p \in Processos, PassoDe(p)
  PROVE  \/ registro' = registro
         \/ \E c \in Claims : SemPublicacao(p, c) \/ Liquidar(p, c)
         \/ EmitirSeguinte(p) \/ FimDaVisita(p)
         \/ GravarMudanca(p) \/ FimDaRodada(p) \/ Emitir(p)
<1>. USE DEF disco
<1>1. CASE Iniciar(p)
  BY <1>1 DEF Iniciar, IniciarResolucao, IniciarRodada, IniciarReprecificacao, IniciarEmissao
<1>2. CASE Resolver(p)
  BY <1>2 DEF Resolver, Anexacao, Reparar, LinhaExiste, LinhaFalta, AnexarLinha, FimDoReparo,
              Visitar, Aguardar, ErroDeFonte, JaEmitido, NaoEmitido, SemEmissao,
              SelarLiquidacao, NaoSela, FimDaResolucao
<1>3. CASE Reprecificar(p)
  BY <1>3 DEF Reprecificar, NaoMove, Recusar, Mover, SelarMudanca, FimDaReprecificacao,
              SelagemLevanta
<1>4. CASE Queda(p)
  BY <1>4 DEF Queda
<1>. QED
  BY <1>1, <1>2, <1>3, <1>4 DEF PassoDe

(* Whatever is written, nothing that was settled changes, and repricings   *)
(* go only with the last write of rodada.                                  *)
LEMMA EscritaFiel ==
  ASSUME TypeOK, AusenteNaoMove, NEW p \in Processos, EmCurso(p), CopiaAtual(p), PassoDe(p)
  PROVE  /\ MantemLiquidados /\ AusenteNaoMove'
         /\ MantemMovimentos \/ FimDaRodada(p)
<1>1. CASE registro' = registro
  BY <1>1 DEF MantemLiquidados, MantemMovimentos, AusenteNaoMove, Com
<1>2. CASE \E c \in Claims : SemPublicacao(p, c) \/ Liquidar(p, c)
  BY <1>2, SemPublicacaoTroca, LiquidarTroca
<1>3. CASE EmitirSeguinte(p)
  <2>1. memoria[p] = registro
    BY <1>3 DEF EmitirSeguinte, EmCurso, CopiaAtual, Travado
  <2>2. Seguinte(p, alvo[p]) \in Claims
    BY <1>3, SeguinteTipado DEF EmitirSeguinte, EmCurso
  <2>3. \E prob \in Probs : registro' = Emitido(registro, Seguinte(p, alvo[p]), prob)
    BY <1>3, <2>1 DEF EmitirSeguinte, Salva
  <2>. QED
    BY <1>3, <2>1, <2>2, <2>3, EmitidoTroca DEF EmitirSeguinte
<1>4. CASE FimDaVisita(p)
  <2>1. registro' = registro
    BY <1>4 DEF FimDaVisita, FimDaLista, CopiaAtual, Travado
  <2>. QED
    BY <1>1, <2>1
<1>5. CASE GravarMudanca(p)
  BY <1>5, TrocaTodos DEF GravarMudanca, CopiaAtual, MantemMovimentos
<1>6. CASE FimDaRodada(p)
  BY <1>6, TrocaTodos DEF FimDaRodada, FimDaLista, CopiaAtual
<1>7. CASE Emitir(p)
  <2>1. PICK c \in Claims, prob \in Probs :
          NoItem(p, "emissao", c) /\ registro' = Emitido(memoria[p], c, prob)
    BY <1>7 DEF Emitir
  <2>2. memoria[p] = registro /\ registro[c].estado = "AUSENTE"
    BY <2>1 DEF NoItem, CopiaAtual, Com
  <2>. QED
    BY <2>1, <2>2, EmitidoTroca
<1>. QED
  BY <1>1, <1>2, <1>3, <1>4, <1>5, <1>6, <1>7, QuemEscreve
-----------------------------------------------------------------------------
(* WHAT THE COMMAND IN COURSE REMEMBERS                                    *)

(* What the invariant says of the command p.                               *)
EmDia(p) == CopiaAtual(p) /\ LinhaDevida(p)

LEMMA EmDiaParado ==
  ASSUME NEW p \in Processos, etapa'[p] = "ocioso", passo'[p] = "item" PROVE EmDia(p)'
BY DEF EmDia, CopiaAtual, LinhaDevida, Travado

LEMMA EmDiaIniciar ==
  ASSUME TypeOK, NEW p \in Processos, Iniciar(p) PROVE EmDia(p)'
<1>. USE DEF EmDia, CopiaAtual, LinhaDevida, disco
<1>1. CASE IniciarResolucao(p)
  <2>1. /\ etapa'[p] = "reparo" /\ passo'[p] = "item"
        /\ restam'[p] = Com(registro, "LIQUIDADO") \ Registrados
    BY <1>1, EntraMove DEF IniciarResolucao, Etapas, Com
  <2>2. memoria'[p] = registro /\ registro' = registro /\ Registrados' = Registrados
    BY <1>1 DEF IniciarResolucao, TypeOK, Registrados
  <2>. QED
    BY <2>1, <2>2
<1>2. CASE IniciarRodada(p)
  <2>1. etapa'[p] = "laco" /\ passo'[p] = "item"
    BY <1>2, EntraMove, VivosTipados DEF IniciarRodada, Etapas
  <2>2. memoria'[p] = registro /\ registro' = registro
    BY <1>2 DEF IniciarRodada, TypeOK
  <2>. QED
    BY <2>1, <2>2 DEF Acompanha, Travado
<1>3. CASE IniciarReprecificacao(p)
  <2>1. PICK c \in Claims : Entra(p, "ajuste", {c})
    BY <1>3 DEF IniciarReprecificacao
  <2>2. etapa'[p] = "ajuste" /\ passo'[p] = "item"
    BY <2>1, EntraMove DEF Etapas
  <2>. QED
    BY <2>2 DEF Travado
<1>4. CASE IniciarEmissao(p)
  <2>1. etapa'[p] = "emissao" /\ passo'[p] = "item" /\ restam'[p] = Com(registro, "AUSENTE")
    BY <1>4, EntraMove DEF IniciarEmissao, Etapas, Com
  <2>2. memoria'[p] = registro /\ registro' = registro
    BY <1>4 DEF IniciarEmissao, TypeOK
  <2>. QED
    BY <2>1, <2>2 DEF Travado
<1>. QED
  BY <1>1, <1>2, <1>3, <1>4 DEF Iniciar

(* The ledger steps of a round: an item leaves the repair list, or the     *)
(* hand, only when its line is there.                                      *)
LEMMA EmDiaAnexacao ==
  ASSUME TypeOK, NEW p \in Processos, EmCurso(p), EmDia(p), Anexacao(p)
  PROVE  EmDia(p)'
<1>. USE DEF disco, copias
<1>1. /\ alvo[p] \in Claims /\ etapa[p] \in {"reparo", "visita"}
      /\ passo[p] \in {"conferir", "anexar"} /\ memoria[p] = registro
  BY DEF Anexacao, LinhaExiste, LinhaFalta, AnexarLinha, EmCurso, EmDia, CopiaAtual, Travado
<1>2. registro' = registro /\ memoria' = memoria /\ etapa'[p] = etapa[p]
  BY <1>1, TomaMove, ConcluiMove
     DEF Anexacao, LinhaExiste, LinhaFalta, AnexarLinha, DepoisDaLinha, Passos
<1>3. CASE LinhaFalta(p)
  <2>1. /\ passo'[p] = "anexar" /\ alvo'[p] = alvo[p] /\ restam'[p] = restam[p]
        /\ Registrados' = Registrados
    BY <1>1, <1>3, TomaMove DEF LinhaFalta, Passos, Registrados
  <2>2. LinhaDevida(p)'
    BY <1>1, <1>2, <2>1 DEF EmDia, LinhaDevida
  <2>3. CopiaAtual(p)'
    BY <1>1, <1>2, <2>1 DEF EmDia, CopiaAtual
  <2>. QED
    BY <2>2, <2>3 DEF EmDia
<1>4. CASE LinhaExiste(p) \/ AnexarLinha(p)
  <2>1. Registrados' = Registrados \cup {alvo[p]}
    <3>1. CASE LinhaExiste(p)
      BY <3>1 DEF LinhaExiste, Registrados
    <3>2. CASE AnexarLinha(p)
      BY <3>2, LinhaAnexada
    <3>. QED
      BY <1>4, <3>1, <3>2
  <2>2. DepoisDaLinha(p)
    BY <1>4 DEF LinhaExiste, AnexarLinha
  <2>3. CASE etapa[p] = "reparo"
    <3>1. passo'[p] = "item" /\ restam'[p] = restam[p] \ {alvo[p]}
      BY <2>2, <2>3, ConcluiMove DEF DepoisDaLinha
    <3>2. LinhaDevida(p)'
      BY <1>2, <2>1, <2>3, <3>1 DEF EmDia, LinhaDevida, Travado
    <3>3. CopiaAtual(p)'
      BY <1>1, <1>2, <2>3, <3>1 DEF CopiaAtual
    <3>. QED
      BY <3>2, <3>3 DEF EmDia
  <2>4. CASE etapa[p] = "visita"
    <3>1. passo'[p] = "emitir" /\ restam'[p] = restam[p] /\ alvo'[p] = alvo[p]
      BY <1>1, <2>2, <2>4, TomaMove DEF DepoisDaLinha, Passos
    <3>2. LinhaDevida(p)'
      BY <1>1, <1>2, <2>1, <2>4, <3>1 DEF EmDia, LinhaDevida, Travado
    <3>3. CopiaAtual(p)'
      BY <1>1, <1>2, <2>4, <3>1 DEF EmDia, CopiaAtual
    <3>. QED
      BY <3>2, <3>3 DEF EmDia
  <2>. QED
    BY <1>1, <2>3, <2>4
<1>. QED
  BY <1>3, <1>4 DEF Anexacao

LEMMA EmDiaVisitar ==
  ASSUME TypeOK, AusenteNaoMove, NEW p \in Processos, EmDia(p), Visitar(p)
  PROVE  EmDia(p)'
<1>0. PICK c \in Claims :
        Aguardar(p, c) \/ ErroDeFonte(p, c) \/ SemPublicacao(p, c) \/ Liquidar(p, c)
  BY DEF Visitar
<1>1. /\ NoItem(p, "visita", c) /\ memoria[p] = registro /\ CopiaAtual(p)
      /\ Com(registro, "LIQUIDADO") \subseteq Registrados
      /\ restam[p] \subseteq Vivos(registro)
      /\ Registrados' = Registrados
  BY <1>0 DEF Aguardar, ErroDeFonte, SemPublicacao, Liquidar, NoItem, EmDia, CopiaAtual,
              LinhaDevida, Travado, Registrados, disco
<1>2. CASE Aguardar(p, c) \/ ErroDeFonte(p, c) \/ SemPublicacao(p, c)
  <2>1. etapa'[p] = "visita" /\ passo'[p] = "item" /\ restam'[p] = restam[p] \ {c}
    BY <1>1, <1>2, ConcluiMove DEF Aguardar, ErroDeFonte, SemPublicacao, NoItem
  <2>2. /\ memoria'[p] = registro' /\ Vivos(registro') = Vivos(registro)
        /\ Com(registro', "LIQUIDADO") = Com(registro, "LIQUIDADO")
    BY <1>1, <1>2, SemPublicacaoTroca DEF Aguardar, ErroDeFonte, disco, copias
  <2>. QED
    BY <1>1, <2>1, <2>2 DEF EmDia, CopiaAtual, LinhaDevida, Travado
<1>3. CASE Liquidar(p, c)
  <2>1. etapa'[p] = "visita" /\ passo'[p] = "conferir" /\ restam'[p] = restam[p] /\ alvo'[p] = c
    BY <1>1, <1>3, TomaMove DEF Liquidar, NoItem, Passos
  <2>2. /\ memoria'[p] = registro' /\ Vivos(registro') = Vivos(registro) \ {c}
        /\ Com(registro', "LIQUIDADO") = Com(registro, "LIQUIDADO") \cup {c}
    BY <1>1, <1>3, LiquidarTroca
  <2>. QED
    BY <1>1, <2>1, <2>2 DEF EmDia, CopiaAtual, LinhaDevida, Travado
<1>. QED
  BY <1>0, <1>2, <1>3

LEMMA EmDiaEmitir ==
  ASSUME TypeOK, AusenteNaoMove, NEW p \in Processos, EmCurso(p), EmDia(p),
         EmitirSeguinte(p) \/ JaEmitido(p) \/ NaoEmitido(p)
  PROVE  EmDia(p)'
<1>. DEFINE s == Seguinte(p, alvo[p])
<1>1. /\ etapa[p] = "visita" /\ memoria[p] = registro /\ passo[p] = "emitir"
      /\ Com(registro, "LIQUIDADO") \subseteq Registrados
      /\ restam[p] \subseteq Vivos(registro) \cup {alvo[p]}
      /\ Registrados' = Registrados
  BY DEF EmitirSeguinte, JaEmitido, NaoEmitido, SemEmissao, EmCurso, EmDia, CopiaAtual,
         LinhaDevida, Travado, Registrados, disco
<1>2. s \in Claims
  BY <1>1, SeguinteTipado DEF EmCurso
<1>. HIDE DEF s
<1>3. CASE EmitirSeguinte(p)
  <2>1. PICK prob \in Probs : Salva(p, Emitido(registro, s, prob))
    BY <1>1, <1>3 DEF EmitirSeguinte, s
  <2>2. registro' = Emitido(registro, s, prob) /\ memoria'[p] = registro'
    BY <2>1 DEF Salva, TypeOK
  <2>3. /\ etapa'[p] = "visita" /\ passo'[p] = "item"
        /\ restam'[p] = (restam[p] \ {alvo[p]}) \cup {s}
    BY <1>1, <1>3 DEF EmitirSeguinte, TypeOK, s
  <2>4. /\ Vivos(registro') = Vivos(registro) \cup {s}
        /\ Com(registro', "LIQUIDADO") = Com(registro, "LIQUIDADO")
    <3>1. registro[s].estado = "AUSENTE"
      BY <1>1, <1>3 DEF EmitirSeguinte, s
    <3>. QED
      BY <1>2, <2>2, <3>1, EmitidoTroca
  <2>. QED
    BY <1>1, <2>2, <2>3, <2>4 DEF EmDia, CopiaAtual, LinhaDevida, Travado
<1>4. CASE JaEmitido(p) \/ NaoEmitido(p)
  <2>1. /\ etapa'[p] = "visita" /\ passo'[p] = "item" /\ restam'[p] = restam[p] \ {alvo[p]}
        /\ registro' = registro /\ memoria' = memoria
    BY <1>1, <1>4, ConcluiMove DEF JaEmitido, NaoEmitido, SemEmissao, disco, copias
  <2>. QED
    BY <1>1, <2>1 DEF EmDia, CopiaAtual, LinhaDevida, Travado
<1>. QED
  BY <1>3, <1>4

LEMMA EmDiaResolver ==
  ASSUME TypeOK, AusenteNaoMove, NEW p \in Processos, EmCurso(p), EmDia(p), Resolver(p)
  PROVE  EmDia(p)'
<1>. USE DEF disco, copias
<1>1. CASE Reparar(p)
  <2>1. PICK c \in Claims : NoItem(p, "reparo", c) /\ Toma(p, c, "conferir")
    BY <1>1 DEF Reparar
  <2>2. /\ etapa[p] = "reparo" /\ etapa'[p] = "reparo" /\ passo'[p] = "conferir"
        /\ restam'[p] = restam[p] /\ registro' = registro /\ memoria' = memoria
        /\ Registrados' = Registrados
    BY <1>1, <2>1, TomaMove DEF Reparar, NoItem, Passos, Registrados
  <2>. QED
    BY <2>2 DEF EmDia, CopiaAtual, LinhaDevida, Travado
<1>2. CASE FimDoReparo(p)
  <2>1. /\ etapa[p] = "reparo" /\ restam[p] = {} /\ registro' = registro /\ memoria' = memoria
        /\ etapa'[p] = "visita" /\ passo'[p] = "item" /\ restam'[p] = Vivos(memoria[p])
        /\ Registrados' = Registrados
    BY <1>2, EntraMove, VivosTipados DEF FimDoReparo, FimDaLista, Etapas, Registrados
  <2>. QED
    BY <2>1 DEF EmDia, CopiaAtual, LinhaDevida, Travado
<1>3. CASE FimDaVisita(p)
  <2>1. /\ etapa[p] = "visita" /\ passo[p] = "item" /\ registro' = memoria[p] /\ memoria' = memoria
        /\ etapa'[p] = "selagem" /\ passo'[p] = "item" /\ Registrados' = Registrados
        /\ restam'[p] = Com(memoria[p], "LIQUIDADO")
    BY <1>3, EntraMove DEF FimDaVisita, FimDaLista, Etapas, Registrados, Com
  <2>. QED
    BY <2>1 DEF EmDia, CopiaAtual, LinhaDevida, Travado
<1>4. CASE (\E c \in Claims : SelarLiquidacao(p, c)) \/ NaoSela(p)
  <2>1. /\ etapa[p] = "selagem" /\ passo[p] = "item" /\ etapa'[p] = "selagem" /\ passo'[p] = "item"
        /\ registro' = registro /\ memoria' = memoria /\ Registrados' = Registrados
        /\ restam'[p] \subseteq restam[p]
    BY <1>4, ConcluiMove DEF SelarLiquidacao, NaoSela, NoItem, Registrados
  <2>. QED
    BY <2>1 DEF EmDia, CopiaAtual, LinhaDevida, Travado
<1>5. CASE FimDaResolucao(p)
  <2>1. etapa'[p] = "ocioso" /\ passo'[p] = "item"
    BY <1>5, EntraMove DEF FimDaResolucao, Termina, Etapas
  <2>. QED
    BY <2>1, EmDiaParado
<1>. QED
  BY <1>1, <1>2, <1>3, <1>4, <1>5, EmDiaAnexacao, EmDiaVisitar, EmDiaEmitir DEF Resolver

(* A repricing reads the registry, changes one live market of its copy and *)
(* writes the copy back; the copy a round walks falls behind by that.      *)
LEMMA EmDiaReprecificar ==
  ASSUME TypeOK, AusenteNaoMove, NEW p \in Processos, EmCurso(p), EmDia(p), Reprecificar(p)
  PROVE  EmDia(p)'
<1>. USE DEF disco, copias
<1>0. EmCurso(p)' /\ trava' = trava /\ etapa[p] \notin Travado
  BY OrdemReprecificar
<1>1. etapa'[p] \notin Travado
  BY <1>0 DEF EmCurso
<1>2. LinhaDevida(p)'
  BY <1>1 DEF LinhaDevida
<1>3. CASE NaoMove(p) \/ Recusar(p)
  <2>1. PICK e \in Precos, c \in Claims : NoItem(p, e, c) /\ Conclui(p, c)
    BY <1>3 DEF NaoMove, Recusar
  <2>2. /\ etapa'[p] = etapa[p] /\ etapa[p] \in Precos /\ passo'[p] = "item"
        /\ registro' = registro /\ memoria' = memoria
    BY <1>3, <2>1, ConcluiMove DEF NaoMove, Recusar, NoItem
  <2>. QED
    BY <1>1, <1>2, <2>2 DEF EmDia, CopiaAtual, Acompanha, Precos
<1>4. CASE Mover(p)
  <2>1. PICK e \in Precos, c \in Vivos(registro) : NoItem(p, e, c) /\ Toma(p, c, "selar")
    BY <1>4 DEF Mover
  <2>2. c \in Claims
    BY VivosTipados
  <2>3. /\ etapa'[p] = etapa[p] /\ etapa[p] \in Precos /\ passo'[p] = "selar" /\ alvo'[p] = c
        /\ registro' = registro /\ memoria' = memoria /\ lido'[p] = registro
    BY <1>4, <2>1, <2>2, TomaMove DEF Mover, NoItem, Passos, TypeOK
  <2>. QED
    BY <1>1, <1>2, <2>1, <2>3 DEF EmDia, CopiaAtual, Acompanha, Precos
<1>5. CASE SelarMudanca(p)
  <2>1. alvo[p] \in Claims /\ etapa[p] \in Precos
    BY <1>5 DEF SelarMudanca, EmCurso
  <2>2. /\ etapa'[p] = etapa[p] /\ passo'[p] = "gravar" /\ alvo'[p] = alvo[p]
        /\ registro' = registro /\ memoria' = memoria
    BY <1>5, <2>1, TomaMove DEF SelarMudanca, Passos
  <2>3. /\ alvo[p] \in Vivos(registro) /\ Acompanha(lido[p])
        /\ \A c \in Claims : registro[c].movimentos \subseteq lido[p][c].movimentos
    BY <1>5 DEF SelarMudanca, EmDia, CopiaAtual
  <2>4. lido[p] \in Registros /\ lido[p][alvo[p]] \in Mercado
    BY <2>1 DEF TypeOK, Registros
  <2>5. /\ lido'[p][alvo[p]].estado = lido[p][alvo[p]].estado
        /\ lido[p][alvo[p]].movimentos \subseteq lido'[p][alvo[p]].movimentos
        /\ \A c \in Claims \ {alvo[p]} : lido'[p][c] = lido[p][c]
    BY <1>5, <2>1, <2>4 DEF SelarMudanca, TypeOK, Registros, Mercado
  <2>6. Acompanha(lido[p])'
    BY <2>1, <2>2, <2>3, <2>5 DEF Acompanha
  <2>7. \A c \in Claims : registro[c].movimentos \subseteq lido'[p][c].movimentos
    BY <2>3, <2>5
  <2>. QED
    BY <1>1, <1>2, <2>1, <2>2, <2>3, <2>6, <2>7 DEF EmDia, CopiaAtual, Acompanha, Precos
<1>6. CASE GravarMudanca(p)
  <2>1. alvo[p] \in Claims /\ etapa[p] \in Precos
    BY <1>6 DEF GravarMudanca, EmCurso
  <2>2. /\ etapa'[p] = etapa[p] /\ passo'[p] = "item"
        /\ registro' = lido[p] /\ memoria' = memoria /\ Acompanha(lido[p])
    BY <1>6, <2>1, ConcluiMove DEF GravarMudanca, EmDia, CopiaAtual
  <2>3. ASSUME Acompanha(memoria[p]) PROVE Acompanha(memoria[p])'
    <3>1. Vivos(registro') = Vivos(registro)
      BY <2>2, TrocaTodos
    <3>. QED
      BY <2>2, <2>3, <3>1 DEF Acompanha
  <2>. QED
    BY <1>1, <1>2, <2>1, <2>2, <2>3 DEF EmDia, CopiaAtual, Precos
<1>7. CASE FimDaRodada(p) \/ FimDaReprecificacao(p) \/ SelagemLevanta(p)
  <2>1. etapa'[p] = "ocioso" /\ passo'[p] = "item"
    BY <1>7, EntraMove DEF FimDaRodada, FimDaReprecificacao, SelagemLevanta, Termina, Etapas
  <2>. QED
    BY <2>1, EmDiaParado
<1>. QED
  BY <1>3, <1>4, <1>5, <1>6, <1>7 DEF Reprecificar

LEMMA EmDiaPreservado ==
  ASSUME IInv, SInv, UmPorVez, IInv', UmPorVez', Next
  PROVE  \A p \in Processos : EmDia(p)'
<1>0. /\ TypeOK /\ AusenteNaoMove /\ \A p \in Processos : EmCurso(p) /\ EmDia(p)
  BY DEF IInv, Ordem, SInv, EmDia
<1>1. ASSUME NEW p \in Processos, PassoDe(p) PROVE EmDia(p)'
  <2>1. CASE Emitir(p) \/ Queda(p)
    <3>1. etapa'[p] = "ocioso" /\ passo'[p] = "item"
      BY <1>0, <2>1, EntraMove DEF Emitir, Queda, Termina, Etapas
    <3>. QED
      BY <3>1, EmDiaParado
  <2>. QED
    BY <1>0, <1>1, <2>1, EmDiaIniciar, EmDiaResolver, EmDiaReprecificar DEF PassoDe
<1>2. ASSUME NEW p \in Processos, PassoDe(p), NEW q \in Processos \ {p} PROVE EmDia(q)'
  BY <1>2, OsOutrosOciosos, EmDiaParado
<1>3. CASE Avancar \/ \E c \in Claims : Publicar(c)
  <2>1. UNCHANGED <<cursor, copias, disco>>
    BY <1>3 DEF Avancar, Publicar
  <2>. QED
    BY <1>0, <2>1
       DEF cursor, copias, disco, EmDia, CopiaAtual, LinhaDevida, Acompanha, Registrados
<1>. QED
  BY <1>1, <1>2, <1>3 DEF Next, PassoDe

-----------------------------------------------------------------------------
(* LINES AND SEALS                                                         *)

(* The registry is on disk before its line, and is not changed after it.   *)
LEMMA LedgerFielPreservado ==
  ASSUME IInv, SInv, NEW p \in Processos, PassoDe(p) PROVE LedgerFiel'
<1>0. /\ TypeOK /\ LedgerFiel /\ EmCurso(p) /\ CopiaAtual(p) /\ AusenteNaoMove
      /\ LinhaLiquidada
  BY DEF IInv, Ordem, SInv
<1>1. MantemLiquidados
  BY <1>0, EscritaFiel
<1>2. ASSUME NEW i \in DOMAIN resolucoes
      PROVE  LET c == resolucoes[i].claim
             IN  registro'[c].estado = "LIQUIDADO" /\ resolucoes[i] = Linha(c, registro'[c])
  <2>1. resolucoes[i].claim \in Claims
    <3>1. resolucoes \in Seq(Linhas)
      BY <1>0 DEF TypeOK
    <3>2. resolucoes[i] \in Linhas
      BY <3>1
    <3>. QED
      BY <3>2 DEF Linhas
  <2>. QED
    BY <1>0, <1>1, <2>1 DEF LedgerFiel, MantemLiquidados
<1>3. CASE resolucoes' = resolucoes
  BY <1>2, <1>3 DEF LedgerFiel, Linha
<1>4. CASE AnexarLinha(p)
  <2>. DEFINE l == Linha(alvo[p], memoria[p][alvo[p]])
  <2>1. /\ DOMAIN resolucoes' = DOMAIN resolucoes \cup {Len(resolucoes) + 1}
        /\ resolucoes'[Len(resolucoes) + 1] = l /\ l.claim = alvo[p]
        /\ \A i \in DOMAIN resolucoes : resolucoes'[i] = resolucoes[i]
    BY <1>0, <1>4, LinhaAnexada
  <2>2. memoria[p] = registro /\ registro' = registro
    BY <1>0, <1>4 DEF AnexarLinha, EmCurso, CopiaAtual, Travado
  <2>3. memoria[p][alvo[p]].estado = "LIQUIDADO"
    BY <1>0, <1>4 DEF AnexarLinha, LinhaLiquidada
  <2>4. registro'[l.claim].estado = "LIQUIDADO" /\ l = Linha(l.claim, registro'[l.claim])
    BY <2>1, <2>2, <2>3
  <2>. HIDE DEF l
  <2>5. \A i \in DOMAIN resolucoes' :
          /\ registro'[resolucoes'[i].claim].estado = "LIQUIDADO"
          /\ resolucoes'[i] = Linha(resolucoes'[i].claim, registro'[resolucoes'[i].claim])
    BY <1>2, <2>1, <2>4
  <2>. QED
    BY <2>5 DEF LedgerFiel, Linha
<1>. QED
  BY <1>3, <1>4, ResolucoesMudam

LEMMA SeladosMudam ==
  ASSUME NEW p \in Processos, PassoDe(p)
  PROVE  selados' = selados \/ \E c \in Claims : SelarLiquidacao(p, c)
<1>. USE DEF cadeia
<1>1. CASE Iniciar(p)
  BY <1>1 DEF Iniciar, IniciarResolucao, IniciarRodada, IniciarReprecificacao, IniciarEmissao
<1>2. CASE Resolver(p)
  BY <1>2 DEF Resolver, Anexacao, Reparar, LinhaExiste, LinhaFalta, AnexarLinha, FimDoReparo,
              Visitar, Aguardar, ErroDeFonte, SemPublicacao, Liquidar, EmitirSeguinte, JaEmitido,
              NaoEmitido, SemEmissao, FimDaVisita, NaoSela, FimDaResolucao
<1>3. CASE Reprecificar(p)
  BY <1>3 DEF Reprecificar, NaoMove, Recusar, Mover, SelarMudanca, GravarMudanca, FimDaRodada,
              FimDaReprecificacao, SelagemLevanta
<1>4. CASE Emitir(p) \/ Queda(p)
  BY <1>4 DEF Emitir, Queda
<1>. QED
  BY <1>1, <1>2, <1>3, <1>4 DEF PassoDe

(* The sweep seals what the registry in memory says: by then every settled *)
(* market has its line, and the line says the same.                        *)
LEMMA SelagemFielPreservada ==
  ASSUME IInv, SInv, NEW p \in Processos, PassoDe(p) PROVE SelagemFiel'
<1>0. /\ TypeOK /\ LedgerFiel /\ SelagemFiel /\ EmCurso(p) /\ CopiaAtual(p) /\ LinhaDevida(p)
  BY DEF IInv, Ordem, SInv
<1>1. \A i \in DOMAIN resolucoes : i \in DOMAIN resolucoes' /\ resolucoes'[i] = resolucoes[i]
  <2>1. CASE AnexarLinha(p)
    BY <1>0, <2>1, LinhaAnexada
  <2>. QED
    BY <2>1, ResolucoesMudam
<1>2. CASE selados' = selados
  BY <1>0, <1>1, <1>2 DEF SelagemFiel
<1>3. ASSUME NEW c \in Claims, SelarLiquidacao(p, c) PROVE SelagemFiel'
  <2>. DEFINE l == Linha(c, memoria[p][c])
  <2>1. /\ NoItem(p, "selagem", c) /\ selados' = [selados EXCEPT ![c] = l]
        /\ selados[c] \in {Nenhum, l}
    BY <1>3 DEF SelarLiquidacao
  <2>2. memoria[p] = registro /\ Com(registro, "LIQUIDADO") \subseteq Registrados
    BY <1>0, <2>1 DEF NoItem, CopiaAtual, LinhaDevida, Travado
  <2>3. registro[c].estado = "LIQUIDADO"
    BY <1>0, <2>1 DEF NoItem, CopiaAtual, Com
  <2>4. \E i \in DOMAIN resolucoes : resolucoes[i] = l
    BY <1>0, <2>2, <2>3 DEF Com, Registrados, LedgerFiel
  <2>. HIDE DEF l
  <2>5. selados'[c] = l /\ \A d \in Claims \ {c} : selados'[d] = selados[d]
    BY <1>0, <2>1 DEF TypeOK
  <2>. QED
    BY <1>0, <1>1, <2>4, <2>5 DEF SelagemFiel
<1>. QED
  BY <1>2, <1>3, SeladosMudam

-----------------------------------------------------------------------------
(* THE INVARIANT                                                           *)

LEMMA InitSInv == Init => SInv
<1>. SUFFICES ASSUME Init PROVE SInv
  OBVIOUS
<1>1. ASSUME NEW p \in Processos PROVE CopiaAtual(p) /\ LinhaDevida(p)
  BY DEF Init, CopiaAtual, LinhaDevida, Travado
<1>2. AusenteNaoMove
  BY DEF Init, AusenteNaoMove, Com, Novo
<1>3. LedgerFiel /\ SelagemFiel
  BY DEF Init, LedgerFiel, SelagemFiel
<1>. QED
  BY <1>1, <1>2, <1>3 DEF SInv

LEMMA SInvPreservado ==
  ASSUME IInv, SInv, UmPorVez, IInv', UmPorVez', [Next]_vars PROVE SInv'
<1>0. TypeOK /\ AusenteNaoMove /\ \A p \in Processos : EmCurso(p) /\ CopiaAtual(p)
  BY DEF IInv, Ordem, SInv
<1>1. ASSUME NEW p \in Processos, PassoDe(p)
      PROVE  AusenteNaoMove' /\ LedgerFiel' /\ SelagemFiel'
  BY <1>0, <1>1, EscritaFiel, LedgerFielPreservado, SelagemFielPreservada
<1>2. CASE Next
  <2>1. \A p \in Processos : EmDia(p)'
    BY <1>2, EmDiaPreservado
  <2>2. AusenteNaoMove' /\ LedgerFiel' /\ SelagemFiel'
    <3>1. CASE Avancar \/ \E c \in Claims : Publicar(c)
      <4>1. UNCHANGED <<disco, selados>>
        BY <3>1 DEF Avancar, Publicar, cadeia
      <4>. QED
        BY <4>1 DEF disco, SInv, AusenteNaoMove, LedgerFiel, SelagemFiel, Com, Linha
    <3>. QED
      BY <1>1, <1>2, <3>1 DEF Next, PassoDe
  <2>. QED
    BY <2>1, <2>2 DEF SInv, EmDia
<1>3. CASE UNCHANGED vars
  <2>. USE <1>3 DEF vars, mundo, disco, cadeia, cursor, copias
  <2>1. ASSUME NEW p \in Processos PROVE CopiaAtual(p)' /\ LinhaDevida(p)'
    BY DEF SInv, CopiaAtual, LinhaDevida, Acompanha, Vivos, Com, Registrados
  <2>2. AusenteNaoMove' /\ LedgerFiel' /\ SelagemFiel'
    BY DEF SInv, AusenteNaoMove, LedgerFiel, SelagemFiel, Com, Linha
  <2>. QED
    BY <2>1, <2>2 DEF SInv
<1>. QED
  BY <1>2, <1>3

LEMMA SerialEhSpec == SpecSerial => Spec
<1>1. [Next /\ UmPorVez']_vars => [Next]_vars
  OBVIOUS
<1>. QED
  BY <1>1, PTL DEF Spec, SpecSerial

(* While no command overlaps another, the copy in memory of the one that   *)
(* runs (resolver_pendentes, rodada, markets-emitir) misses nothing that   *)
(* its write would undo.                                                   *)
THEOREM InvarianteSerial == SpecSerial => [](UmPorVez /\ SInv)
<1>1. Init => UmPorVez
  BY DEF Init, UmPorVez
<1>2. UmPorVez /\ [Next /\ UmPorVez']_vars => UmPorVez'
  BY DEF UmPorVez, vars, cursor
<1>3. IInv /\ IInv' /\ UmPorVez /\ UmPorVez' /\ SInv /\ [Next]_vars => SInv'
  BY SInvPreservado
<1>. QED
  BY <1>1, <1>2, <1>3, SerialEhSpec, Invariante, InitSInv, PTL DEF Spec, SpecSerial

(* Commands that do not overlap leave no line in resolucoes.jsonl that the *)
(* registry does not carry: _apendar_resolucao comes after _salvar, and no *)
(* later write of rodada or markets-emitir takes the settlement back.      *)
THEOREM LedgerSempreFiel == SpecSerial => []LedgerFiel
<1>1. SInv => LedgerFiel
  BY DEF SInv
<1>. QED
  BY <1>1, InvarianteSerial, PTL

(* What the sealing sweep of live.py puts in the chain is a line of the    *)
(* ledger, also when the round that settled the claim died before it could *)
(* append the line: the repair pass runs first.                            *)
THEOREM SelagemSempreFiel == SpecSerial => []SelagemFiel
<1>1. SInv => SelagemFiel
  BY DEF SInv
<1>. QED
  BY <1>1, InvarianteSerial, PTL

(* What one step does to the registry.                                     *)
LEMMA PassoFiel ==
  ASSUME IInv, SInv, [Next]_vars
  PROVE  MantemLiquidados /\ (MantemMovimentos \/ \E p \in Processos : FimDaRodada(p))
<1>1. CASE registro' = registro
  BY <1>1 DEF MantemLiquidados, MantemMovimentos
<1>2. ASSUME NEW p \in Processos, PassoDe(p)
      PROVE  MantemLiquidados /\ (MantemMovimentos \/ FimDaRodada(p))
  BY <1>2, EscritaFiel DEF IInv, Ordem, SInv
<1>3. CASE Avancar \/ (\E c \in Claims : Publicar(c)) \/ UNCHANGED vars
  BY <1>1, <1>3 DEF Avancar, Publicar, vars, disco
<1>. QED
  BY <1>2, <1>3 DEF Next, PassoDe

(* "LIQUIDADO e terminal" (live.py), for commands that do not overlap:     *)
(* neither the rewriting of the whole registry by rodada at its end, nor   *)
(* by reprecificar after its seal, nor a death in between, takes a         *)
(* settlement back.                                                        *)
THEOREM LiquidadoSempreTerminal == SpecSerial => LiquidadoTerminal
<1>. DEFINE Passo == \A c \in Claims : registro[c].estado = "LIQUIDADO" => registro'[c] = registro[c]
<1>1. IInv /\ SInv /\ [Next]_vars => [Passo]_registro
  BY PassoFiel DEF MantemLiquidados
<1>2. SpecSerial => [][Passo]_registro
  BY <1>1, SerialEhSpec, Invariante, InvarianteSerial, PTL DEF Spec
<1>. QED
  BY <1>2 DEF LiquidadoTerminal

(* For commands that do not overlap, a repricing leaves the registry only  *)
(* with the write rodada makes at its end (reprecificar.py).               *)
THEOREM SoRodadaDesfazSempre == SpecSerial => SoRodadaDesfaz
<1>. DEFINE Passo == \/ \A c \in Claims : registro[c].movimentos \subseteq registro'[c].movimentos
                     \/ \E p \in Processos : FimDaRodada(p)
<1>1. IInv /\ SInv /\ [Next]_vars => [Passo]_registro
  BY PassoFiel DEF MantemMovimentos
<1>2. SpecSerial => [][Passo]_registro
  BY <1>1, SerialEhSpec, Invariante, InvarianteSerial, PTL DEF Spec
<1>. QED
  BY <1>2 DEF SoRodadaDesfaz
==============================================================================
