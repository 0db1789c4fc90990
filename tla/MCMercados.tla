------------------------------ MODULE MCMercados ------------------------------
(* Small instances of Mercados for TLC, and the fairness of its cron. *)
EXTENDS Mercados, TLC

Simetria == Permutations(Processos) \cup Permutations(Valores) \cup Permutations(Areas)

(* The cron starts the resolver again and again, whatever else was started *)
(* before; a step of the command in progress is taken; the source and the  *)
(* auditor do not fail every time they are asked about a claim.            *)
Justica ==
  \A p \in Processos :
    /\ SF_vars(IniciarResolucao(p))
    /\ WF_vars(Resolver(p)) /\ WF_vars(Reprecificar(p)) /\ WF_vars(Emitir(p))
    /\ \A c \in Claims : SF_vars(Liquidar(p, c)) /\ SF_vars(SelarLiquidacao(p, c))

SpecJusta == Spec /\ Justica

(* What settled gets its line and its seal, also when the round that       *)
(* settled it died before the append or before the sweep: the repair pass  *)
(* and the sweep of a later round make up for it.                          *)
LiquidacaoChega ==
  \A c \in Claims :
    registro[c].estado = "LIQUIDADO" ~> (c \in Registrados /\ selados[c] # Nenhum)

(* A market whose month is over and whose value is published is settled.   *)
PrazoLiquida ==
  \A c \in Claims :
    (c \in Vivos(registro) /\ hoje > Mes(c) /\ fonte[c] # Nenhum)
      ~> registro[c].estado = "LIQUIDADO"
=============================================================================
