---------------------------- MODULE MCLojasSeladas ----------------------------
(* The registries: two stores of one directory under one lock, a strict    *)
(* one (versions) and one that keeps the first record (runs, which refer   *)
(* to versions), and a store of points under its own.                      *)
EXTENDS LojasSeladas, TLC

CONSTANTS p1, p2, p3, versao, corrida, ponto, a, b

MCLojas == {"versoes", "corridas", "serie"}
MCTravaDe == "versoes" :> "ml" @@ "corridas" :> "ml" @@ "serie" :> "serie"
MCPastaDe == "versoes" :> "mlops" @@ "corridas" :> "mlops" @@ "serie" :> "markets"
MCLoja == versao :> "versoes" @@ corrida :> "corridas" @@ ponto :> "serie"
MCReferencia == versao :> "nenhuma" @@ corrida :> versao @@ ponto :> "nenhuma"

(* The redactions: one store, whose lines have several identities.         *)
UmaTravaDe == "versoes" :> "ml"
UmaPastaDe == "versoes" :> "mlops"
UmaLoja == [i \in {versao, corrida} |-> "versoes"]
SemReferencia == [i \in {versao, corrida} |-> "nenhuma"]

Simetria == Permutations({p1, p2, p3})
=============================================================================
