--------------------------- MODULE MCCorrenteLocal ---------------------------
(* Small instances of CorrenteLocal for TLC. *)
EXTENDS CorrenteLocal, TLC

Simetria ==
  Permutations(Ids) \cup Permutations(Processos)
    \cup Permutations(Conteudos) \cup Permutations(Correlacoes)
=============================================================================
