-------------------------------- MODULE Merkle --------------------------------
(***************************************************************************)
(* Merkle trees of the audit core (audit/merkle.py): the tree a batch is   *)
(* built from, the proof of one leaf and its verification.  Keccak is      *)
(* taken to be injective, so a hash is represented by what was hashed:     *)
(* leaves and nodes are different terms (the prefixes 0x00 and 0x01), and  *)
(* a node is the set of its children (they are sorted before hashing).     *)
(***************************************************************************)
EXTENDS Naturals, Sequences

Folha(h) == <<"folha", h>>

No(a, b) == <<"no", {a, b}>>

(* The level above: pairs from the left, an odd last one with itself.      *)
Acima(nivel) ==
  [i \in 1..((Len(nivel) + 1) \div 2) |->
     No(nivel[2 * i - 1], IF 2 * i <= Len(nivel) THEN nivel[2 * i] ELSE nivel[2 * i - 1])]

(* The levels, from the leaves up.                                         *)
Niveis(hs) ==
  LET n[k \in 0..Len(hs)] ==
        IF k = 0 THEN [i \in 1..Len(hs) |-> Folha(hs[i])] ELSE Acima(n[k - 1])
  IN  n

(* Levels are added while the last one has more than one node.             *)
Altura(hs) ==
  LET n == Niveis(hs)
  IN  CHOOSE k \in 0..Len(hs) : Len(n[k]) = 1 /\ \A j \in 0..(k - 1) : Len(n[j]) > 1

Raiz(hs) == Niveis(hs)[Altura(hs)][1]

(* Where leaf i of a tree of height a stands at each level, and who is     *)
(* next to it: position xor 1, or itself at the odd end of the level.      *)
Posicoes(i, a) ==
  LET p[k \in 0..a] == IF k = 0 THEN i ELSE (p[k - 1] + 1) \div 2
  IN  p

VizinhoADireita(nivel, p) == IF p + 1 <= Len(nivel) THEN p + 1 ELSE p    \* mutant
Vizinho(nivel, p) ==
  IF p % 2 = 0 THEN p - 1
  ELSE IF p + 1 <= Len(nivel) THEN p + 1 ELSE p

(* The proof of leaf i: the leaf, its siblings from below, the root.       *)
Prova(hs, i) ==
  LET n == Niveis(hs)
      a == Altura(hs)
      p == Posicoes(i, a)
  IN  [folha  |-> Folha(hs[i]),
       irmaos |-> [k \in 1..a |-> n[k - 1][Vizinho(n[k - 1], p[k - 1])]],
       raiz   |-> Raiz(hs)]

(* verify_proof: hash the leaf up through its siblings.                    *)
Subidas(h, irmaos) ==
  LET v[k \in 0..Len(irmaos)] ==
        IF k = 0 THEN Folha(h) ELSE No(v[k - 1], irmaos[k])
  IN  v

Verifica(h, prova) ==
  /\ prova.folha = Folha(h)
  /\ Subidas(h, prova.irmaos)[Len(prova.irmaos)] = prova.raiz
=============================================================================
