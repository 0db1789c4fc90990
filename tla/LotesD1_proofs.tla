---------------------------- MODULE LotesD1_proofs ----------------------------
(***************************************************************************)
(* Proofs about LotesD1, for every number of commands, every window and    *)
(* every length of the chains: first that a proof of a Merkle tree serves  *)
(* its leaf and no other, by induction on the levels of the tree; then     *)
(* that native batches go on where another ends, and that every root that  *)
(* is served is in the contract.                                           *)
(***************************************************************************)
EXTENDS LotesD1, TLAPS, WellFoundedInduction

(* A set of numbers has a least one.                                       *)
LEMMA Menor ==
  ASSUME NEW S, S \subseteq Nat, S # {}
  PROVE  \E m \in S : \A k \in S : m <= k
<1>1. PICK m \in S : \A k \in S : ~(<<k, m>> \in OpToRel(<, Nat))
  BY NatLessThanWellFounded, WFMin
<1>2. \A k \in S : ~(k < m)
  BY <1>1, Zenon DEF OpToRel
<1>. QED
  BY <1>2

(* Induction, for a set that stands for what holds of a number.            *)
LEMMA Inducao ==
  ASSUME NEW S, 0 \in S, \A k \in Nat : k \in S => k + 1 \in S
  PROVE  \A k \in Nat : k \in S
<1>. DEFINE T == {k \in Nat : k \notin S}
<1>1. SUFFICES ASSUME T # {} PROVE FALSE
  OBVIOUS
<1>2. PICK m \in T : \A k \in T : m <= k
  BY <1>1, Menor
<1>3. m \in Nat \ {0} /\ m - 1 \in Nat /\ ~(m <= m - 1) /\ m = (m - 1) + 1
  OBVIOUS
<1>4. m - 1 \in S
  BY <1>2, <1>3
<1>. QED
  BY <1>3, <1>4

-----------------------------------------------------------------------------
(* THE TREE                                                                *)

Folhas(hs) == [i \in 1..Len(hs) |-> Folha(hs[i])]

(* What the loop of MerkleTree.__init__ builds: there is such a function,  *)
(* because each level is made from the one before it.                      *)
LEMMA NiveisDef ==
  ASSUME NEW hs, NEW N \in Nat, N = Len(hs)
  PROVE  /\ Niveis(hs)[0] = Folhas(hs)
         /\ \A k \in 1..N : Niveis(hs)[k] = Acima(Niveis(hs)[k - 1])
<1>. DEFINE Recorre(n, m) == n = [k \in 0..m |-> IF k = 0 THEN Folhas(hs) ELSE Acima(n[k - 1])]
            S == {m \in Nat : \E n : Recorre(n, m)}
<1>1. 0 \in S
  <2>. DEFINE n == [k \in 0..0 |-> Folhas(hs)]
  <2>1. Recorre(n, 0)
    OBVIOUS
  <2>. QED
    BY <2>1
<1>2. ASSUME NEW m \in Nat, m \in S PROVE m + 1 \in S
  <2>1. PICK n : Recorre(n, m)
    BY <1>2
  <2>. DEFINE r == [k \in 0..(m + 1) |-> IF k = m + 1 THEN Acima(n[m]) ELSE n[k]]
  <2>2. ASSUME NEW k \in 0..(m + 1)
        PROVE  r[k] = IF k = 0 THEN Folhas(hs) ELSE Acima(r[k - 1])
    <3>1. CASE k = m + 1
      BY <3>1
    <3>2. CASE k = 0
      BY <2>1, <3>2
    <3>3. CASE k \in 1..m
      BY <2>1, <3>3
    <3>. QED
      BY <3>1, <3>2, <3>3
  <2>3. Recorre(r, m + 1)
    BY <2>2
  <2>. HIDE DEF r, Recorre
  <2>. QED
    BY <2>3
<1>3. N \in S
  <2>. HIDE DEF S
  <2>. QED
    BY <1>1, <1>2, Inducao
<1>4. PICK n : Recorre(n, N)
  BY <1>3
<1>5. Niveis(hs) = CHOOSE f : Recorre(f, N)
  BY Zenon DEF Niveis, Folhas
<1>6. Recorre(Niveis(hs), N)
  <2>. HIDE DEF Recorre
  <2>. QED
    BY <1>4, <1>5, Zenon
<1>. QED
  BY <1>6

(* A level has half the nodes of the one below, rounded up.                *)
LEMMA AcimaMetade ==
  ASSUME NEW nivel, NEW N \in Nat, N = Len(nivel)
  PROVE  /\ Len(Acima(nivel)) = (N + 1) \div 2
         /\ \A q \in 1..((N + 1) \div 2) : Acima(nivel)[q] =
              No(nivel[2 * q - 1], IF 2 * q <= N THEN nivel[2 * q] ELSE nivel[2 * q - 1])
BY DEF Acima

(* Levels shrink until one node is left.                                   *)
LEMMA Alturas ==
  ASSUME NEW hs, NEW N \in Nat \ {0}, N = Len(hs)
  PROVE  \A k \in 0..N :
           /\ Len(Niveis(hs)[k]) \in Nat \ {0}
           /\ Len(Niveis(hs)[k]) = 1 \/ Len(Niveis(hs)[k]) + k <= N
<1>. DEFINE n == Niveis(hs)
            Bom(k) == Len(n[k]) \in Nat \ {0} /\ (Len(n[k]) = 1 \/ Len(n[k]) + k <= N)
            S == {k \in Nat : k <= N => Bom(k)}
<1>. HIDE DEF n
<1>0. n[0] = Folhas(hs) /\ \A k \in 1..N : n[k] = Acima(n[k - 1])
  BY NiveisDef DEF n
<1>1. 0 \in S
  <2>1. Len(n[0]) = N
    BY <1>0 DEF Folhas
  <2>. QED
    BY <2>1
<1>2. ASSUME NEW k \in Nat, k \in S PROVE k + 1 \in S
  <2>1. ASSUME k + 1 <= N PROVE Bom(k + 1)
    <3>1. Bom(k) /\ n[k + 1] = Acima(n[k])
      BY <1>0, <1>2, <2>1
    <3>. DEFINE t == Len(n[k])
    <3>2. Len(n[k + 1]) = (t + 1) \div 2 /\ t \in Nat \ {0} /\ (t = 1 \/ t + k <= N)
      BY <3>1, AcimaMetade
    <3>. HIDE DEF t
    <3>. QED
      BY <3>2
  <2>. HIDE DEF Bom
  <2>. QED
    BY <2>1
<1>3. \A k \in Nat : k \in S
  <2>. HIDE DEF S
  <2>. QED
    BY <1>1, <1>2, Inducao
<1>. QED
  BY <1>3 DEF n

(* The loop of MerkleTree.__init__ ends, at a level of one node.           *)
LEMMA AlturaAcaba ==
  ASSUME NEW hs, NEW N \in Nat \ {0}, N = Len(hs)
  PROVE  /\ Altura(hs) \in 0..N /\ Len(Niveis(hs)[Altura(hs)]) = 1
         /\ \A j \in 0..(Altura(hs) - 1) : Len(Niveis(hs)[j]) > 1
<1>. DEFINE n == Niveis(hs)
            S == {k \in 0..N : Len(n[k]) = 1}
<1>1. \A k \in 0..N : Len(n[k]) \in Nat \ {0} /\ (Len(n[k]) = 1 \/ Len(n[k]) + k <= N)
  BY Alturas
<1>. HIDE DEF n
<1>2. N \in S
  BY <1>1
<1>7. S # {} /\ S \subseteq Nat
  BY <1>2
<1>3. PICK m \in S : \A k \in S : m <= k
  <2>. HIDE DEF S
  <2>. QED
    BY <1>7, Menor
<1>4. m \in 0..N /\ Len(n[m]) = 1 /\ \A j \in 0..(m - 1) : Len(n[j]) > 1
  <2>1. m \in 0..N /\ Len(n[m]) = 1
    BY <1>3
  <2>2. ASSUME NEW j \in 0..(m - 1) PROVE Len(n[j]) > 1
    <3>1. j \in 0..N /\ ~(m <= j)
      BY <2>1
    <3>2. j \notin S
      BY <1>3, <3>1
    <3>3. Len(n[j]) \in Nat \ {0} /\ Len(n[j]) # 1
      BY <1>1, <3>1, <3>2
    <3>4. \A x \in Nat \ {0} : x # 1 => x > 1
      OBVIOUS
    <3>. QED
      BY <3>3, <3>4, Zenon
  <2>. QED
    BY <2>1, <2>2
<1>5. Altura(hs) = CHOOSE k \in 0..N : Len(n[k]) = 1 /\ \A j \in 0..(k - 1) : Len(n[j]) > 1
  BY Zenon DEF Altura, n
<1>. HIDE DEF S
<1>6. /\ Altura(hs) \in 0..N /\ Len(n[Altura(hs)]) = 1
      /\ \A j \in 0..(Altura(hs) - 1) : Len(n[j]) > 1
  BY <1>4, <1>5, Zenon
<1>. QED
  BY <1>6 DEF n

(* The positions the loop of MerkleTree.proof goes through.                *)
LEMMA PosicoesDef ==
  ASSUME NEW i \in Nat, NEW a \in Nat
  PROVE  /\ Posicoes(i, a)[0] = i
         /\ \A k \in 1..a : Posicoes(i, a)[k] = (Posicoes(i, a)[k - 1] + 1) \div 2
<1>. DEFINE Recorre(p, m) == p = [k \in 0..m |-> IF k = 0 THEN i ELSE (p[k - 1] + 1) \div 2]
            S == {m \in Nat : \E p : Recorre(p, m)}
<1>1. 0 \in S
  <2>. DEFINE p == [k \in 0..0 |-> i]
  <2>1. Recorre(p, 0)
    OBVIOUS
  <2>. QED
    BY <2>1
<1>2. ASSUME NEW m \in Nat, m \in S PROVE m + 1 \in S
  <2>1. PICK p : Recorre(p, m)
    BY <1>2
  <2>. DEFINE r == [k \in 0..(m + 1) |-> IF k = m + 1 THEN (p[m] + 1) \div 2 ELSE p[k]]
  <2>2. ASSUME NEW k \in 0..(m + 1)
        PROVE  r[k] = IF k = 0 THEN i ELSE (r[k - 1] + 1) \div 2
    <3>1. CASE k = m + 1
      BY <3>1
    <3>2. CASE k = 0
      BY <2>1, <3>2
    <3>3. CASE k \in 1..m
      BY <2>1, <3>3
    <3>. QED
      BY <3>1, <3>2, <3>3
  <2>3. Recorre(r, m + 1)
    BY <2>2
  <2>. HIDE DEF r, Recorre
  <2>. QED
    BY <2>3
<1>3. a \in S
  <2>. HIDE DEF S
  <2>. QED
    BY <1>1, <1>2, Inducao
<1>4. PICK p : Recorre(p, a)
  BY <1>3
<1>5. Posicoes(i, a) = CHOOSE f : Recorre(f, a)
  BY Zenon DEF Posicoes
<1>6. Recorre(Posicoes(i, a), a)
  <2>. HIDE DEF Recorre
  <2>. QED
    BY <1>4, <1>5, Zenon
<1>. QED
  BY <1>6

(* A leaf stands at every level at one of its nodes.                       *)
LEMMA PosicaoNoNivel ==
  ASSUME NEW hs, NEW N \in Nat \ {0}, N = Len(hs), NEW i \in 1..N, NEW a \in 0..N
  PROVE  \A k \in 0..a : Posicoes(i, a)[k] \in 1..Len(Niveis(hs)[k])
<1>. DEFINE n == Niveis(hs)
            p == Posicoes(i, a)
            S == {k \in Nat : k <= a => p[k] \in 1..Len(n[k])}
<1>0. /\ n[0] = Folhas(hs) /\ \A k \in 1..N : n[k] = Acima(n[k - 1])
      /\ p[0] = i /\ \A k \in 1..a : p[k] = (p[k - 1] + 1) \div 2
  BY NiveisDef, PosicoesDef
<1>9. \A k \in 0..N : Len(n[k]) \in Nat \ {0}
  BY Alturas
<1>. HIDE DEF n, p
<1>1. 0 \in S
  <2>1. Len(n[0]) = N
    BY <1>0 DEF Folhas
  <2>. QED
    BY <1>0, <2>1
<1>2. ASSUME NEW k \in Nat, k \in S PROVE k + 1 \in S
  <2>1. ASSUME k + 1 <= a PROVE p[k + 1] \in 1..Len(n[k + 1])
    <3>. DEFINE t == Len(n[k])
                q == p[k]
    <3>1. /\ t \in Nat /\ q \in 1..t /\ p[k + 1] = (q + 1) \div 2 /\ n[k + 1] = Acima(n[k])
      BY <1>0, <1>9, <1>2, <2>1
    <3>2. Len(n[k + 1]) = (t + 1) \div 2
      BY <3>1, AcimaMetade
    <3>. HIDE DEF t, q
    <3>. QED
      BY <3>1, <3>2
  <2>. QED
    BY <2>1
<1>3. \A k \in Nat : k \in S
  <2>. HIDE DEF S
  <2>. QED
    BY <1>1, <1>2, Inducao
<1>. QED
  BY <1>3 DEF n, p

(* A node and its sibling are the children of the node above them.         *)
LEMMA IrmaosDoMesmoNo ==
  ASSUME NEW nivel, NEW t \in Nat, t = Len(nivel), NEW q \in 1..t
  PROVE  Acima(nivel)[(q + 1) \div 2] = No(nivel[q], nivel[Vizinho(nivel, q)])
<1>. DEFINE r == (q + 1) \div 2
<1>1. r \in 1..((t + 1) \div 2)
  OBVIOUS
<1>2. Acima(nivel)[r] = No(nivel[2 * r - 1], IF 2 * r <= t THEN nivel[2 * r] ELSE nivel[2 * r - 1])
  BY <1>1, AcimaMetade
<1>3. CASE q % 2 = 0
  <2>1. 2 * r = q
    BY <1>3
  <2>2. Acima(nivel)[r] = No(nivel[q - 1], nivel[q]) /\ Vizinho(nivel, q) = q - 1
    BY <1>2, <1>3, <2>1 DEF Vizinho
  <2>. QED
    BY <2>2 DEF No
<1>4. CASE q % 2 # 0
  <2>1. 2 * r = q + 1
    BY <1>4
  <2>. QED
    BY <1>2, <1>4, <2>1 DEF Vizinho
<1>. QED
  BY <1>3, <1>4

(* Hashing the leaf up through its siblings walks its nodes, level by      *)
(* level.                                                                  *)
LEMMA SobePelosNos ==
  ASSUME NEW hs, NEW N \in Nat \ {0}, N = Len(hs), NEW i \in 1..N,
         NEW a \in 0..N, NEW irmaos, a = Len(irmaos),
         \A k \in 1..a : irmaos[k] = Niveis(hs)[k - 1][Vizinho(Niveis(hs)[k - 1], Posicoes(i, a)[k - 1])]
  PROVE  Subidas(hs[i], irmaos)[a] = Niveis(hs)[a][Posicoes(i, a)[a]]
<1>. DEFINE n == Niveis(hs)
            p == Posicoes(i, a)
            Recorre(v) == v = [k \in 0..a |-> IF k = 0 THEN Folha(hs[i]) ELSE No(v[k - 1], irmaos[k])]
            nos == [k \in 0..a |-> n[k][p[k]]]
<1>0. /\ \A k \in 1..a : n[k] = Acima(n[k - 1])
      /\ \A k \in 1..a : p[k] = (p[k - 1] + 1) \div 2
  <2>1. i \in Nat /\ a \in Nat /\ \A k \in 1..a : k \in 1..N
    OBVIOUS
  <2>2. \A k \in 1..N : n[k] = Acima(n[k - 1])
    BY NiveisDef
  <2>3. \A k \in 1..a : p[k] = (p[k - 1] + 1) \div 2
    BY <2>1, PosicoesDef
  <2>. HIDE DEF n, p
  <2>. QED
    BY <2>1, <2>2, <2>3
<1>1. Recorre(nos)
  <2>1. n[0] = Folhas(hs) /\ p[0] = i
    BY NiveisDef, PosicoesDef
  <2>2. ASSUME NEW k \in 1..a PROVE n[k][p[k]] = No(n[k - 1][p[k - 1]], irmaos[k])
    <3>1. n[k] = Acima(n[k - 1]) /\ p[k] = (p[k - 1] + 1) \div 2
      BY <1>0
    <3>2. k - 1 \in 0..a /\ k - 1 \in 0..N
      OBVIOUS
    <3>3. Len(n[k - 1]) \in Nat /\ p[k - 1] \in 1..Len(n[k - 1])
      BY <3>2, Alturas, PosicaoNoNivel
    <3>. HIDE DEF n, p
    <3>4. Acima(n[k - 1])[(p[k - 1] + 1) \div 2] = No(n[k - 1][p[k - 1]], n[k - 1][Vizinho(n[k - 1], p[k - 1])])
      BY <3>3, IrmaosDoMesmoNo
    <3>. QED
      BY <3>1, <3>4 DEF n, p
  <2>. HIDE DEF n, p
  <2>3. ASSUME NEW k \in 0..a
        PROVE  n[k][p[k]] = IF k = 0 THEN Folha(hs[i]) ELSE No(nos[k - 1], irmaos[k])
    BY <2>1, <2>2 DEF Folhas
  <2>. QED
    BY <2>3
<1>2. Subidas(hs[i], irmaos) = CHOOSE v : Recorre(v)
  BY Zenon DEF Subidas
<1>3. Recorre(Subidas(hs[i], irmaos))
  <2>. HIDE DEF Recorre, nos
  <2>. QED
    BY <1>1, <1>2, Zenon
<1>. DEFINE v == Subidas(hs[i], irmaos)
            S == {k \in Nat : k <= a => v[k] = nos[k]}
<1>. HIDE DEF v
<1>4. v = [k \in 0..a |-> IF k = 0 THEN Folha(hs[i]) ELSE No(v[k - 1], irmaos[k])]
  BY <1>3 DEF v
<1>5. nos = [k \in 0..a |-> IF k = 0 THEN Folha(hs[i]) ELSE No(nos[k - 1], irmaos[k])]
  BY <1>1
<1>6. \A k \in Nat : k \in S
  <2>. HIDE DEF nos
  <2>1. 0 \in S
    BY <1>4, <1>5
  <2>2. ASSUME NEW k \in Nat, k \in S PROVE k + 1 \in S
    BY <1>4, <1>5, <2>2
  <2>. HIDE DEF S
  <2>. QED
    BY <2>1, <2>2, Inducao
<1>7. v[a] = nos[a]
  <2>. HIDE DEF nos
  <2>. QED
    BY <1>6
<1>. QED
  BY <1>7 DEF v

(* For a tree over any number of leaves, the proof MerkleTree.proof gives  *)
(* for a leaf is one verify_proof accepts, and for no other hash: the odd  *)
(* node that is its own sibling is treated alike by both (merkle.py:49-90).*)
THEOREM ProvaVerifica ==
  ASSUME NEW hs, NEW N \in Nat \ {0}, N = Len(hs), NEW i \in 1..N, NEW h
  PROVE  Verifica(h, Prova(hs, i)) <=> h = hs[i]
<1>. DEFINE n == Niveis(hs)
            a == Altura(hs)
            p == Posicoes(i, a)
            irmaos == [k \in 1..a |-> n[k - 1][Vizinho(n[k - 1], p[k - 1])]]
<1>1. /\ Prova(hs, i).folha = Folha(hs[i]) /\ Prova(hs, i).irmaos = irmaos
      /\ Prova(hs, i).raiz = n[a][1]
  BY DEF Prova, Raiz
<1>2. a \in 0..N /\ Len(n[a]) = 1
  BY AlturaAcaba
<1>3. p[a] = 1
  <2>1. p[a] \in 1..Len(n[a])
    <3>. HIDE DEF a
    <3>1. \A k \in 0..a : p[k] \in 1..Len(n[k])
      BY <1>2, PosicaoNoNivel
    <3>2. a \in 0..a
      BY <1>2
    <3>. HIDE DEF n, p
    <3>. QED
      BY <3>1, <3>2
  <2>. HIDE DEF a, n, p
  <2>. QED
    BY <1>2, <2>1
<1>4. Len(irmaos) = a
  <2>. HIDE DEF a, n, p
  <2>. QED
    BY <1>2
<1>5. Subidas(hs[i], irmaos)[a] = n[a][p[a]]
  <2>1. \A k \in 1..a : irmaos[k] = n[k - 1][Vizinho(n[k - 1], p[k - 1])]
    OBVIOUS
  <2>. HIDE DEF a, irmaos
  <2>. QED
    BY <1>2, <1>4, <2>1, SobePelosNos
<1>. HIDE DEF a, n, p, irmaos
<1>. QED
  BY <1>1, <1>3, <1>4, <1>5 DEF Verifica, Folha

-----------------------------------------------------------------------------
(* BATCHES AND ANCHORS                                                     *)

USE JanelaAssumption, MinimoAssumption, LimitesAssumption

(* What is said of a row stays true while rows and anchors are added.      *)
LEMMA LinhaPermanece ==
  ASSUME NEW b \in lotes, lotes \subseteq lotes', contrato \subseteq contrato',
         NativoFiel(b) \/ ExternoFiel(b)
  PROVE  (NativoFiel(b) \/ ExternoFiel(b))'
<1>1. CASE NativoFiel(b)
  BY <1>1 DEF NativoFiel, Continua
<1>2. CASE ExternoFiel(b)
  BY <1>2 DEF ExternoFiel
<1>. QED
  BY <1>1, <1>2

LEMMA ProcessoPermanece ==
  ASSUME IInv, NEW q \in Processos, processos'[q] = processos[q],
         lotes \subseteq lotes', contrato \subseteq contrato'
  PROVE  ProcessoFiel(processos[q])'
<1>1. ProcessoFiel(processos[q])
  BY DEF IInv
<1>2. CASE processos[q].pc = "gravarLote" /\ NativoFiel(processos[q].lote)
           /\ processos[q] = [pc |-> "gravarLote", lote |-> processos[q].lote]
  BY <1>2 DEF ProcessoFiel, NativoFiel, Continua
<1>3. CASE /\ processos[q] \in [pc : {"ancora"}, m : 1..MaxManifestos, lote : IdsDeLote]
           /\ Ancorado(processos[q].lote, processos[q].m)
  BY <1>3 DEF ProcessoFiel, Ancorado
<1>4. CASE /\ processos[q] \in [pc : {"registrar", "externo", "existente"}, m : 1..MaxManifestos, n : 1..MaxLocais]
           /\ Registro(processos[q].m, RaizLocal(processos[q].n)) \in contrato
  BY <1>4 DEF ProcessoFiel
<1>. QED
  BY <1>1, <1>2, <1>3, <1>4 DEF ProcessoFiel

(* A step of one command that changes no table.                            *)
LEMMA SoProcesso ==
  ASSUME IInv, TypeOK', UNCHANGED <<lotes, ancorasD1, contrato, ancoras>>,
         \A q \in Processos : processos'[q] = processos[q] \/ ProcessoFiel(processos[q])'
  PROVE  IInv'
<1>1. \A b \in lotes' : (NativoFiel(b) \/ ExternoFiel(b))'
  BY LinhaPermanece DEF IInv
<1>2. (\A a, b \in lotes : a.id = b.id => a = b)'
  BY DEF IInv
<1>3. (\A i \in DOMAIN ancoras : Registro(ancoras[i].id, RaizLocal(ancoras[i].n)) \in contrato)'
  BY DEF IInv
<1>4. (\A a \in ancorasD1 : Ancorado(a.lote, a.tx))'
  BY DEF IInv, Ancorado
<1>5. (\A p \in Processos : ProcessoFiel(processos[p]))'
  BY ProcessoPermanece
<1>. QED
  BY <1>1, <1>2, <1>3, <1>4, <1>5 DEF IInv

LEMMA IInvInicial == Init => IInv
<1>. SUFFICES ASSUME Init PROVE IInv
  OBVIOUS
<1>1. TypeOK
  BY DEF Init, TypeOK, Parado
<1>2. \A p \in Processos : ProcessoFiel(processos[p])
  BY DEF Init, ProcessoFiel
<1>. QED
  BY <1>1, <1>2 DEF Init, IInv

------------------------------------------------------------------------------
(* The commands, one lemma for each of their steps.                        *)

LEMMA PassoCrescer ==
  ASSUME IInv, CrescerD1 \/ CrescerLocal
  PROVE  IInv'
<1>1. TypeOK'
  BY DEF IInv, TypeOK, CrescerD1, CrescerLocal
<1>. QED
  BY <1>1, SoProcesso DEF CrescerD1, CrescerLocal

(* Types after a step that only moves one command.                         *)
LEMMA TiposDoProcesso ==
  ASSUME TypeOK, NEW p \in Processos, NEW e,
         processos' = [processos EXCEPT ![p] = e],
         manifestos' \in 0..MaxManifestos, quedas' \in 0..MaxQuedas,
         UNCHANGED <<eventos, corrente, lotes, ancorasD1, contrato, ancoras>>
  PROVE  TypeOK' /\ processos'[p] = e /\ \A q \in Processos \ {p} : processos'[q] = processos[q]
BY DEF TypeOK

LEMMA PassoLerEventos ==
  ASSUME IInv, NEW p \in Processos, LerEventos(p)
  PROVE  IInv'
<1>. DEFINE e == [pc |-> "lotes", de |-> IF eventos > Janela THEN eventos - Janela + 1 ELSE 1,
                  ate |-> eventos]
<1>1. TypeOK' /\ processos'[p] = e /\ \A q \in Processos \ {p} : processos'[q] = processos[q]
  BY TiposDoProcesso DEF IInv, TypeOK, LerEventos
<1>2. /\ e \in [pc : {"lotes"}, de : Nat \ {0}, ate : 0..MaxEventos]
      /\ e.ate - e.de + 1 < Janela => e.de = 1
  BY DEF IInv, TypeOK
<1>3. ProcessoFiel(processos[p])'
  BY <1>1, <1>2 DEF ProcessoFiel
<1>. QED
  BY <1>1, <1>3, SoProcesso DEF LerEventos

LEMMA PassoLerLotes ==
  ASSUME IInv, NEW p \in Processos, LerLotes(p)
  PROVE  IInv'
<1>1. PICK t \in 0..(MaxEventos + MaxLocais) :
        /\ Topo(t)
        /\ LET i == Pendentes(t, processos[p].de)
           IN  \/ /\ i <= processos[p].ate
                  /\ \E r \in {Nenhuma} \cup {b.raiz : b \in lotes} :
                       /\ RaizAnterior(t, r)
                       /\ processos' = [processos EXCEPT ![p] =
                            [pc |-> "gravarLote", lote |-> LoteNativo(i, processos[p].ate, r)]]
               \/ processos' = [processos EXCEPT ![p] = Parado]
  BY DEF LerLotes
<1>2. /\ processos[p] \in [pc : {"lotes"}, de : Nat \ {0}, ate : 0..MaxEventos]
      /\ processos[p].ate - processos[p].de + 1 < Janela => processos[p].de = 1
  <2>1. processos[p].pc = "lotes" /\ ProcessoFiel(processos[p])
    BY DEF IInv, LerLotes
  <2>. QED
    BY <2>1 DEF ProcessoFiel, Parado
<1>. DEFINE i == Pendentes(t, processos[p].de)
<1>3. CASE processos' = [processos EXCEPT ![p] = Parado]
  <2>1. TypeOK' /\ processos'[p] = Parado /\ \A q \in Processos \ {p} : processos'[q] = processos[q]
    BY <1>3, TiposDoProcesso DEF IInv, TypeOK, LerLotes
  <2>2. ProcessoFiel(processos[p])'
    BY <2>1 DEF ProcessoFiel
  <2>. QED
    BY <2>1, <2>2, SoProcesso DEF LerLotes
<1>4. ASSUME NEW r, i <= processos[p].ate, RaizAnterior(t, r),
             processos' = [processos EXCEPT ![p] =
               [pc |-> "gravarLote", lote |-> LoteNativo(i, processos[p].ate, r)]]
      PROVE  IInv'
  <2>0. PICK l : l = LoteNativo(i, processos[p].ate, r)
    OBVIOUS
  <2>. DEFINE e == [pc |-> "gravarLote", lote |-> l]
  <2>1. TypeOK' /\ processos'[p] = e /\ \A q \in Processos \ {p} : processos'[q] = processos[q]
    BY <1>4, <2>0, TiposDoProcesso DEF IInv, TypeOK, LerLotes
  <2>2. i \in 1..MaxEventos /\ i >= processos[p].de /\ (t >= processos[p].de => i = t + 1)
        /\ (t < processos[p].de => i = processos[p].de)
    BY <1>1, <1>2, <1>4 DEF Pendentes
  <2>3. /\ l = LoteNativo(l.primeiro, l.ultimo, l.anterior)
        /\ l.primeiro = i /\ l.ultimo = processos[p].ate /\ l.anterior = r
    BY <2>0 DEF LoteNativo
  <2>4. \A b \in lotes : b.ultimo \in Nat \ {0} /\ b.ultimo <= t
    BY <1>1 DEF IInv, TypeOK, Topo
  <2>5. Continua(l)
    <3>. SUFFICES ASSUME processos[p].ate - i + 1 < Janela
                  PROVE  \/ i = 1 /\ r = Nenhuma
                         \/ \E a \in lotes : a.ultimo + 1 = i /\ a.raiz = r
      BY <2>3 DEF Continua
    <3>1. CASE t >= processos[p].de
      <4>1. t # 0 /\ t \in {0} \cup {b.ultimo : b \in lotes}
        BY <1>1, <1>2, <3>1 DEF Topo
      <4>2. \E b \in lotes : b.ultimo = t /\ r = b.raiz
        BY <1>4, <4>1 DEF RaizAnterior
      <4>. QED
        BY <2>2, <3>1, <4>2
    <3>2. CASE t < processos[p].de
      <4>1. i = 1 /\ t = 0
        BY <1>2, <2>2, <3>2
      <4>2. r = Nenhuma
        BY <1>4, <2>4, <4>1 DEF RaizAnterior
      <4>. QED
        BY <4>1, <4>2
    <3>. QED
      BY <1>2, <3>1, <3>2
  <2>6. NativoFiel(l)'
    <3>1. NativoFiel(l)
      BY <1>2, <1>4, <2>2, <2>3, <2>5 DEF NativoFiel
    <3>2. lotes' = lotes
      BY DEF LerLotes
    <3>. QED
      BY <3>1, <3>2 DEF NativoFiel, Continua
  <2>7. ProcessoFiel(processos[p])'
    BY <2>1, <2>6 DEF ProcessoFiel
  <2>. QED
    BY <2>1, <2>7, SoProcesso DEF LerLotes
<1>. QED
  BY <1>1, <1>3, <1>4

(* A command that ends without having changed a table.                     *)
LEMMA PassoParar ==
  ASSUME IInv, NEW p \in Processos, RecusarLote(p) \/ Queda(p)
  PROVE  IInv'
<1>1. TypeOK' /\ processos'[p] = Parado /\ \A q \in Processos \ {p} : processos'[q] = processos[q]
  BY TiposDoProcesso DEF IInv, TypeOK, RecusarLote, Queda
<1>2. ProcessoFiel(processos[p])'
  BY <1>1 DEF ProcessoFiel
<1>. QED
  BY <1>1, <1>2, SoProcesso DEF RecusarLote, Queda

(* A row that collides with none joins them.                               *)
LEMMA NovaLinha ==
  ASSUME IInv, NEW l, ~Colide(l), lotes' = lotes \cup {l}, UNCHANGED <<ancorasD1, contrato, ancoras>>,
         (NativoFiel(l) \/ ExternoFiel(l))', TypeOK',
         \A q \in Processos : processos'[q] = processos[q] \/ ProcessoFiel(processos[q])'
  PROVE  IInv'
<1>1. \A b \in lotes' : (NativoFiel(b) \/ ExternoFiel(b))'
  BY LinhaPermanece DEF IInv
<1>2. (\A a, b \in lotes : a.id = b.id => a = b)'
  BY DEF IInv, Colide
<1>3. (\A i \in DOMAIN ancoras : Registro(ancoras[i].id, RaizLocal(ancoras[i].n)) \in contrato)'
  BY DEF IInv
<1>4. (\A a \in ancorasD1 : Ancorado(a.lote, a.tx))'
  BY DEF IInv, Ancorado
<1>5. (\A p \in Processos : ProcessoFiel(processos[p]))'
  BY ProcessoPermanece
<1>. QED
  BY <1>1, <1>2, <1>3, <1>4, <1>5 DEF IInv

LEMMA PassoGravarLote ==
  ASSUME IInv, NEW p \in Processos, GravarLote(p)
  PROVE  IInv'
<1>1. PICK l : l = processos[p].lote
  OBVIOUS
<1>2. NativoFiel(l)
  <2>1. processos[p].pc = "gravarLote" /\ ProcessoFiel(processos[p])
    BY DEF IInv, GravarLote
  <2>. QED
    BY <1>1, <2>1 DEF ProcessoFiel, Parado
<1>3. ~Colide(l) /\ lotes' = lotes \cup {l}
  BY <1>1 DEF GravarLote
<1>4. NativoFiel(l)'
  BY <1>2, <1>3 DEF NativoFiel, Continua
<1>5. /\ l.tipo = "nativo" /\ l.id \in IdsDeLote
      /\ l.primeiro \in Nat \ {0} /\ l.ultimo \in Nat \ {0}
  BY <1>2 DEF NativoFiel, LoteNativo, IdsDeLote
<1>6. TypeOK'
  BY <1>3, <1>5 DEF IInv, TypeOK, GravarLote
<1>7. processos'[p] = Parado /\ \A q \in Processos \ {p} : processos'[q] = processos[q]
  BY DEF IInv, TypeOK, GravarLote
<1>8. ProcessoFiel(processos[p])'
  BY <1>7 DEF ProcessoFiel
<1>. QED
  BY <1>3, <1>4, <1>6, <1>7, <1>8, NovaLinha DEF GravarLote

LEMMA PassoIniciarAncora ==
  ASSUME IInv, NEW p \in Processos, IniciarAncora(p)
  PROVE  IInv'
<1>. DEFINE e == [pc |-> "transmitir", m |-> manifestos + 1, n |-> corrente]
<1>1. TypeOK' /\ processos'[p] = e /\ \A q \in Processos \ {p} : processos'[q] = processos[q]
  <2>1. TypeOK /\ manifestos' \in 0..MaxManifestos /\ quedas' \in 0..MaxQuedas
    BY DEF IInv, TypeOK, IniciarAncora
  <2>2. /\ processos' = [processos EXCEPT ![p] = e]
        /\ UNCHANGED <<eventos, corrente, lotes, ancorasD1, contrato, ancoras>>
    BY DEF IniciarAncora
  <2>. HIDE DEF e
  <2>. QED
    BY <2>1, <2>2, TiposDoProcesso
<1>2. e \in [pc : {"transmitir"}, m : 1..MaxManifestos, n : 1..MaxLocais]
  BY DEF IInv, TypeOK, IniciarAncora
<1>3. ProcessoFiel(processos[p])'
  BY <1>1, <1>2 DEF ProcessoFiel
<1>. QED
  BY <1>1, <1>3, SoProcesso DEF IniciarAncora

(* What a command that anchors or publishes holds.                         *)
LEMMA EmTransmissao ==
  ASSUME IInv, NEW p \in Processos, processos[p].pc = "transmitir"
  PROVE  processos[p] \in [pc : {"transmitir"}, m : 1..MaxManifestos, n : 1..MaxLocais]
<1>1. ProcessoFiel(processos[p])
  BY DEF IInv
<1>. QED
  BY <1>1 DEF ProcessoFiel, Parado

LEMMA EmPublicacao ==
  ASSUME IInv, NEW p \in Processos, processos[p].pc \in {"registrar", "externo", "existente"}
  PROVE  /\ processos[p] = [pc |-> processos[p].pc, m |-> processos[p].m, n |-> processos[p].n]
         /\ processos[p].m \in 1..MaxManifestos /\ processos[p].n \in 1..MaxLocais
         /\ Registro(processos[p].m, RaizLocal(processos[p].n)) \in contrato
<1>1. ProcessoFiel(processos[p])
  BY DEF IInv
<1>. QED
  BY <1>1 DEF ProcessoFiel, Parado

LEMMA PassoTransmitir ==
  ASSUME IInv, NEW p \in Processos, Transmitir(p)
  PROVE  IInv'
<1>1. PICK m, n : m = processos[p].m /\ n = processos[p].n
  OBVIOUS
<1>2. /\ processos[p] = [pc |-> "transmitir", m |-> m, n |-> n]
      /\ m \in 1..MaxManifestos /\ n \in 1..MaxLocais
  BY <1>1, EmTransmissao DEF Transmitir
<1>3. PICK c : c = Registro(m, RaizLocal(n))
  OBVIOUS
<1>4. CASE contrato' = contrato \cup {c} /\ processos' = [processos EXCEPT ![p].pc = "registrar"]
  <2>1. /\ processos'[p] = [pc |-> "registrar", m |-> m, n |-> n]
        /\ \A q \in Processos \ {p} : processos'[q] = processos[q]
    <3>1. [processos[p] EXCEPT !.pc = "registrar"] = [pc |-> "registrar", m |-> m, n |-> n]
      BY <1>2
    <3>2. processos' = [processos EXCEPT ![p] = [processos[p] EXCEPT !.pc = "registrar"]]
      BY <1>4
    <3>. QED
      BY <3>1, <3>2 DEF IInv, TypeOK
  <2>2. TypeOK'
    <3>1. c.id \in 1..MaxManifestos
      BY <1>2, <1>3 DEF Registro
    <3>2. processos' = [q \in Processos |-> processos'[q]]
      BY <1>4 DEF IInv, TypeOK
    <3>. QED
      BY <1>4, <3>1, <3>2 DEF IInv, TypeOK, Transmitir
  <2>3. ProcessoFiel(processos[p])'
    BY <1>2, <1>3, <1>4, <2>1 DEF ProcessoFiel
  <2>4. \A b \in lotes' : (NativoFiel(b) \/ ExternoFiel(b))'
    BY <1>4, LinhaPermanece DEF IInv, Transmitir
  <2>5. (\A a, b \in lotes : a.id = b.id => a = b)'
    BY DEF IInv, Transmitir
  <2>6. (\A i \in DOMAIN ancoras : Registro(ancoras[i].id, RaizLocal(ancoras[i].n)) \in contrato)'
    BY <1>4 DEF IInv, Transmitir
  <2>7. (\A a \in ancorasD1 : Ancorado(a.lote, a.tx))'
    BY <1>4 DEF IInv, Ancorado, Transmitir
  <2>8. (\A q \in Processos : ProcessoFiel(processos[q]))'
    BY <1>4, <2>1, <2>3, ProcessoPermanece DEF Transmitir
  <2>. QED
    BY <2>2, <2>4, <2>5, <2>6, <2>7, <2>8 DEF IInv
<1>5. CASE UNCHANGED contrato /\ processos' = [processos EXCEPT ![p] = Parado]
  <2>1. TypeOK' /\ processos'[p] = Parado /\ \A q \in Processos \ {p} : processos'[q] = processos[q]
    BY <1>5, TiposDoProcesso DEF IInv, TypeOK, Transmitir
  <2>2. ProcessoFiel(processos[p])'
    BY <2>1 DEF ProcessoFiel
  <2>. QED
    BY <1>5, <2>1, <2>2, SoProcesso DEF Transmitir
<1>. QED
  BY <1>1, <1>3, <1>4, <1>5 DEF Transmitir

LEMMA PassoRegistrarAncora ==
  ASSUME IInv, NEW p \in Processos, RegistrarAncora(p)
  PROVE  IInv'
<1>. DEFINE linha == [id |-> processos[p].m, n |-> processos[p].n]
<1>1. /\ linha \in [id : 1..MaxManifestos, n : 1..MaxLocais]
      /\ Registro(linha.id, RaizLocal(linha.n)) \in contrato
  BY EmPublicacao DEF RegistrarAncora
<1>2. ancoras \in Seq([id : 1..MaxManifestos, n : 1..MaxLocais]) /\ ancoras' = Append(ancoras, linha)
  BY DEF IInv, TypeOK, RegistrarAncora
<1>. HIDE DEF linha
<1>3. /\ ancoras' \in Seq([id : 1..MaxManifestos, n : 1..MaxLocais])
      /\ DOMAIN ancoras' = DOMAIN ancoras \cup {Len(ancoras) + 1}
      /\ \A i \in DOMAIN ancoras : ancoras'[i] = ancoras[i]
      /\ ancoras'[Len(ancoras) + 1] = linha
  BY <1>1, <1>2
<1>4. processos'[p] = Parado /\ \A q \in Processos \ {p} : processos'[q] = processos[q]
  BY DEF IInv, TypeOK, RegistrarAncora
<1>5. TypeOK'
  BY <1>3 DEF IInv, TypeOK, RegistrarAncora
<1>6. \A b \in lotes' : (NativoFiel(b) \/ ExternoFiel(b))'
  BY LinhaPermanece DEF IInv, RegistrarAncora
<1>7. (\A a, b \in lotes : a.id = b.id => a = b)'
  BY DEF IInv, RegistrarAncora
<1>8. (\A i \in DOMAIN ancoras : Registro(ancoras[i].id, RaizLocal(ancoras[i].n)) \in contrato)'
  BY <1>1, <1>3 DEF IInv, RegistrarAncora
<1>9. (\A a \in ancorasD1 : Ancorado(a.lote, a.tx))'
  BY DEF IInv, Ancorado, RegistrarAncora
<1>10. ProcessoFiel(processos[p])'
  BY <1>4 DEF ProcessoFiel
<1>11. (\A q \in Processos : ProcessoFiel(processos[q]))'
  BY <1>4, <1>10, ProcessoPermanece DEF RegistrarAncora
<1>. QED
  BY <1>5, <1>6, <1>7, <1>8, <1>9, <1>11 DEF IInv

LEMMA PassoLerAncora ==
  ASSUME IInv, NEW p \in Processos, LerAncora(p)
  PROVE  IInv'
<1>. DEFINE e == [pc |-> "externo", m |-> Ultima.id, n |-> Ultima.n]
<1>1. TypeOK' /\ processos'[p] = e /\ \A q \in Processos \ {p} : processos'[q] = processos[q]
  BY TiposDoProcesso DEF IInv, TypeOK, LerAncora
<1>2. /\ Ultima \in [id : 1..MaxManifestos, n : 1..MaxLocais]
      /\ Registro(Ultima.id, RaizLocal(Ultima.n)) \in contrato
  <2>. DEFINE Linha == [id : 1..MaxManifestos, n : 1..MaxLocais]
  <2>1. ancoras \in Seq(Linha) /\ ancoras # <<>>
    BY DEF IInv, TypeOK, LerAncora
  <2>2. Len(ancoras) \in DOMAIN ancoras /\ ancoras[Len(ancoras)] \in Linha
    <3>. HIDE DEF Linha
    <3>1. Len(ancoras) \in 1..Len(ancoras)
      BY <2>1
    <3>. QED
      BY <2>1, <3>1
  <2>3. \A i \in DOMAIN ancoras : Registro(ancoras[i].id, RaizLocal(ancoras[i].n)) \in contrato
    BY DEF IInv
  <2>. QED
    BY <2>2, <2>3 DEF Ultima
<1>3. ProcessoFiel(processos[p])'
  BY <1>1, <1>2 DEF ProcessoFiel, LerAncora
<1>. QED
  BY <1>1, <1>3, SoProcesso DEF LerAncora

LEMMA PassoPostarExterno ==
  ASSUME IInv, NEW p \in Processos, PostarExterno(p)
  PROVE  IInv'
<1>1. PICK m, n, l : m = processos[p].m /\ n = processos[p].n /\ l = LoteExterno(m, n)
  OBVIOUS
<1>2. /\ processos[p] = [pc |-> "externo", m |-> m, n |-> n]
      /\ m \in 1..MaxManifestos /\ n \in 1..MaxLocais
      /\ Registro(m, RaizLocal(n)) \in contrato
  BY <1>1, EmPublicacao DEF PostarExterno
<1>3. CASE /\ ~Colide(l) /\ lotes' = lotes \cup {l}
           /\ processos' = [processos EXCEPT ![p] = [pc |-> "ancora", m |-> @.m, lote |-> l.id]]
  <2>1. /\ processos'[p] = [pc |-> "ancora", m |-> m, lote |-> l.id]
        /\ \A q \in Processos \ {p} : processos'[q] = processos[q]
    BY <1>1, <1>3 DEF IInv, TypeOK
  <2>2. /\ l.tipo = "externo" /\ l.id \in IdsDeLote /\ l.raiz = RaizLocal(n)
        /\ l.primeiro \in Nat \ {0} /\ l.ultimo \in Nat \ {0}
    BY <1>1, <1>2 DEF LoteExterno, IdsDeLote
  <2>3. TypeOK'
    <3>1. processos' = [q \in Processos |-> processos'[q]]
      BY <1>3 DEF IInv, TypeOK
    <3>. QED
      BY <1>3, <2>2, <3>1 DEF IInv, TypeOK, PostarExterno
  <2>4. ExternoFiel(l)'
    BY <1>1, <1>2 DEF ExternoFiel, PostarExterno
  <2>5. ProcessoFiel(processos[p])'
    BY <1>2, <1>3, <2>1, <2>2 DEF ProcessoFiel, Ancorado, PostarExterno
  <2>. QED
    BY <1>3, <2>1, <2>3, <2>4, <2>5, NovaLinha DEF PostarExterno
<1>4. CASE UNCHANGED lotes /\ processos' = [processos EXCEPT ![p].pc = "existente"]
  <2>1. processos' = [processos EXCEPT ![p] = [pc |-> "existente", m |-> m, n |-> n]]
    <3>1. [processos[p] EXCEPT !.pc = "existente"] = [pc |-> "existente", m |-> m, n |-> n]
      BY <1>2
    <3>2. processos' = [processos EXCEPT ![p] = [processos[p] EXCEPT !.pc = "existente"]]
      BY <1>4
    <3>. QED
      BY <3>1, <3>2
  <2>2. /\ TypeOK' /\ processos'[p] = [pc |-> "existente", m |-> m, n |-> n]
        /\ \A q \in Processos \ {p} : processos'[q] = processos[q]
    BY <1>4, <2>1, TiposDoProcesso DEF IInv, TypeOK, PostarExterno
  <2>3. ProcessoFiel(processos[p])'
    BY <1>2, <2>2 DEF ProcessoFiel, PostarExterno
  <2>. QED
    BY <1>4, <2>2, <2>3, SoProcesso DEF PostarExterno
<1>. QED
  BY <1>1, <1>3, <1>4 DEF PostarExterno

(* The row that was found has the root of the manifest, or is its own.     *)
LEMMA PassoExistente ==
  ASSUME IInv, NEW p \in Processos, Existente(p)
  PROVE  IInv'
<1>1. PICK m, n, l : m = processos[p].m /\ n = processos[p].n /\ l = LoteExterno(m, n)
  OBVIOUS
<1>2. /\ processos[p] = [pc |-> "existente", m |-> m, n |-> n]
      /\ m \in 1..MaxManifestos /\ n \in 1..MaxLocais
      /\ Registro(m, RaizLocal(n)) \in contrato
  BY <1>1, EmPublicacao DEF Existente
<1>3. ASSUME NEW b \in lotes, MesmoLote(b, l),
             processos' = [processos EXCEPT ![p] = [pc |-> "ancora", m |-> @.m, lote |-> b.id]]
      PROVE  IInv'
  <2>1. processos' = [processos EXCEPT ![p] = [pc |-> "ancora", m |-> m, lote |-> b.id]]
    BY <1>1, <1>3
  <2>2. /\ TypeOK' /\ processos'[p] = [pc |-> "ancora", m |-> m, lote |-> b.id]
        /\ \A q \in Processos \ {p} : processos'[q] = processos[q]
    BY <2>1, TiposDoProcesso DEF IInv, TypeOK, Existente
  <2>3. Registro(m, b.raiz) \in contrato
    <3>1. CASE b.raiz = l.raiz
      BY <1>1, <1>2, <3>1 DEF LoteExterno
    <3>2. CASE b.id = l.id
      <4>1. b.id = <<"externo", m>>
        BY <1>1, <3>2 DEF LoteExterno
      <4>2. ~NativoFiel(b)
        BY <4>1 DEF NativoFiel, LoteNativo
      <4>3. PICK k \in 1..MaxManifestos, j \in 1..MaxLocais :
              b = LoteExterno(k, j) /\ Registro(k, RaizLocal(j)) \in contrato
        BY <4>2 DEF IInv, ExternoFiel
      <4>4. b.id = <<"externo", k>> /\ b.raiz = RaizLocal(j)
        BY <4>3 DEF LoteExterno
      <4>5. k = m
        BY <4>1, <4>4
      <4>. QED
        BY <4>3, <4>4, <4>5
    <3>. QED
      BY <1>3, <3>1, <3>2 DEF MesmoLote
  <2>4. b.id \in IdsDeLote
    BY DEF IInv, TypeOK
  <2>5. ProcessoFiel(processos[p])'
    BY <1>2, <2>2, <2>3, <2>4 DEF ProcessoFiel, Ancorado, Existente
  <2>. QED
    BY <2>2, <2>5, SoProcesso DEF Existente
<1>4. CASE processos' = [processos EXCEPT ![p] = Parado]
  <2>1. TypeOK' /\ processos'[p] = Parado /\ \A q \in Processos \ {p} : processos'[q] = processos[q]
    BY <1>4, TiposDoProcesso DEF IInv, TypeOK, Existente
  <2>2. ProcessoFiel(processos[p])'
    BY <2>1 DEF ProcessoFiel
  <2>. QED
    BY <2>1, <2>2, SoProcesso DEF Existente
<1>. QED
  BY <1>1, <1>3, <1>4 DEF Existente

LEMMA PassoPostarAncora ==
  ASSUME IInv, NEW p \in Processos, PostarAncora(p)
  PROVE  IInv'
<1>1. PICK a : a = [lote |-> processos[p].lote, tx |-> processos[p].m]
  OBVIOUS
<1>2. a \in [lote : IdsDeLote, tx : 1..MaxManifestos] /\ Ancorado(a.lote, a.tx)
  <2>1. processos[p].pc = "ancora" /\ ProcessoFiel(processos[p])
    BY DEF IInv, PostarAncora
  <2>2. /\ processos[p] \in [pc : {"ancora"}, m : 1..MaxManifestos, lote : IdsDeLote]
        /\ Ancorado(processos[p].lote, processos[p].m)
    BY <2>1 DEF ProcessoFiel, Parado
  <2>. QED
    BY <1>1, <2>2
<1>3. ancorasD1' \subseteq ancorasD1 \cup {a}
  BY <1>1 DEF PostarAncora
<1>4. processos'[p] = Parado /\ \A q \in Processos \ {p} : processos'[q] = processos[q]
  BY DEF IInv, TypeOK, PostarAncora
<1>5. TypeOK'
  <2>1. ancorasD1' \subseteq [lote : IdsDeLote, tx : 1..MaxManifestos]
    BY <1>2, <1>3 DEF IInv, TypeOK
  <2>2. processos' = [q \in Processos |-> processos'[q]]
    BY DEF IInv, TypeOK, PostarAncora
  <2>. QED
    BY <2>1, <2>2 DEF IInv, TypeOK, PostarAncora
<1>6. \A b \in lotes' : (NativoFiel(b) \/ ExternoFiel(b))'
  BY LinhaPermanece DEF IInv, PostarAncora
<1>7. (\A x, b \in lotes : x.id = b.id => x = b)'
  BY DEF IInv, PostarAncora
<1>8. (\A i \in DOMAIN ancoras : Registro(ancoras[i].id, RaizLocal(ancoras[i].n)) \in contrato)'
  BY DEF IInv, PostarAncora
<1>9. (\A x \in ancorasD1 : Ancorado(x.lote, x.tx))'
  BY <1>2, <1>3 DEF IInv, Ancorado, PostarAncora
<1>10. ProcessoFiel(processos[p])'
  BY <1>4 DEF ProcessoFiel
<1>11. (\A q \in Processos : ProcessoFiel(processos[q]))'
  BY <1>4, <1>10, ProcessoPermanece DEF PostarAncora
<1>. QED
  BY <1>5, <1>6, <1>7, <1>8, <1>9, <1>11 DEF IInv

------------------------------------------------------------------------------
LEMMA Indutivo == IInv /\ [Next]_vars => IInv'
<1>. SUFFICES ASSUME IInv, [Next]_vars PROVE IInv'
  OBVIOUS
<1>1. CASE UNCHANGED vars
  <2>1. TypeOK'
    BY <1>1 DEF IInv, TypeOK, vars
  <2>. QED
    BY <1>1, <2>1, SoProcesso DEF vars
<1>2. CASE Next
  BY <1>2, PassoCrescer, PassoLerEventos, PassoLerLotes, PassoParar, PassoGravarLote,
     PassoIniciarAncora, PassoTransmitir, PassoRegistrarAncora, PassoLerAncora,
     PassoPostarExterno, PassoExistente, PassoPostarAncora DEF Next, Passo
<1>. QED
  BY <1>1, <1>2

(* The inductive invariant: every row is a batch the ledger could have     *)
(* built or the manifest of an anchor of the contract.                     *)
THEOREM Invariante == Spec => []IInv
<1>. QED
  BY IInvInicial, Indutivo, PTL DEF Spec

(* Native batches go on where another ends (batching.py:113-116), for any  *)
(* window and any number of batchers.                                      *)
THEOREM LotesContinuam == Spec => []LoteContinua
<1>1. IInv => LoteContinua
  <2>. SUFFICES ASSUME IInv, NEW b \in Nativos PROVE Continua(b)
    BY DEF LoteContinua
  <2>1. b \in lotes /\ b.tipo = "nativo"
    BY DEF Nativos
  <2>2. ~ExternoFiel(b)
    BY <2>1 DEF ExternoFiel, LoteExterno
  <2>. QED
    BY <2>1, <2>2 DEF IInv, NativoFiel
<1>. QED
  BY <1>1, Invariante, PTL

(* Every root that is served is in the contract, with its transaction      *)
(* (publicar_ancora.py:81-106, worker.ts:318-330).                         *)
THEOREM RaizesServidas == Spec => []RaizServida
<1>1. IInv => RaizServida
  <2>. SUFFICES ASSUME IInv, NEW s \in Servidas PROVE Registro(s.tx, s.raiz) \in contrato
    BY DEF RaizServida
  <2>1. PICK a \in ancorasD1, b \in lotes : b.id = a.lote /\ s = [raiz |-> b.raiz, tx |-> a.tx]
    BY DEF Servidas
  <2>2. PICK c \in lotes : c.id = a.lote /\ Registro(a.tx, c.raiz) \in contrato
    BY DEF IInv, Ancorado
  <2>3. b = c
    BY <2>1, <2>2 DEF IInv
  <2>. QED
    BY <2>1, <2>2, <2>3
<1>. QED
  BY <1>1, Invariante, PTL

(* The proof stored with an event of a native batch (batching.py:60-79)    *)
(* leads to the root of the batch, for that event and for no other,        *)
(* whatever the length of the batch.                                       *)
THEOREM ProvasServem == Spec => []ProvaServe
<1>1. IInv => ProvaServe
  <2>. SUFFICES ASSUME IInv, NEW b \in Nativos, NEW k \in DOMAIN Provas(b)
                PROVE  /\ Provas(b)[k].raiz = b.raiz
                       /\ \A s \in 1..eventos :
                            Verifica(HashD1(s), Provas(b)[k]) <=> s = b.primeiro + k - 1
    BY DEF ProvaServe
  <2>1. NativoFiel(b)
    BY DEF IInv, Nativos, ExternoFiel, LoteExterno
  <2>. DEFINE i == b.primeiro
              N == b.ultimo - i + 1
              hs == HashesD1(i, b.ultimo)
  <2>2. /\ i \in Nat \ {0} /\ N \in Nat \ {0} /\ b.raiz = Raiz(hs)
    BY <2>1 DEF NativoFiel, LoteNativo
  <2>3. /\ hs = [s \in 1..N |-> HashD1(i + s - 1)] /\ Provas(b) = [l \in 1..Len(hs) |-> Prova(hs, l)]
    BY DEF HashesD1, Provas
  <2>. HIDE DEF hs, N, i
  <2>4. Len(hs) = N
    BY <2>2, <2>3
  <2>5. k \in 1..N /\ Provas(b)[k] = Prova(hs, k) /\ hs[k] = HashD1(i + k - 1)
    BY <2>2, <2>3, <2>4
  <2>6. Provas(b)[k].raiz = b.raiz
    BY <2>2, <2>5 DEF Prova
  <2>7. ASSUME NEW s \in 1..eventos
        PROVE  Verifica(HashD1(s), Provas(b)[k]) <=> s = i + k - 1
    <3>1. Verifica(HashD1(s), Prova(hs, k)) <=> HashD1(s) = hs[k]
      BY <2>2, <2>4, <2>5, ProvaVerifica
    <3>. QED
      BY <2>5, <3>1 DEF HashD1
  <2>. QED
    BY <2>6, <2>7 DEF i
<1>. QED
  BY <1>1, Invariante, PTL
=============================================================================
