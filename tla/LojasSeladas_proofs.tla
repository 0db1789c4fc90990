------------------------- MODULE LojasSeladas_proofs -------------------------
(***************************************************************************)
(* Proofs about LojasSeladas, for any commands, stores, identities and     *)
(* contents: every line is in the chain, an identity has one line until    *)
(* something is redacted, only a sealed redaction takes lines out, and     *)
(* none writes back what another one took out.                             *)
(***************************************************************************)
EXTENDS LojasSeladas, TLAPS

USE LojasAssumption, NinguemAssumption, LimitesAssumption

(* What is proved of a content and of a reference stays proved while the   *)
(* chain grows.                                                            *)
LEMMA DiarioCresce ==
  ASSUME diario \subseteq diario', NEW i, NEW c
  PROVE  /\ Provado(i, c) => Provado(i, c)'
         /\ ReferenciaSelada(i) => ReferenciaSelada(i)'
BY DEF Provado, ReferenciaSelada, Selado

(* What a redaction takes out depends on what it copied alone.             *)
LEMMA RemovidosPermanecem ==
  ASSUME NEW q, processos'[q].copia = processos[q].copia, processos'[q].id = processos[q].id
  PROVE  Removidos(q)' = Removidos(q)
<1>1. Saem(q)' = Saem(q)
  BY Zenon DEF Saem
<1>. QED
  BY <1>1, Zenon DEF Removidos

(* A command that a step does not move keeps what is said of it.           *)
LEMMA ProcessoPermanece ==
  ASSUME NEW q \in Processos, ProcessoFiel(q), processos'[q] = processos[q],
         diario \subseteq diario', expurgos > 0 => expurgos' > 0, expurgos' = 0 => expurgos = 0,
         \A t \in Travas : travas[t] = q => travas'[t] = q,
         processos[q] \in Trabalhos,
         (expurgos' = 0 /\ processos[q].pc \in {"selar", "apendar"} /\ TemLinha(processos[q].id)')
           => TemLinha(processos[q].id)
  PROVE  ProcessoFiel(q)'
<1>1. \A i, c : /\ Provado(i, c) => Provado(i, c)'
                /\ ReferenciaSelada(i) => ReferenciaSelada(i)'
  BY DiarioCresce
<1>2. Removidos(q)' = Removidos(q)
  BY RemovidosPermanecem
<1>3. (processos[q].pc \in {"travar", "selar", "apendar"} => ReferenciaSelada(processos[q].id))'
  BY <1>1 DEF ProcessoFiel
<1>4. (processos[q].pc \in {"selar", "apendar"} => travas[TravaDe[Loja[processos[q].id]]] = q)'
  <2>. SUFFICES ASSUME processos[q].pc \in {"selar", "apendar"}
                PROVE  travas'[TravaDe[Loja[processos[q].id]]] = q
    OBVIOUS
  <2>1. processos[q].id \in Ids
    BY DEF Trabalhos, Parado
  <2>2. TravaDe[Loja[processos[q].id]] \in Travas
    BY <2>1
  <2>. QED
    BY <2>2 DEF ProcessoFiel
<1>5. (processos[q].pc = "apendar" => processos[q].novo /\ Provado(processos[q].id, processos[q].conteudo))'
  BY <1>1 DEF ProcessoFiel
<1>6. ((processos[q].pc \in {"selar", "apendar"} /\ processos[q].novo /\ expurgos = 0) =>
         ~TemLinha(processos[q].id))'
  <2>. SUFFICES ASSUME processos[q].pc \in {"selar", "apendar"}, processos[q].novo, expurgos' = 0
                PROVE  ~TemLinha(processos[q].id)'
    OBVIOUS
  <2>1. ~TemLinha(processos[q].id)
    BY DEF ProcessoFiel
  <2>. QED
    BY <2>1
<1>7. (processos[q].pc \in {"copiar", "recibo", "truncar", "escrever"} =>
         expurgos > 0 /\ Checkpoint(processos[q].id, processos[q].motivo) \in diario)'
  BY DEF ProcessoFiel, Checkpoint
<1>8. (processos[q].pc \in {"recibo", "truncar", "escrever"} =>
         \A x \in processos[q].copia :
           Loja[x.id] = Loja[processos[q].id] /\ Provado(x.id, x.conteudo) /\ ReferenciaSelada(x.id))'
  BY <1>1 DEF ProcessoFiel
<1>9. (processos[q].pc \in {"truncar", "escrever"} => ReciboDe(q) \in diario)'
  BY <1>2 DEF ProcessoFiel, ReciboDe, Recibo
<1>. QED
  BY <1>3, <1>4, <1>5, <1>6, <1>7, <1>8, <1>9 DEF ProcessoFiel

(* What a command that redacts is, once it has copied the file.            *)
Expurgos ==
  [pc : {"recibo", "truncar", "escrever"}, id : Ids, motivo : Motivos, copia : SUBSET Textos]

Reconciliados ==
  \A i \in Ids, c \in Conteudos :
    Reconciliacao(i, c) \in diario => \E d \in Conteudos : Selado(i, d)

(* A step of one command that touches no file and only adds to the chain.  *)
LEMMA SoProcesso ==
  ASSUME IInv, TypeOK', NEW p \in Processos, ProcessoFiel(p)', Reconciliados',
         UNCHANGED arquivos, diario \subseteq diario',
         expurgos > 0 => expurgos' > 0, expurgos' = 0 => expurgos = 0,
         \A q \in Processos \ {p} : processos'[q] = processos[q],
         \A q \in Processos \ {p}, t \in Travas : travas[t] = q => travas'[t] = q
  PROVE  IInv'
<1>1. \A q \in Processos \ {p} : ProcessoFiel(q)'
  <2>. SUFFICES ASSUME NEW q \in Processos \ {p} PROVE ProcessoFiel(q)'
    OBVIOUS
  <2>1. processos'[q] = processos[q] /\ ProcessoFiel(q) /\ processos[q] \in Trabalhos
    BY DEF IInv, TypeOK
  <2>2. TemLinha(processos[q].id)' => TemLinha(processos[q].id)
    BY <2>1 DEF TemLinha
  <2>. QED
    BY <2>1, <2>2, ProcessoPermanece
<1>2. SelaPrimeiro'
  BY DiarioCresce DEF IInv, SelaPrimeiro
<1>3. IdentidadeUnica'
  BY DEF IInv, IdentidadeUnica, Unica
<1>4. (\A l \in Lojas : \A x \in arquivos[l] : Loja[x.id] = l)'
  BY DEF IInv
<1>. QED
  BY <1>1, <1>2, <1>3, <1>4 DEF IInv, Reconciliados

(* Nothing new is reconciled where no reconciliation is sealed.            *)
LEMMA SemReconciliar ==
  ASSUME Reconciliados, diario \subseteq diario', \A e \in diario' \ diario : e.tipo # "reconciliacao"
  PROVE  Reconciliados'
<1>1. \A i \in Ids, c \in Conteudos : Reconciliacao(i, c)' \in diario' => Reconciliacao(i, c) \in diario
  BY DEF Reconciliacao
<1>. QED
  BY <1>1 DEF Reconciliados, Selado, Reconciliacao, Registro

LEMMA IInvInicial == Init => IInv
<1>. SUFFICES ASSUME Init PROVE IInv
  OBVIOUS
<1>1. TypeOK
  BY DEF Init, TypeOK, Trabalhos, Parado
<1>2. \A p \in Processos : ProcessoFiel(p)
  BY DEF Init, ProcessoFiel, Parado
<1>. QED
  BY <1>1, <1>2 DEF Init, IInv, SelaPrimeiro, IdentidadeUnica, Unica, Reconciliacao

------------------------------------------------------------------------------
(* One lemma for each step.                                                *)

LEMMA PassoPedir ==
  ASSUME IInv, NEW p \in Processos, NEW i \in Ids, NEW c \in Conteudos, Pedir(p, i, c),
         ReferenciaSelada(i)
  PROVE  IInv'
<1>. DEFINE e == [pc |-> "travar", id |-> i, conteudo |-> c]
<1>1. e \in Trabalhos
  BY DEF Trabalhos
<1>2. processos'[p] = e /\ \A q \in Processos \ {p} : processos'[q] = processos[q]
  BY DEF IInv, TypeOK, Pedir
<1>3. TypeOK'
  BY <1>1 DEF IInv, TypeOK, Pedir
<1>4. ProcessoFiel(p)'
  <2>1. ReferenciaSelada(i)'
    BY DiarioCresce DEF Pedir
  <2>. QED
    BY <1>2, <2>1 DEF ProcessoFiel
<1>5. Reconciliados'
  BY SemReconciliar DEF IInv, Reconciliados, Pedir
<1>. QED
  BY <1>2, <1>3, <1>4, <1>5, SoProcesso DEF Pedir

LEMMA PassoRegistrar ==
  ASSUME IInv, NEW p \in Processos, NEW i \in Registros, Registrar(p, i)
  PROVE  IInv'
<1>1. PICK c \in Conteudos : Pedir(p, i, c)
  BY DEF Registrar
<1>2. i \in Ids
  BY DEF Ids
<1>3. ReferenciaSelada(i)
  <2>. SUFFICES ASSUME Referencia[i] # Nenhuma PROVE \E d \in Conteudos : Selado(Referencia[i], d)
    BY DEF ReferenciaSelada
  <2>1. Referencia[i] \in Ids
    BY <1>2
  <2>2. PICK x \in arquivos[Loja[Referencia[i]]] : x.id = Referencia[i]
    BY DEF Registrar, TemLinha
  <2>3. Loja[Referencia[i]] \in Lojas
    BY <2>1
  <2>4. Provado(x.id, x.conteudo) /\ x \in Textos
    BY <2>2, <2>3 DEF IInv, TypeOK, SelaPrimeiro
  <2>5. x.conteudo \in Conteudos
    BY <2>4 DEF Textos
  <2>. QED
    BY <2>1, <2>2, <2>4, <2>5 DEF Provado, IInv
<1>. QED
  BY <1>1, <1>2, <1>3, PassoPedir

LEMMA PassoRegistrarPonto ==
  ASSUME IInv, NEW p \in Processos, NEW i \in Pontos, RegistrarPonto(p, i)
  PROVE  IInv'
<1>1. i \in Ids /\ ReferenciaSelada(i)
  BY DEF Ids, ReferenciaSelada
<1>2. preco \in Conteudos
  BY DEF IInv, TypeOK
<1>. QED
  BY <1>1, <1>2, PassoPedir DEF RegistrarPonto

(* What a command that does nothing is.                                    *)
LEMMA PassoParar ==
  ASSUME IInv, TypeOK', NEW p \in Processos, processos' = [processos EXCEPT ![p] = Parado],
         UNCHANGED arquivos, diario \subseteq diario', Reconciliados',
         UNCHANGED expurgos,
         \A q \in Processos \ {p}, t \in Travas : travas[t] = q => travas'[t] = q
  PROVE  IInv'
<1>1. processos'[p] = Parado /\ \A q \in Processos \ {p} : processos'[q] = processos[q]
  BY DEF IInv, TypeOK
<1>2. ProcessoFiel(p)'
  BY <1>1 DEF ProcessoFiel, Parado
<1>. QED
  BY <1>1, <1>2, SoProcesso

LEMMA Largar ==
  ASSUME TypeOK, NEW p \in Processos, travas' = Soltas(p)
  PROVE  /\ travas' \in [Travas -> Processos \cup {Ninguem}]
         /\ \A q \in Processos \ {p}, t \in Travas : travas[t] = q => travas'[t] = q
BY DEF TypeOK, Soltas

LEMMA LargarPasta ==
  ASSUME TypeOK, NEW p \in Processos, redacao' = Livres(p)
  PROVE  redacao' \in [Pastas -> Processos \cup {Ninguem}]
BY DEF TypeOK, Livres

LEMMA PassoTomar ==
  ASSUME IInv, NEW p \in Processos, Tomar(p)
  PROVE  IInv'
<1>1. PICK i \in Ids, c \in Conteudos : processos[p] = [pc |-> "travar", id |-> i, conteudo |-> c]
  BY DEF IInv, TypeOK, Tomar, Trabalhos, Parado
<1>2. PICK t \in Travas : t = TravaDe[Loja[i]]
  OBVIOUS
<1>3. PICK e \in [pc : {"selar"}, id : {i}, conteudo : Conteudos, novo : BOOLEAN] :
        processos' = [processos EXCEPT ![p] = e] /\ (e.novo => ~TemLinha(i))
  <2>1. CASE ~TemLinha(i) /\ processos' = [processos EXCEPT ![p] =
                    [pc |-> "selar", id |-> i, conteudo |-> @.conteudo, novo |-> TRUE]]
    <3>. DEFINE r == [pc |-> "selar", id |-> i, conteudo |-> c, novo |-> TRUE]
    <3>1. processos' = [processos EXCEPT ![p] = r]
      BY <1>1, <2>1
    <3>2. r \in [pc : {"selar"}, id : {i}, conteudo : Conteudos, novo : BOOLEAN]
      OBVIOUS
    <3>3. r.novo => ~TemLinha(i)
      BY <2>1
    <3>. HIDE DEF r
    <3>. QED
      BY <3>1, <3>2, <3>3
  <2>2. CASE \E x \in arquivos[Loja[i]] :
                 processos' = [processos EXCEPT ![p] =
                      [pc |-> "selar", id |-> i, conteudo |-> x.conteudo, novo |-> FALSE]]
    <3>1. PICK x \in arquivos[Loja[i]] :
                 processos' = [processos EXCEPT ![p] =
                      [pc |-> "selar", id |-> i, conteudo |-> x.conteudo, novo |-> FALSE]]
      BY <2>2
    <3>2. x.conteudo \in Conteudos
      BY DEF IInv, TypeOK, Textos
    <3>. DEFINE e == [pc |-> "selar", id |-> i, conteudo |-> x.conteudo, novo |-> FALSE]
    <3>3. e \in [pc : {"selar"}, id : {i}, conteudo : Conteudos, novo : BOOLEAN] /\ ~e.novo
      BY <3>2
    <3>. QED
      BY <3>1, <3>3
  <2>. QED
    BY <1>1, <2>1, <2>2 DEF Tomar
<1>4. e \in Trabalhos
  BY DEF Trabalhos
<1>5. processos'[p] = e /\ \A q \in Processos \ {p} : processos'[q] = processos[q]
  BY <1>3 DEF IInv, TypeOK
<1>6. travas[t] = Ninguem /\ travas' = [travas EXCEPT ![t] = p]
  BY <1>1, <1>2 DEF Tomar
<1>7. TypeOK'
  BY <1>3, <1>4, <1>6 DEF IInv, TypeOK, Tomar
<1>8. ProcessoFiel(p)'
  <2>1. ReferenciaSelada(i)'
    <3>1. ReferenciaSelada(i) /\ diario' = diario
      BY <1>1 DEF Tomar, IInv, ProcessoFiel
    <3>. QED
      BY <3>1, DiarioCresce
  <2>2. travas'[TravaDe[Loja[i]]] = p
    BY <1>2, <1>6 DEF IInv, TypeOK
  <2>3. e.novo => ~TemLinha(i)'
    BY <1>3 DEF TemLinha, Tomar
  <2>4. e.pc = "selar" /\ e.id = i
    OBVIOUS
  <2>. QED
    BY <1>5, <2>1, <2>2, <2>3, <2>4 DEF ProcessoFiel
<1>9. Reconciliados'
  BY SemReconciliar DEF IInv, Reconciliados, Tomar
<1>10. \A q \in Processos \ {p}, s \in Travas : travas[s] = q => travas'[s] = q
  BY <1>6 DEF IInv, TypeOK
<1>. QED
  BY <1>5, <1>7, <1>8, <1>9, <1>10, SoProcesso DEF Tomar

LEMMA PassoDivergir ==
  ASSUME IInv, NEW p \in Processos, Divergir(p)
  PROVE  IInv'
<1>1. TypeOK'
  BY DEF IInv, TypeOK, Divergir, Trabalhos
<1>2. Reconciliados'
  BY SemReconciliar DEF IInv, Reconciliados, Divergir
<1>. QED
  BY <1>1, <1>2, PassoParar DEF Divergir

LEMMA PassoDesistir ==
  ASSUME IInv, NEW p \in Processos, LeituraLevanta(p) \/ NadaAExpurgar(p) \/ ReciboRecusado(p)
  PROVE  IInv'
<1>1. /\ processos' = [processos EXCEPT ![p] = Parado]
      /\ UNCHANGED <<arquivos, rasgadas, travas, diario, preco, precos, expurgos, quedas>>
      /\ redacao' = redacao \/ redacao' = Livres(p)
  BY DEF LeituraLevanta, NadaAExpurgar, ReciboRecusado
<1>2. TypeOK'
  BY <1>1, LargarPasta DEF IInv, TypeOK, Trabalhos
<1>3. Reconciliados'
  BY <1>1, SemReconciliar DEF IInv, Reconciliados
<1>. QED
  BY <1>1, <1>2, <1>3, PassoParar

LEMMA PassoLevanta ==
  ASSUME IInv, NEW p \in Processos, SelagemLevanta(p)
  PROVE  IInv'
<1>1. TypeOK'
  BY Largar DEF IInv, TypeOK, SelagemLevanta, Trabalhos
<1>2. Reconciliados'
  BY SemReconciliar DEF IInv, Reconciliados, SelagemLevanta
<1>. QED
  BY <1>1, <1>2, PassoParar, Largar DEF SelagemLevanta, IInv

LEMMA PassoQueda ==
  ASSUME IInv, NEW p \in Processos, Queda(p)
  PROVE  IInv'
<1>1. TypeOK'
  BY Largar, LargarPasta DEF IInv, TypeOK, Queda, Trabalhos
<1>2. Reconciliados'
  BY SemReconciliar DEF IInv, Reconciliados, Queda
<1>. QED
  BY <1>1, <1>2, PassoParar, Largar DEF Queda, IInv

LEMMA PassoSelar ==
  ASSUME IInv, NEW p \in Processos, Selar(p)
  PROVE  IInv'
<1>0. processos[p] \in [pc : {"selar", "apendar"}, id : Ids, conteudo : Conteudos, novo : BOOLEAN]
  BY DEF IInv, TypeOK, Selar, Trabalhos, Parado
<1>2. PICK i \in Ids, c \in Conteudos : i = processos[p].id /\ c = processos[p].conteudo
  BY <1>0
<1>1. processos[p] = [pc |-> "selar", id |-> i, conteudo |-> c, novo |-> processos[p].novo]
      /\ processos[p].novo \in BOOLEAN
  BY <1>0, <1>2 DEF Selar
<1>3. Aceita(i, c) /\ diario' = IF \E d \in Conteudos : Selado(i, d) THEN diario ELSE diario \cup {Registro(i, c)}
  BY <1>2 DEF Selar
<1>4. diario \subseteq diario' /\ \A e \in diario' \ diario : e.tipo # "reconciliacao"
  BY <1>3 DEF Registro
<1>5. Provado(i, c)'
  <2>1. CASE \E d \in Conteudos : Selado(i, d)
    <3>1. Provado(i, c)
      BY <1>3, <2>1 DEF Aceita, Provado
    <3>. QED
      BY <3>1, <1>4, DiarioCresce
  <2>2. CASE ~\E d \in Conteudos : Selado(i, d)
    <3>1. Registro(i, c) \in diario'
      BY <1>3, <2>2
    <3>. QED
      BY <3>1 DEF Provado, Selado, Registro
  <2>. QED
    BY <2>1, <2>2
<1>6. Reconciliados'
  BY <1>4, SemReconciliar DEF IInv, Reconciliados
<1>7. CASE processos[p].novo /\ processos' = [processos EXCEPT ![p].pc = "apendar"] /\ UNCHANGED travas
  <2>0. PICK r \in [pc : {"selar", "apendar"}, id : Ids, conteudo : Conteudos, novo : BOOLEAN] :
          r = processos[p]
    BY <1>0
  <2>. DEFINE e == [r EXCEPT !.pc = "apendar"]
  <2>1. processos'[p] = e /\ \A q \in Processos \ {p} : processos'[q] = processos[q]
    <3>1. processos' = [processos EXCEPT ![p] = e]
      BY <1>7, <2>0
    <3>. HIDE DEF e
    <3>. QED
      BY <3>1 DEF IInv, TypeOK
  <2>2. e \in Trabalhos /\ e.id = i /\ e.conteudo = c /\ e.pc = "apendar" /\ e.novo
    BY <1>2, <1>7, <2>0 DEF Trabalhos
  <2>3. TypeOK'
    BY <1>7, <2>1, <2>2 DEF IInv, TypeOK, Selar
  <2>4. ProcessoFiel(p)'
    <3>1. ReferenciaSelada(i)'
      BY <1>2, <1>4, DiarioCresce DEF IInv, ProcessoFiel, Selar
    <3>2. travas'[TravaDe[Loja[i]]] = p
      BY <1>2, <1>7 DEF IInv, ProcessoFiel, Selar
    <3>3. expurgos' = 0 => ~TemLinha(i)'
      BY <1>2, <1>7 DEF IInv, ProcessoFiel, Selar, TemLinha
    <3>. QED
      BY <1>5, <2>1, <2>2, <3>1, <3>2, <3>3 DEF ProcessoFiel
  <2>. QED
    BY <1>4, <1>6, <1>7, <2>1, <2>3, <2>4, SoProcesso DEF Selar
<1>8. CASE processos' = [processos EXCEPT ![p] = Parado] /\ travas' = Soltas(p)
  <2>1. TypeOK'
    BY <1>8, Largar DEF IInv, TypeOK, Selar, Trabalhos
  <2>. QED
    BY <1>4, <1>6, <1>8, <2>1, PassoParar, Largar DEF Selar, IInv
<1>. QED
  BY <1>7, <1>8 DEF Selar

(* The new line is sealed, and no other line has its identity unless       *)
(* something was redacted: nobody else holds the lock.                     *)
LEMMA PassoApendar ==
  ASSUME IInv, NEW p \in Processos, Apendar(p)
  PROVE  IInv'
<1>0. processos[p] \in [pc : {"selar", "apendar"}, id : Ids, conteudo : Conteudos, novo : BOOLEAN]
  BY DEF IInv, TypeOK, Apendar, Trabalhos, Parado
<1>1. PICK i \in Ids, c \in Conteudos : i = processos[p].id /\ c = processos[p].conteudo
  BY <1>0
<1>2. PICK l \in Lojas : l = Loja[i]
  OBVIOUS
<1>3. PICK n \in Lugares(arquivos[l]) :
        arquivos' = [arquivos EXCEPT ![l] = @ \cup {Linha(n + 1, i, c)}]
  BY <1>1, <1>2 DEF Apendar
<1>4. n \in Nat
  BY DEF IInv, TypeOK, Textos, Lugares
<1>5. PICK x : x = Linha(n + 1, i, c)
  OBVIOUS
<1>6. x \in Textos /\ x.id = i /\ x.conteudo = c
  BY <1>4, <1>5 DEF Linha, Textos
<1>7. arquivos'[l] = arquivos[l] \cup {x} /\ \A m \in Lojas \ {l} : arquivos'[m] = arquivos[m]
  BY <1>3, <1>5 DEF IInv, TypeOK
<1>8. processos'[p] = Parado /\ \A q \in Processos \ {p} : processos'[q] = processos[q]
  BY DEF IInv, TypeOK, Apendar
<1>9. TypeOK'
  <2>1. arquivos' \in [Lojas -> SUBSET Textos]
    BY <1>3, <1>5, <1>6 DEF IInv, TypeOK
  <2>2. travas' \in [Travas -> Processos \cup {Ninguem}]
    BY Largar DEF IInv, Apendar
  <2>. QED
    BY <2>1, <2>2 DEF IInv, TypeOK, Apendar, Trabalhos
<1>10. Provado(i, c) /\ ReferenciaSelada(i) /\ processos[p].novo /\ (expurgos = 0 => ~TemLinha(i))
       /\ travas[TravaDe[l]] = p
  BY <1>1, <1>2 DEF IInv, ProcessoFiel, Apendar
<1>11. (\A m \in Lojas : \A y \in arquivos[m] : Loja[y.id] = m)'
  BY <1>2, <1>6, <1>7 DEF IInv
<1>12. SelaPrimeiro'
  <2>1. \A m \in Lojas : \A y \in arquivos'[m] : Provado(y.id, y.conteudo) /\ ReferenciaSelada(y.id)
    BY <1>6, <1>7, <1>10 DEF IInv, SelaPrimeiro
  <2>. QED
    BY <2>1, DiarioCresce DEF SelaPrimeiro, Apendar
<1>13. IdentidadeUnica'
  <2>. SUFFICES ASSUME expurgos = 0 PROVE \A m \in Lojas : Unica(m)'
    BY DEF IdentidadeUnica, Apendar
  <2>1. \A m \in Lojas : Unica(m)
    BY DEF IInv, IdentidadeUnica
  <2>2. \A y \in arquivos[l] : y.id # i
    BY <1>2, <1>10 DEF TemLinha
  <2>3. Unica(l)'
    BY <1>6, <1>7, <2>1, <2>2 DEF Unica
  <2>. QED
    BY <1>7, <2>1, <2>3 DEF Unica
<1>14. \A q \in Processos \ {p} : ProcessoFiel(q)'
  <2>. SUFFICES ASSUME NEW q \in Processos \ {p} PROVE ProcessoFiel(q)'
    OBVIOUS
  <2>1. processos'[q] = processos[q] /\ ProcessoFiel(q) /\ processos[q] \in Trabalhos
    BY <1>8 DEF IInv, TypeOK
  <2>2. \A t \in Travas : travas[t] = q => travas'[t] = q
    BY Largar DEF IInv, Apendar
  <2>3. (processos[q].pc \in {"selar", "apendar"} /\ TemLinha(processos[q].id)')
           => TemLinha(processos[q].id)
    <3>. SUFFICES ASSUME processos[q].pc \in {"selar", "apendar"}, TemLinha(processos[q].id)'
                  PROVE  TemLinha(processos[q].id)
      OBVIOUS
    <3>1. processos[q].id \in Ids
      BY <2>1 DEF Trabalhos, Parado
    <3>2. travas[TravaDe[Loja[processos[q].id]]] = q
      BY <2>1 DEF ProcessoFiel
    <3>3. Loja[processos[q].id] # l
      BY <1>10, <3>2
    <3>. QED
      BY <1>7, <2>1, <3>1, <3>3 DEF TemLinha
  <2>. QED
    BY <2>1, <2>2, <2>3, ProcessoPermanece DEF Apendar
<1>15. ProcessoFiel(p)'
  BY <1>8 DEF ProcessoFiel, Parado
<1>16. Reconciliados'
  BY SemReconciliar DEF IInv, Reconciliados, Apendar
<1>. QED
  BY <1>9, <1>11, <1>12, <1>13, <1>14, <1>15, <1>16 DEF IInv, Reconciliados

LEMMA PassoJustificar ==
  ASSUME IInv, NEW p \in Processos, NEW i \in Ids, NEW m \in Motivos, Justificar(p, i, m)
  PROVE  IInv'
<1>. DEFINE e == [pc |-> "copiar", id |-> i, motivo |-> m]
<1>1. processos'[p] = e /\ \A q \in Processos \ {p} : processos'[q] = processos[q]
  BY DEF IInv, TypeOK, Justificar
<1>2. e \in Trabalhos
  BY DEF Trabalhos
<1>3. TypeOK'
  BY <1>2 DEF IInv, TypeOK, Justificar
<1>4. diario \subseteq diario' /\ \A d \in diario' \ diario : d.tipo # "reconciliacao"
  BY DEF Justificar, Checkpoint
<1>5. Reconciliados'
  BY <1>4, SemReconciliar DEF IInv, Reconciliados
<1>6. ProcessoFiel(p)'
  <2>1. expurgos' > 0 /\ Checkpoint(i, m) \in diario'
    BY DEF IInv, TypeOK, Justificar
  <2>. QED
    BY <1>1, <2>1 DEF ProcessoFiel, Checkpoint
<1>7. expurgos' > 0
  BY DEF IInv, TypeOK, Justificar
<1>. QED
  BY <1>1, <1>3, <1>4, <1>5, <1>6, <1>7, SoProcesso DEF Justificar

LEMMA PassoCopiar ==
  ASSUME IInv, NEW p \in Processos, Copiar(p)
  PROVE  IInv'
<1>1. PICK i \in Ids, m \in Motivos : processos[p] = [pc |-> "copiar", id |-> i, motivo |-> m]
  BY DEF IInv, TypeOK, Copiar, Trabalhos, Parado
<1>2. Reconciliados'
  BY SemReconciliar DEF IInv, Reconciliados, Copiar
<1>3. PICK e : e = [pc |-> "recibo", id |-> i, motivo |-> m, copia |-> arquivos[Loja[i]]]
  OBVIOUS
<1>4. e \in Trabalhos
  BY <1>3 DEF IInv, TypeOK, Trabalhos
<1>5. processos' = [processos EXCEPT ![p] = e]
  BY <1>1, <1>3 DEF Copiar
<1>6. processos'[p] = e /\ \A q \in Processos \ {p} : processos'[q] = processos[q]
  BY <1>5 DEF IInv, TypeOK
<1>7. TypeOK'
  <2>1. redacao' \in [Pastas -> Processos \cup {Ninguem}]
    BY DEF IInv, TypeOK, Copiar
  <2>2. processos' \in [Processos -> Trabalhos]
    BY <1>4, <1>5 DEF IInv, TypeOK
  <2>. QED
    BY <2>1, <2>2 DEF IInv, TypeOK, Copiar
<1>8. \A x \in e.copia : Loja[x.id] = Loja[i] /\ Provado(x.id, x.conteudo)' /\ ReferenciaSelada(x.id)'
  <2>1. \A x \in arquivos[Loja[i]] :
           Loja[x.id] = Loja[i] /\ Provado(x.id, x.conteudo) /\ ReferenciaSelada(x.id)
    BY DEF IInv, SelaPrimeiro
  <2>. QED
    BY <1>3, <2>1, DiarioCresce DEF Copiar
<1>9. expurgos' > 0 /\ Checkpoint(i, m) \in diario'
  BY <1>1 DEF IInv, ProcessoFiel, Copiar
<1>10. e.pc = "recibo" /\ e.id = i /\ e.motivo = m
  BY <1>3
<1>11. ProcessoFiel(p)'
  BY <1>6, <1>8, <1>9, <1>10 DEF ProcessoFiel, Checkpoint
<1>. QED
  BY <1>2, <1>6, <1>7, <1>11, SoProcesso DEF Copiar

LEMMA PassoRecibo ==
  ASSUME IInv, NEW p \in Processos, SelarRecibo(p)
  PROVE  IInv'
<1>1. PICK r \in Expurgos : r = processos[p]
  BY DEF IInv, TypeOK, SelarRecibo, Trabalhos, Parado, Expurgos
<1>. DEFINE e == [r EXCEPT !.pc = "truncar"]
<1>2. e \in Trabalhos /\ e.id = r.id /\ e.copia = r.copia /\ e.motivo = r.motivo /\ e.pc = "truncar"
  BY DEF Trabalhos, Expurgos
<1>3. processos'[p] = e /\ \A q \in Processos \ {p} : processos'[q] = processos[q]
  <2>1. processos' = [processos EXCEPT ![p] = e]
    BY <1>1 DEF SelarRecibo
  <2>. HIDE DEF e
  <2>. QED
    BY <2>1 DEF IInv, TypeOK
<1>4. TypeOK'
  <2>1. processos' = [processos EXCEPT ![p] = e]
    BY <1>1 DEF SelarRecibo
  <2>. HIDE DEF e
  <2>. QED
    BY <1>2, <2>1 DEF IInv, TypeOK, SelarRecibo
<1>5. PICK rs : rs = Removidos(p)
  OBVIOUS
<1>6. diario' = diario \cup {Recibo(r.id, rs, r.motivo)}
  BY <1>1, <1>5 DEF SelarRecibo, ReciboDe
<1>7. diario \subseteq diario' /\ \A d \in diario' \ diario : d.tipo # "reconciliacao"
  BY <1>6 DEF Recibo
<1>8. Reconciliados'
  BY <1>7, SemReconciliar DEF IInv, Reconciliados
<1>9. Removidos(p)' = rs
  BY <1>1, <1>2, <1>3, <1>5, RemovidosPermanecem
<1>. HIDE DEF e
<1>10. ProcessoFiel(p)'
  <2>1. \A x \in r.copia : Loja[x.id] = Loja[r.id] /\ Provado(x.id, x.conteudo) /\ ReferenciaSelada(x.id)
    BY <1>1 DEF IInv, ProcessoFiel, SelarRecibo
  <2>2. \A x \in e.copia : Loja[x.id] = Loja[r.id] /\ Provado(x.id, x.conteudo)' /\ ReferenciaSelada(x.id)'
    BY <1>2, <1>7, <2>1, DiarioCresce
  <2>3. expurgos' > 0 /\ Checkpoint(r.id, r.motivo) \in diario'
    BY <1>1, <1>7 DEF IInv, ProcessoFiel, SelarRecibo
  <2>4. Recibo(r.id, rs, r.motivo) \in diario'
    BY <1>6
  <2>. QED
    BY <1>2, <1>3, <1>9, <2>2, <2>3, <2>4 DEF ProcessoFiel, Checkpoint, Recibo, ReciboDe
<1>. QED
  BY <1>3, <1>4, <1>7, <1>8, <1>10, SoProcesso DEF SelarRecibo

(* While a redaction runs, what the stores hold may shrink: nothing is     *)
(* claimed of identities then, and every line left was there or was copied.*)
LEMMA PassoReescrever ==
  ASSUME IInv, TypeOK', NEW p \in Processos, expurgos > 0, UNCHANGED <<diario, travas, expurgos>>,
         NEW l \in Lojas, \A m \in Lojas \ {l} : arquivos'[m] = arquivos[m],
         \A x \in arquivos'[l] : Loja[x.id] = l /\ Provado(x.id, x.conteudo) /\ ReferenciaSelada(x.id),
         ProcessoFiel(p)', \A q \in Processos \ {p} : processos'[q] = processos[q]
  PROVE  IInv'
<1>1. (\A m \in Lojas : \A y \in arquivos[m] : Loja[y.id] = m)'
  BY DEF IInv
<1>2. SelaPrimeiro'
  <2>1. \A m \in Lojas : \A y \in arquivos'[m] : Provado(y.id, y.conteudo) /\ ReferenciaSelada(y.id)
    BY DEF IInv, SelaPrimeiro
  <2>. QED
    BY <2>1, DiarioCresce DEF SelaPrimeiro
<1>3. expurgos' # 0
  BY DEF IInv, TypeOK
<1>4. IdentidadeUnica'
  BY <1>3 DEF IdentidadeUnica
<1>5. \A q \in Processos \ {p} : ProcessoFiel(q)'
  <2>. SUFFICES ASSUME NEW q \in Processos \ {p} PROVE ProcessoFiel(q)'
    OBVIOUS
  <2>1. processos'[q] = processos[q] /\ ProcessoFiel(q) /\ processos[q] \in Trabalhos
    BY DEF IInv, TypeOK
  <2>. QED
    BY <1>3, <2>1, ProcessoPermanece
<1>6. Reconciliados'
  BY SemReconciliar DEF IInv, Reconciliados
<1>. QED
  BY <1>1, <1>2, <1>4, <1>5, <1>6 DEF IInv, Reconciliados

LEMMA PassoTruncar ==
  ASSUME IInv, NEW p \in Processos, Truncar(p)
  PROVE  IInv'
<1>1. PICK r \in Expurgos : r = processos[p]
  BY DEF IInv, TypeOK, Truncar, Trabalhos, Parado, Expurgos
<1>. DEFINE e == [r EXCEPT !.pc = "escrever"]
<1>2. e \in Trabalhos /\ e.id = r.id /\ e.copia = r.copia /\ e.motivo = r.motivo /\ e.pc = "escrever"
  BY DEF Trabalhos, Expurgos
<1>3. processos' = [processos EXCEPT ![p] = e]
  BY <1>1 DEF Truncar
<1>. HIDE DEF e
<1>4. processos'[p] = e /\ \A q \in Processos \ {p} : processos'[q] = processos[q]
  BY <1>3 DEF IInv, TypeOK
<1>5. PICK l \in Lojas : l = Loja[r.id]
  BY DEF Expurgos
<1>6. arquivos' = [arquivos EXCEPT ![l] = {}]
  BY <1>1, <1>5 DEF Truncar
<1>7. TypeOK'
  <2>1. processos' \in [Processos -> Trabalhos]
    BY <1>2, <1>3 DEF IInv, TypeOK
  <2>2. arquivos' \in [Lojas -> SUBSET Textos]
    BY <1>6 DEF IInv, TypeOK
  <2>. QED
    BY <2>1, <2>2 DEF IInv, TypeOK, Truncar
<1>8. PICK rs : rs = Removidos(p)
  OBVIOUS
<1>9. Removidos(p)' = rs
  BY <1>1, <1>2, <1>4, <1>8, RemovidosPermanecem
<1>10. /\ expurgos > 0 /\ Checkpoint(r.id, r.motivo) \in diario
       /\ \A x \in r.copia : Loja[x.id] = Loja[r.id] /\ Provado(x.id, x.conteudo) /\ ReferenciaSelada(x.id)
       /\ Recibo(r.id, rs, r.motivo) \in diario
  BY <1>1, <1>8 DEF IInv, ProcessoFiel, Truncar, ReciboDe
<1>11. ProcessoFiel(p)'
  <2>1. \A x \in e.copia : Loja[x.id] = Loja[r.id] /\ Provado(x.id, x.conteudo)' /\ ReferenciaSelada(x.id)'
    BY <1>2, <1>10, DiarioCresce DEF Truncar
  <2>2. expurgos' > 0 /\ Checkpoint(r.id, r.motivo) \in diario' /\ Recibo(r.id, rs, r.motivo) \in diario'
    BY <1>10 DEF Truncar
  <2>. QED
    BY <1>2, <1>4, <1>9, <2>1, <2>2 DEF ProcessoFiel, Checkpoint, Recibo, ReciboDe
<1>12. arquivos'[l] = {} /\ \A m \in Lojas \ {l} : arquivos'[m] = arquivos[m]
  BY <1>6 DEF IInv, TypeOK
<1>. QED
  BY <1>4, <1>7, <1>10, <1>11, <1>12, PassoReescrever DEF Truncar

(* Of what is written over, whole lines stay as they are but for their     *)
(* place.                                                                  *)
LEMMA SobramFieis ==
  ASSUME IInv, NEW p \in Processos, NEW l \in Lojas, l = Loja[processos[p].id],
         NEW n \in Nat, NEW fim \in Nat
  PROVE  \A x \in Sobram(p, n, fim) :
           x \in Textos /\ \E y \in arquivos[l] : x.id = y.id /\ x.conteudo = y.conteudo
<1>. SUFFICES ASSUME NEW x \in Sobram(p, n, fim)
              PROVE  x \in Textos /\ \E y \in arquivos[l] : x.id = y.id /\ x.conteudo = y.conteudo
  OBVIOUS
<1>1. PICK y \in arquivos[l] : x = [y EXCEPT !.pos = @ + fim]
  BY DEF Sobram
<1>2. y \in Textos
  BY DEF IInv, TypeOK
<1>. QED
  BY <1>1, <1>2 DEF Textos

LEMMA PassoEscrever ==
  ASSUME IInv, NEW p \in Processos, Escrever(p)
  PROVE  IInv'
<1>1. PICK r \in Expurgos : r = processos[p]
  BY DEF IInv, TypeOK, Escrever, Trabalhos, Parado, Expurgos
<1>2. PICK l \in Lojas : l = Loja[r.id]
  BY DEF Expurgos
<1>3. /\ Restantes(p) \subseteq r.copia /\ r.copia \subseteq Textos
      /\ \A S : S \subseteq Textos => Lugares(S) \subseteq Nat
  BY <1>1 DEF Restantes, Expurgos, Lugares, Textos
<1>4. PICK S \in SUBSET Textos :
        /\ arquivos' = [arquivos EXCEPT ![l] = S]
        /\ \A x \in S : \/ x \in r.copia
                       \/ \E y \in arquivos[l] : x.id = y.id /\ x.conteudo = y.conteudo
        /\ rasgadas' \subseteq Lojas
  <2>1. CASE Sobrescrever(p)
    <3>1. PICK n \in Lugares(arquivos[l]), fim \in Lugares(Restantes(p)) :
            /\ arquivos' = [arquivos EXCEPT ![l] = Restantes(p) \cup Sobram(p, n, fim)]
            /\ rasgadas' = rasgadas \/ rasgadas' = rasgadas \cup {l}
      BY <1>1, <1>2, <2>1 DEF Sobrescrever
    <3>2. n \in Nat /\ fim \in Nat
      BY <1>3 DEF IInv, TypeOK
    <3>. DEFINE T == Restantes(p) \cup Sobram(p, n, fim)
    <3>3. \A x \in Sobram(p, n, fim) :
             x \in Textos /\ \E y \in arquivos[l] : x.id = y.id /\ x.conteudo = y.conteudo
      BY <1>1, <1>2, <3>2, SobramFieis
    <3>4. /\ T \in SUBSET Textos
          /\ \A x \in T : \/ x \in r.copia
                         \/ \E y \in arquivos[l] : x.id = y.id /\ x.conteudo = y.conteudo
      BY <1>3, <3>3
    <3>5. arquivos' = [arquivos EXCEPT ![l] = T] /\ rasgadas' \subseteq Lojas
      BY <3>1 DEF IInv, TypeOK
    <3>. HIDE DEF T
    <3>. QED
      BY <3>4, <3>5
  <2>2. CASE NadaAEscrever(p)
    BY <2>2 DEF NadaAEscrever, IInv, TypeOK
  <2>. QED
    BY <2>1, <2>2 DEF Escrever
<1>6. TypeOK'
  <2>1. redacao' \in [Pastas -> Processos \cup {Ninguem}]
    BY LargarPasta DEF IInv, Escrever
  <2>. QED
    BY <1>4, <2>1 DEF IInv, TypeOK, Escrever, Trabalhos
<1>7. processos'[p] = Parado /\ \A q \in Processos \ {p} : processos'[q] = processos[q]
  BY DEF IInv, TypeOK, Escrever
<1>8. ProcessoFiel(p)'
  BY <1>7 DEF ProcessoFiel, Parado
<1>9. /\ expurgos > 0
      /\ \A x \in r.copia : Loja[x.id] = l /\ Provado(x.id, x.conteudo) /\ ReferenciaSelada(x.id)
      /\ \A x \in arquivos[l] : Loja[x.id] = l /\ Provado(x.id, x.conteudo) /\ ReferenciaSelada(x.id)
  BY <1>1, <1>2 DEF IInv, ProcessoFiel, SelaPrimeiro, Escrever
<1>10. arquivos'[l] = S /\ \A m \in Lojas \ {l} : arquivos'[m] = arquivos[m]
  BY <1>4 DEF IInv, TypeOK
<1>11. \A x \in arquivos'[l] : Loja[x.id] = l /\ Provado(x.id, x.conteudo) /\ ReferenciaSelada(x.id)
  BY <1>4, <1>9, <1>10
<1>. QED
  BY <1>6, <1>7, <1>8, <1>9, <1>10, <1>11, PassoReescrever DEF Escrever

(* No command moves.                                                       *)
LEMMA SemProcesso ==
  ASSUME IInv, TypeOK', Reconciliados', UNCHANGED <<arquivos, processos, expurgos, travas>>,
         diario \subseteq diario'
  PROVE  IInv'
<1>1. \A q \in Processos : ProcessoFiel(q)'
  <2>. SUFFICES ASSUME NEW q \in Processos PROVE ProcessoFiel(q)'
    OBVIOUS
  <2>1. processos'[q] = processos[q] /\ ProcessoFiel(q) /\ processos[q] \in Trabalhos
    BY DEF IInv, TypeOK
  <2>2. TemLinha(processos[q].id)' => TemLinha(processos[q].id)
    BY DEF TemLinha
  <2>. QED
    BY <2>1, <2>2, ProcessoPermanece
<1>2. SelaPrimeiro'
  BY DiarioCresce DEF IInv, SelaPrimeiro
<1>3. IdentidadeUnica' /\ (\A l \in Lojas : \A x \in arquivos[l] : Loja[x.id] = l)'
  BY DEF IInv, IdentidadeUnica, Unica
<1>. QED
  BY <1>1, <1>2, <1>3 DEF IInv, Reconciliados

LEMMA PassoReconciliar ==
  ASSUME IInv, NEW i \in Ids, NEW c \in Conteudos, Reconciliar(i, c)
  PROVE  IInv'
<1>1. TypeOK'
  BY DEF IInv, TypeOK, Reconciliar
<1>2. diario \subseteq diario'
  BY DEF Reconciliar
<1>3. Reconciliados'
  <2>1. \A j \in Ids, b \in Conteudos : Reconciliacao(j, b) \in diario' => Reconciliacao(j, b) \in diario \/ j = i
    BY DEF Reconciliar, Reconciliacao
  <2>2. \E d \in Conteudos : Selado(i, d)
    BY DEF Reconciliar
  <2>3. \A j \in Ids, b \in Conteudos : Reconciliacao(j, b) \in diario' => \E d \in Conteudos : Registro(j, d) \in diario'
    BY <1>2, <2>1, <2>2 DEF IInv, Selado
  <2>. QED
    BY <2>3 DEF Reconciliados, Selado, Registro, Reconciliacao
<1>. QED
  BY <1>1, <1>2, <1>3, SemProcesso DEF Reconciliar

LEMMA PassoReprecificar ==
  ASSUME IInv, Reprecificar \/ UNCHANGED vars
  PROVE  IInv'
<1>1. TypeOK'
  BY DEF IInv, TypeOK, Reprecificar, vars
<1>2. Reconciliados'
  BY SemReconciliar DEF IInv, Reconciliados, Reprecificar, vars
<1>. QED
  BY <1>1, <1>2, SemProcesso DEF Reprecificar, vars

LEMMA IInvPasso == IInv /\ [Next]_vars => IInv'
<1>. SUFFICES ASSUME IInv, [Next]_vars PROVE IInv'
  OBVIOUS
<1>1. ASSUME NEW p \in Processos, NEW i \in Registros, Registrar(p, i) PROVE IInv'
  BY <1>1, PassoRegistrar
<1>2. ASSUME NEW p \in Processos, NEW i \in Pontos, RegistrarPonto(p, i) PROVE IInv'
  BY <1>2, PassoRegistrarPonto
<1>3. ASSUME NEW p \in Processos, Tomar(p) \/ Divergir(p) \/ LeituraLevanta(p) PROVE IInv'
  BY <1>3, PassoTomar, PassoDivergir, PassoDesistir
<1>4. ASSUME NEW p \in Processos, Passo(p) PROVE IInv'
  BY <1>4, PassoSelar, PassoLevanta, PassoApendar, PassoCopiar, PassoDesistir, PassoRecibo,
     PassoTruncar, PassoEscrever DEF Passo
<1>5. ASSUME NEW p \in Processos, Queda(p) PROVE IInv'
  BY <1>5, PassoQueda
<1>6. ASSUME NEW p \in Processos, NEW i \in Ids, NEW m \in Motivos, Justificar(p, i, m) PROVE IInv'
  BY <1>6, PassoJustificar
<1>7. ASSUME NEW i \in Ids, NEW c \in Conteudos, Reconciliar(i, c) PROVE IInv'
  BY <1>7, PassoReconciliar
<1>8. ASSUME Reprecificar \/ UNCHANGED vars PROVE IInv'
  BY <1>8, PassoReprecificar
<1>. QED
  BY <1>1, <1>2, <1>3, <1>4, <1>5, <1>6, <1>7, <1>8 DEF Next

(* A redaction rewrites its own store, and nothing else takes a line out.  *)
LEMMA OutrasLojas ==
  ASSUME TypeOK, NEW p \in Processos, Truncar(p) \/ Escrever(p),
         NEW l \in Lojas, l # Loja[processos[p].id]
  PROVE  arquivos'[l] = arquivos[l]
BY DEF TypeOK, Truncar, Escrever, Sobrescrever, NadaAEscrever

LEMMA SoReescritaTira ==
  ASSUME TypeOK, [Next]_vars, NEW l \in Lojas, ~(arquivos[l] \subseteq arquivos'[l])
  PROVE  \E p \in Processos : Truncar(p) \/ Escrever(p)
<1>1. arquivos' # arquivos
  OBVIOUS
<1>2. PICK p \in Processos : Apendar(p) \/ Truncar(p) \/ Escrever(p)
  BY <1>1 DEF Next, vars, Passo, Registrar, RegistrarPonto, Pedir, Tomar, Divergir, LeituraLevanta,
     Copiar, NadaAExpurgar, ReciboRecusado, Queda, Justificar, Reconciliar, Reprecificar, Selar,
     SelagemLevanta, SelarRecibo
<1>3. ~Apendar(p)
  BY DEF Apendar, TypeOK
<1>. QED
  BY <1>2, <1>3

------------------------------------------------------------------------------
(* Every state satisfies the inductive invariant (rastreio.py:139-205,     *)
(* redacao.py:60-145).                                                     *)
THEOREM Invariante == Spec => []IInv
<1>1. Init => IInv
  BY IInvInicial
<1>2. IInv /\ [Next]_vars => IInv'
  BY IInvPasso
<1>. QED
  BY <1>1, <1>2, PTL DEF Spec

(* A line of a store is sealed in the chain, and so is what it refers to,  *)
(* wherever commands die and whatever a redaction writes back              *)
(* (rastreio.py:164-205, serie_p.py:173-219).                              *)
THEOREM LinhasSeladas == Spec => []SelaPrimeiro
<1>1. IInv => SelaPrimeiro
  BY DEF IInv
<1>. QED
  BY <1>1, Invariante, PTL

(* No identity has two lines before the first redaction, whichever         *)
(* commands register it at once (rastreio.py:151-205).                     *)
THEOREM IdentidadesUnicas == Spec => []IdentidadeUnica
<1>1. IInv => IdentidadeUnica
  BY DEF IInv
<1>. QED
  BY <1>1, Invariante, PTL

(* Lines only go in a redaction whose checkpoint and receipt are in the    *)
(* chain for the reason it was asked for (redacao.py:82-143).              *)
THEOREM RemocaoSelada == Spec => SoExpurgoRemove
<1>. DEFINE A == \A l \in Lojas :
                  ~(arquivos[l] \subseteq arquivos'[l]) => \E p \in Processos : Expurga(p, l)
<1>1. IInv /\ [Next]_vars => A
  <2>. SUFFICES ASSUME IInv, [Next]_vars, NEW l \in Lojas, ~(arquivos[l] \subseteq arquivos'[l])
                PROVE  \E p \in Processos : Expurga(p, l)
    OBVIOUS
  <2>1. PICK p \in Processos : Truncar(p) \/ Escrever(p)
    BY SoReescritaTira DEF IInv
  <2>2. Loja[processos[p].id] = l
    BY <2>1, OutrasLojas DEF IInv
  <2>. QED
    BY <2>1, <2>2 DEF IInv, ProcessoFiel, Expurga, Truncar, Escrever
<1>2. IInv /\ [Next]_vars => [A]_vars
  BY <1>1
<1>. HIDE DEF A
<1>3. Spec => [][A]_vars
  BY <1>2, Invariante, PTL DEF Spec
<1>. QED
  BY <1>3 DEF SoExpurgoRemove, A

------------------------------------------------------------------------------
(* The lock of the directory, and the copies made under it.                *)

(* Who holds a lock keeps it, unless it lets go of it itself.              *)
LEMMA PastaGuardada ==
  ASSUME TypeOK, NEW p \in Processos, NEW q \in Processos \ {p}, redacao' = Livres(p)
  PROVE  \A d \in Pastas : redacao[d] = q => redacao'[d] = q
BY DEF TypeOK, Livres

(* What a step of p does to what p itself holds.                           *)
LEMMA RInvProprio ==
  ASSUME RInv, NEW p \in Processos,
         \/ processos'[p].pc \notin {"recibo", "truncar", "escrever"}
         \/ Copiar(p) \/ SelarRecibo(p) \/ Truncar(p)
  PROVE  /\ processos'[p].pc \in {"recibo", "truncar", "escrever"} => redacao'[Pasta(p)'] = p
         /\ processos'[p].pc \in {"recibo", "truncar"} =>
              processos'[p].copia \subseteq arquivos'[Loja[processos'[p].id]]
<1>1. CASE processos'[p].pc \notin {"recibo", "truncar", "escrever"}
  BY <1>1
<1>2. CASE Copiar(p)
  <2>1. PICK i \in Ids, m \in Motivos : processos[p] = [pc |-> "copiar", id |-> i, motivo |-> m]
    BY <1>2 DEF RInv, TypeOK, Copiar, Trabalhos, Parado
  <2>2. /\ processos'[p] = [pc |-> "recibo", id |-> i, motivo |-> m, copia |-> arquivos[Loja[i]]]
        /\ arquivos' = arquivos
    BY <1>2, <2>1 DEF RInv, TypeOK, Copiar
  <2>3. redacao'[PastaDe[Loja[i]]] = p
    BY <1>2, <2>1 DEF RInv, TypeOK, Copiar, Pasta
  <2>. QED
    BY <2>2, <2>3 DEF Pasta
<1>3. CASE SelarRecibo(p) \/ Truncar(p)
  <2>1. PICK r \in Expurgos : r = processos[p]
    BY <1>3 DEF RInv, TypeOK, SelarRecibo, Truncar, Trabalhos, Parado, Expurgos
  <2>2. /\ redacao' = redacao
        /\ processos'[p].id = r.id /\ processos'[p].copia = r.copia
        /\ Truncar(p) => processos'[p].pc = "escrever"
        /\ SelarRecibo(p) => arquivos' = arquivos
    BY <1>3, <2>1 DEF RInv, TypeOK, SelarRecibo, Truncar, Expurgos
  <2>3. redacao[PastaDe[Loja[r.id]]] = p
    BY <1>3, <2>1 DEF RInv, TravaFiel, Pasta, SelarRecibo, Truncar
  <2>4. SelarRecibo(p) => r.copia \subseteq arquivos[Loja[r.id]]
    BY <2>1 DEF RInv, NaoRessuscita, SelarRecibo
  <2>. QED
    BY <1>3, <2>2, <2>3, <2>4 DEF Pasta
<1>. QED
  BY <1>1, <1>2, <1>3

(* A step of p leaves what another one, q, copied where it is: a redaction *)
(* of the same store would hold the lock q holds.                          *)
LEMMA RInvAlheio ==
  ASSUME RInv, [Next]_vars, NEW q \in Processos, processos'[q] = processos[q],
         \A d \in Pastas : redacao[d] = q => redacao'[d] = q
  PROVE  /\ processos'[q].pc \in {"recibo", "truncar", "escrever"} => redacao'[Pasta(q)'] = q
         /\ processos'[q].pc \in {"recibo", "truncar"} =>
              processos'[q].copia \subseteq arquivos'[Loja[processos'[q].id]]
<1>. SUFFICES ASSUME processos[q].pc \in {"recibo", "truncar", "escrever"}
              PROVE  /\ redacao'[PastaDe[Loja[processos[q].id]]] = q
                     /\ processos[q].pc \in {"recibo", "truncar"} =>
                          processos[q].copia \subseteq arquivos'[Loja[processos[q].id]]
  BY DEF Pasta
<1>1. PICK l \in Lojas : l = Loja[processos[q].id]
  BY DEF RInv, TypeOK, Trabalhos, Parado
<1>2. redacao[PastaDe[l]] = q /\ PastaDe[l] \in Pastas
  BY <1>1 DEF RInv, TravaFiel, Pasta
<1>3. arquivos[l] \subseteq arquivos'[l]
  <2>. SUFFICES ASSUME ~(arquivos[l] \subseteq arquivos'[l]) PROVE FALSE
    OBVIOUS
  <2>1. PICK p \in Processos : Truncar(p) \/ Escrever(p)
    BY SoReescritaTira DEF RInv
  <2>2. Loja[processos[p].id] = l
    BY <2>1, OutrasLojas DEF RInv
  <2>3. redacao[PastaDe[l]] = p
    BY <2>1, <2>2 DEF RInv, TravaFiel, Pasta, Truncar, Escrever
  <2>4. p # q
    <3>1. PICK r \in Expurgos : r = processos[p] /\ r.pc \in {"truncar", "escrever"}
      BY <2>1 DEF RInv, TypeOK, Truncar, Escrever, Trabalhos, Parado, Expurgos
    <3>2. Truncar(p) => processos[p].pc = "truncar" /\ processos'[p].pc = "escrever"
      BY <3>1 DEF RInv, TypeOK, Truncar, Expurgos
    <3>3. Escrever(p) => processos[p].pc = "escrever" /\ processos'[p].pc = "parado"
      BY DEF RInv, TypeOK, Escrever, Parado
    <3>. QED
      BY <2>1, <3>2, <3>3
  <2>. QED
    BY <1>2, <2>1, <2>3, <2>4
<1>4. processos[q].pc \in {"recibo", "truncar"} => processos[q].copia \subseteq arquivos[l]
  BY <1>1 DEF RInv, NaoRessuscita
<1>. QED
  BY <1>1, <1>2, <1>3, <1>4

(* A step is of one command; the others keep their locks, and that one     *)
(* holds a copy afterwards only if it copies, seals or truncates.          *)
Copiando == {"recibo", "truncar", "escrever"}

UmPasso(p) ==
  /\ \A q \in Processos \ {p} : processos'[q] = processos[q]
  /\ \A q \in Processos \ {p}, d \in Pastas : redacao[d] = q => redacao'[d] = q
  /\ processos'[p].pc \notin Copiando \/ Copiar(p) \/ SelarRecibo(p) \/ Truncar(p)

LEMMA PassoDeUm ==
  ASSUME TypeOK, NEW p \in Processos, NEW e, processos' = [processos EXCEPT ![p] = e],
         redacao' = redacao \/ redacao' = Livres(p), e.pc \notin Copiando
  PROVE  UmPasso(p)
BY PastaGuardada DEF TypeOK, UmPasso

LEMMA PassoDeRedacao ==
  ASSUME TypeOK, NEW p \in Processos, Copiar(p) \/ SelarRecibo(p) \/ Truncar(p)
  PROVE  UmPasso(p)
<1>1. \A q \in Processos \ {p} : processos'[q] = processos[q]
  BY DEF TypeOK, Copiar, SelarRecibo, Truncar
<1>2. \A q \in Processos \ {p}, d \in Pastas : redacao[d] = q => redacao'[d] = q
  <2>1. CASE Copiar(p)
    BY <2>1 DEF TypeOK, Copiar
  <2>2. CASE SelarRecibo(p) \/ Truncar(p)
    BY <2>2 DEF SelarRecibo, Truncar
  <2>. QED
    BY <2>1, <2>2
<1>. QED
  BY <1>1, <1>2 DEF UmPasso

LEMMA PassoDeSelar ==
  ASSUME TypeOK, NEW p \in Processos, Selar(p)
  PROVE  UmPasso(p)
<1>1. CASE processos' = [processos EXCEPT ![p].pc = "apendar"]
  <2>1. processos[p] \in [pc : {"selar", "apendar"}, id : Ids, conteudo : Conteudos, novo : BOOLEAN]
    BY DEF TypeOK, Selar, Trabalhos, Parado
  <2>2. PICK r \in [pc : {"selar", "apendar"}, id : Ids, conteudo : Conteudos, novo : BOOLEAN] :
          r = processos[p]
    BY <2>1
  <2>. DEFINE e == [r EXCEPT !.pc = "apendar"]
  <2>3. processos' = [processos EXCEPT ![p] = e] /\ e.pc = "apendar"
    BY <1>1, <2>2
  <2>. HIDE DEF e
  <2>. QED
    BY <2>3, PassoDeUm DEF Selar, Copiando
<1>2. CASE processos' = [processos EXCEPT ![p] = Parado]
  BY <1>2, PassoDeUm DEF Selar, Copiando, Parado
<1>. QED
  BY <1>1, <1>2 DEF Selar

LEMMA PassoDeTomar ==
  ASSUME TypeOK, NEW p \in Processos, Tomar(p)
  PROVE  UmPasso(p)
<1>1. ASSUME NEW c, NEW b,
             processos' = [processos EXCEPT ![p] =
               [pc |-> "selar", id |-> processos[p].id, conteudo |-> c, novo |-> b]]
      PROVE  UmPasso(p)
  <2>. DEFINE e == [pc |-> "selar", id |-> processos[p].id, conteudo |-> c, novo |-> b]
  <2>1. processos' = [processos EXCEPT ![p] = e] /\ e.pc = "selar"
    BY <1>1
  <2>. HIDE DEF e
  <2>. QED
    BY <2>1, PassoDeUm DEF Tomar, Copiando
<1>. QED
  BY <1>1 DEF Tomar

LEMMA PassoDeOutro ==
  ASSUME TypeOK, NEW p \in Processos,
         \/ \E i \in Ids, c \in Conteudos : Pedir(p, i, c)
         \/ \E i \in Ids, m \in Motivos : Justificar(p, i, m)
  PROVE  UmPasso(p)
<1>1. ASSUME NEW i \in Ids, NEW c \in Conteudos, Pedir(p, i, c) PROVE UmPasso(p)
  <2>. DEFINE e == [pc |-> "travar", id |-> i, conteudo |-> c]
  <2>1. processos' = [processos EXCEPT ![p] = e] /\ redacao' = redacao
    BY <1>1 DEF Pedir
  <2>2. e.pc = "travar"
    OBVIOUS
  <2>. HIDE DEF e
  <2>. QED
    BY <2>1, <2>2, PassoDeUm DEF Copiando
<1>2. ASSUME NEW i \in Ids, NEW m \in Motivos, Justificar(p, i, m) PROVE UmPasso(p)
  <2>. DEFINE e == [pc |-> "copiar", id |-> i, motivo |-> m]
  <2>1. processos' = [processos EXCEPT ![p] = e] /\ redacao' = redacao
    BY <1>2 DEF Justificar
  <2>2. e.pc = "copiar"
    OBVIOUS
  <2>. HIDE DEF e
  <2>. QED
    BY <2>1, <2>2, PassoDeUm DEF Copiando
<1>. QED
  BY <1>1, <1>2

LEMMA PassoDeParar ==
  ASSUME TypeOK, NEW p \in Processos,
         \/ Divergir(p) \/ SelagemLevanta(p) \/ Apendar(p) \/ Queda(p) \/ Escrever(p)
         \/ LeituraLevanta(p) \/ NadaAExpurgar(p) \/ ReciboRecusado(p)
  PROVE  UmPasso(p)
<1>1. /\ processos' = [processos EXCEPT ![p] = Parado]
      /\ redacao' = redacao \/ redacao' = Livres(p)
  BY DEF Divergir, SelagemLevanta, Apendar, Queda, Escrever, LeituraLevanta, NadaAExpurgar,
         ReciboRecusado
<1>. QED
  BY <1>1, PassoDeUm DEF Parado, Copiando

LEMMA TodoPasso ==
  ASSUME TypeOK, [Next]_vars
  PROVE  (\E p \in Processos : UmPasso(p)) \/ UNCHANGED <<processos, redacao>>
<1>1. ASSUME NEW p \in Processos,
             \/ \E i \in Registros : Registrar(p, i)
             \/ \E i \in Pontos : RegistrarPonto(p, i)
      PROVE  UmPasso(p)
  <2>1. \E i \in Ids, c \in Conteudos : Pedir(p, i, c)
    BY <1>1 DEF Registrar, RegistrarPonto, Ids, TypeOK
  <2>. QED
    BY <2>1, PassoDeOutro
<1>2. ASSUME NEW p \in Processos,
             Tomar(p) \/ Divergir(p) \/ LeituraLevanta(p) \/ Passo(p) \/ Queda(p)
      PROVE  UmPasso(p)
  BY <1>2, PassoDeTomar, PassoDeParar, PassoDeSelar, PassoDeRedacao DEF Passo
<1>3. ASSUME NEW p \in Processos, \E i \in Ids, m \in Motivos : Justificar(p, i, m)
      PROVE  UmPasso(p)
  BY <1>3, PassoDeOutro
<1>4. ASSUME UNCHANGED vars \/ Reprecificar \/ \E i \in Ids, c \in Conteudos : Reconciliar(i, c)
      PROVE  UNCHANGED <<processos, redacao>>
  BY <1>4 DEF vars, Reprecificar, Reconciliar
<1>. QED
  BY <1>1, <1>2, <1>3, <1>4 DEF Next

LEMMA RInvPasso == RInv /\ TypeOK' /\ [Next]_vars => RInv'
<1>. SUFFICES ASSUME RInv, TypeOK', [Next]_vars PROVE RInv'
  OBVIOUS
<1>1. ASSUME NEW q \in Processos
      PROVE  /\ processos'[q].pc \in {"recibo", "truncar", "escrever"} => redacao'[Pasta(q)'] = q
             /\ processos'[q].pc \in {"recibo", "truncar"} =>
                  processos'[q].copia \subseteq arquivos'[Loja[processos'[q].id]]
  <2>1. CASE UNCHANGED <<processos, redacao>>
    BY <2>1, RInvAlheio
  <2>2. ASSUME NEW p \in Processos, UmPasso(p), p # q
        PROVE  /\ processos'[q].pc \in {"recibo", "truncar", "escrever"} => redacao'[Pasta(q)'] = q
               /\ processos'[q].pc \in {"recibo", "truncar"} =>
                    processos'[q].copia \subseteq arquivos'[Loja[processos'[q].id]]
    BY <2>2, RInvAlheio DEF UmPasso
  <2>3. CASE UmPasso(q)
    BY <2>3, RInvProprio DEF RInv, UmPasso, Copiando
  <2>. QED
    BY <2>1, <2>2, <2>3, TodoPasso DEF RInv
<1>. QED
  BY <1>1, Zenon DEF RInv, TravaFiel, NaoRessuscita

(* Until it truncates the file, what a redaction copied is still there:    *)
(* redactions of one directory exclude each other from the copy to the     *)
(* write, and nobody else takes lines out (redacao.py:49-57, 105-143).     *)
THEOREM NenhumaRessuscita == Spec => []NaoRessuscita
<1>1. Init => RInv
  BY IInvInicial DEF IInv, RInv, Init, TravaFiel, NaoRessuscita, Parado
<1>2. IInv => TypeOK
  BY DEF IInv
<1>3. RInv /\ TypeOK' /\ [Next]_vars => RInv'
  BY RInvPasso
<1>4. RInv => NaoRessuscita
  BY DEF RInv
<1>. QED
  BY <1>1, <1>2, <1>3, <1>4, Invariante, PTL DEF Spec
=============================================================================
