----------------------------- MODULE LojasSeladas -----------------------------
(***************************************************************************)
(* Stores beside the chain: JSONL files whose lines are sealed one by one. *)
(* The ML registry (models, versions, runs, promotions), the series p(t)   *)
(* and the comparator all register in the same way: under the lock of the  *)
(* store look for the identity, seal what is there (or, if nothing is, the *)
(* new record), append the new record.  A redaction takes a line out: it   *)
(* seals a checkpoint, copies the file under a lock of its own, seals a    *)
(* receipt, truncates the file and writes the copy back without the line.  *)
(* Its lock is another one than that of those who register: what they      *)
(* append meanwhile meets the truncation and the write.                    *)
(*                                                                         *)
(* The chain is the journal DiarioSelado promises (CorrenteLocal): one     *)
(* event per key, never another content.  A content stands for its hash.   *)
(***************************************************************************)
EXTENDS Naturals, FiniteSets

CONSTANTS
  Processos,
  Lojas,        \* the files
  Travas,       \* the lock files of those who register
  TravaDe,      \* the lock of a store
  Pastas,       \* the directories, each with a .lock-redacao
  PastaDe,      \* the directory of a store
  Estritas,     \* stores that refuse another content for an identity they have
  Registros,    \* identities of records whose content the caller gives
  Pontos,       \* identities of points of p(t): the content is the price of now
  Loja,         \* the store of an identity
  Referencia,   \* the identity a record refers to, or Nenhuma
  Nenhuma,
  Conteudos,
  Motivos,      \* why a line is taken out: reason, justification, who asks
  Ninguem,      \* who holds a lock that is free
  MaxPrecos,    \* bound on repricings
  MaxReconciliacoes,
  MaxExpurgos,  \* bound on redactions
  MaxQuedas     \* bound on commands that die

Ids == Registros \cup Pontos

ASSUME LojasAssumption ==
  /\ TravaDe \in [Lojas -> Travas] /\ PastaDe \in [Lojas -> Pastas]
  /\ Estritas \subseteq Lojas
  /\ Loja \in [Ids -> Lojas]
  /\ Referencia \in [Ids -> Ids \cup {Nenhuma}] /\ Nenhuma \notin Ids
  /\ \A i \in Pontos : Referencia[i] = Nenhuma
  /\ Registros \cap Pontos = {}
ASSUME NinguemAssumption == Ninguem \notin Processos
ASSUME LimitesAssumption ==
  MaxPrecos \in Nat /\ MaxReconciliacoes \in Nat /\ MaxExpurgos \in Nat /\ MaxQuedas \in Nat
ASSUME ConteudosAssumption == Conteudos # {}

VARIABLES
  arquivos,   \* the whole lines of each store
  rasgadas,   \* stores with the rest of a line half written over
  travas,     \* who holds the lock of a store
  redacao,    \* who holds .lock-redacao of a directory
  diario,     \* the events of the chain
  preco,      \* what the platform believes now
  precos,
  processos,  \* what each command is doing
  expurgos,
  quedas

vars == <<arquivos, rasgadas, travas, redacao, diario, preco, precos, processos, expurgos, quedas>>

Parado == [pc |-> "parado"]
Linha(n, i, c) == [pos |-> n, id |-> i, conteudo |-> c]

(* Events, by what their key is made of.                                   *)
Registro(i, c) == [tipo |-> "registro", id |-> i, conteudo |-> c]
Reconciliacao(i, c) == [tipo |-> "reconciliacao", id |-> i, conteudo |-> c]
Checkpoint(i, m) == [tipo |-> "checkpoint", id |-> i, motivo |-> m]
Recibo(i, cs, m) == [tipo |-> "expurgo", id |-> i, removidos |-> cs, motivo |-> m]

TemLinha(i) == \E x \in arquivos[Loja[i]] : x.id = i
Legivel(i) == Loja[i] \notin rasgadas
Selado(i, c) == Registro(i, c) \in diario

(* A file is the set of its lines, each with its place; the first one with *)
(* the identity is the one that is found.                                  *)
Primeira(i, x) ==
  /\ x \in arquivos[Loja[i]] /\ x.id = i
  /\ \A y \in arquivos[Loja[i]] : y.id = i => x.pos <= y.pos

(* selar_registro answers for this content: the key is new, or has it, or  *)
(* the divergence was reconciled.                                          *)
AceitaDivergencia(i, c) == TRUE                                        \* mutant
Aceita(i, c) ==
  \/ \A d \in Conteudos : Selado(i, d) => d = c
  \/ Reconciliacao(i, c) \in diario

Init ==
  /\ arquivos = [l \in Lojas |-> {}]
  /\ rasgadas = {}
  /\ travas = [t \in Travas |-> Ninguem]
  /\ redacao = [d \in Pastas |-> Ninguem]
  /\ diario = {}
  /\ preco \in Conteudos
  /\ precos = 0
  /\ processos = [p \in Processos |-> Parado]
  /\ expurgos = 0
  /\ quedas = 0

------------------------------------------------------------------------------
(* Registration.                                                           *)

(* The record and what it refers to are looked at before the lock.         *)
Pedir(p, i, c) ==
  /\ processos[p].pc = "parado"
  /\ processos' = [processos EXCEPT ![p] = [pc |-> "travar", id |-> i, conteudo |-> c]]
  /\ UNCHANGED <<arquivos, rasgadas, travas, redacao, diario, preco, precos, expurgos, quedas>>

Registrar(p, i) ==
  /\ Referencia[i] # Nenhuma => Legivel(Referencia[i]) /\ TemLinha(Referencia[i])
  /\ \E c \in Conteudos : Pedir(p, i, c)

RegistrarPonto(p, i) == Pedir(p, i, preco)

(* Under the lock: the record that stands is the one that is there.        *)
TomarSemProcurar(p) ==    \* mutant: the identity is not looked for
  /\ processos[p].pc = "travar"
  /\ travas[TravaDe[Loja[processos[p].id]]] = Ninguem
  /\ travas' = [travas EXCEPT ![TravaDe[Loja[processos[p].id]]] = p]
  /\ processos' = [processos EXCEPT ![p] =
       [pc |-> "selar", id |-> @.id, conteudo |-> @.conteudo, novo |-> TRUE]]
  /\ UNCHANGED <<arquivos, rasgadas, redacao, diario, preco, precos, expurgos, quedas>>
Tomar(p) ==
  /\ processos[p].pc = "travar"
  /\ LET i == processos[p].id
     IN  /\ travas[TravaDe[Loja[i]]] = Ninguem /\ Legivel(i)
         /\ travas' = [travas EXCEPT ![TravaDe[Loja[i]]] = p]
         /\ \/ /\ ~TemLinha(i)
               /\ processos' = [processos EXCEPT ![p] =
                    [pc |-> "selar", id |-> i, conteudo |-> @.conteudo, novo |-> TRUE]]
            \/ \E x \in arquivos[Loja[i]] :
                 /\ Primeira(i, x)
                 /\ Loja[i] \in Estritas => processos[p].conteudo = x.conteudo
                 /\ processos' = [processos EXCEPT ![p] =
                      [pc |-> "selar", id |-> i, conteudo |-> x.conteudo, novo |-> FALSE]]
  /\ UNCHANGED <<arquivos, rasgadas, redacao, diario, preco, precos, expurgos, quedas>>

(* A strict store that has another content: MLOpsError.                    *)
Divergir(p) ==
  /\ processos[p].pc = "travar"
  /\ LET i == processos[p].id
     IN  /\ travas[TravaDe[Loja[i]]] = Ninguem /\ Legivel(i)
         /\ Loja[i] \in Estritas
         /\ \E x \in arquivos[Loja[i]] : Primeira(i, x) /\ x.conteudo # processos[p].conteudo
  /\ processos' = [processos EXCEPT ![p] = Parado]
  /\ UNCHANGED <<arquivos, rasgadas, travas, redacao, diario, preco, precos, expurgos, quedas>>

Soltas(p) == [t \in Travas |-> IF travas[t] = p THEN Ninguem ELSE travas[t]]

(* Seal, then append: nothing to append when the record was there.         *)
Selar(p) ==
  /\ processos[p].pc = "selar"
  /\ LET i == processos[p].id
         c == processos[p].conteudo
     IN  /\ Aceita(i, c)
         /\ diario' = IF \E d \in Conteudos : Selado(i, d) THEN diario ELSE diario \cup {Registro(i, c)}
  /\ \/ /\ processos[p].novo
        /\ processos' = [processos EXCEPT ![p].pc = "apendar"]
        /\ UNCHANGED travas
     \/ /\ ~processos[p].novo
        /\ processos' = [processos EXCEPT ![p] = Parado]
        /\ travas' = Soltas(p)
  /\ UNCHANGED <<arquivos, rasgadas, redacao, preco, precos, expurgos, quedas>>

(* The key has another content: AuditoriaError, and no line.               *)
SelagemLevanta(p) ==
  /\ processos[p].pc = "selar"
  /\ ~Aceita(processos[p].id, processos[p].conteudo)
  /\ processos' = [processos EXCEPT ![p] = Parado]
  /\ travas' = Soltas(p)
  /\ UNCHANGED <<arquivos, rasgadas, redacao, diario, preco, precos, expurgos, quedas>>

Lugares(S) == {0} \cup {x.pos : x \in S}
Fim(S, n) == \A x \in S : x.pos <= n

Apendar(p) ==
  /\ processos[p].pc = "apendar"
  /\ LET i == processos[p].id
     IN  \E n \in Lugares(arquivos[Loja[i]]) :
           /\ Fim(arquivos[Loja[i]], n)
           /\ arquivos' = [arquivos EXCEPT ![Loja[i]] = @ \cup {Linha(n + 1, i, processos[p].conteudo)}]
  /\ processos' = [processos EXCEPT ![p] = Parado]
  /\ travas' = Soltas(p)
  /\ UNCHANGED <<rasgadas, redacao, diario, preco, precos, expurgos, quedas>>

------------------------------------------------------------------------------
(* Redaction.                                                              *)

(* The checkpoint, before any line goes.                                   *)
Justificar(p, i, m) ==
  /\ processos[p].pc = "parado"
  /\ expurgos < MaxExpurgos
  /\ expurgos' = expurgos + 1
  /\ diario' = diario \cup {Checkpoint(i, m)}
  /\ processos' = [processos EXCEPT ![p] = [pc |-> "copiar", id |-> i, motivo |-> m]]
  /\ UNCHANGED <<arquivos, rasgadas, travas, redacao, preco, precos, quedas>>

Pasta(p) == PastaDe[Loja[processos[p].id]]

CopiarSemTrava(p) ==    \* mutant: another redaction of the directory is not waited for
  /\ processos[p].pc = "copiar" /\ Legivel(processos[p].id)
  /\ TemLinha(processos[p].id)
  /\ redacao' = [redacao EXCEPT ![Pasta(p)] = p]
  /\ processos' = [processos EXCEPT ![p] =
       [pc |-> "recibo", id |-> @.id, motivo |-> @.motivo, copia |-> arquivos[Loja[@.id]]]]
  /\ UNCHANGED <<arquivos, rasgadas, travas, diario, preco, precos, expurgos, quedas>>
(* The file as it is now, under .lock-redacao of its directory.            *)
Copiar(p) ==
  /\ processos[p].pc = "copiar" /\ Legivel(processos[p].id)
  /\ TemLinha(processos[p].id)
  /\ redacao[Pasta(p)] = Ninguem
  /\ redacao' = [redacao EXCEPT ![Pasta(p)] = p]
  /\ processos' = [processos EXCEPT ![p] =
       [pc |-> "recibo", id |-> @.id, motivo |-> @.motivo, copia |-> arquivos[Loja[@.id]]]]
  /\ UNCHANGED <<arquivos, rasgadas, travas, diario, preco, precos, expurgos, quedas>>

(* Nothing to take out: RedacaoError.                                      *)
NadaAExpurgar(p) ==
  /\ processos[p].pc = "copiar" /\ Legivel(processos[p].id)
  /\ ~TemLinha(processos[p].id)
  /\ redacao[Pasta(p)] = Ninguem
  /\ processos' = [processos EXCEPT ![p] = Parado]
  /\ UNCHANGED <<arquivos, rasgadas, travas, redacao, diario, preco, precos, expurgos, quedas>>

(* Every reader parses every line under its lock: the rest of one makes it *)
(* raise, whether it came to register or to redact.                        *)
LeituraLevanta(p) ==
  /\ \/ processos[p].pc = "travar" /\ travas[TravaDe[Loja[processos[p].id]]] = Ninguem
     \/ processos[p].pc = "copiar" /\ redacao[Pasta(p)] = Ninguem
  /\ ~Legivel(processos[p].id)
  /\ processos' = [processos EXCEPT ![p] = Parado]
  /\ UNCHANGED <<arquivos, rasgadas, travas, redacao, diario, preco, precos, expurgos, quedas>>

(* What goes: the contents with their places.  They make the key of the    *)
(* receipt; the reason is content, and the chain refuses another content.  *)
Saem(p) == {x \in processos[p].copia : x.id = processos[p].id}
Removidos(p) ==
  {<<Cardinality({y \in Saem(p) : y.pos <= x.pos}), x.conteudo>> : x \in Saem(p)}
Restantes(p) == processos[p].copia \ Saem(p)

ReciboDe(p) == Recibo(processos[p].id, Removidos(p), processos[p].motivo)
Recusado(p) ==
  \E m \in Motivos \ {processos[p].motivo} : Recibo(processos[p].id, Removidos(p), m) \in diario

SelarReciboCalado(p) ==    \* mutant: the refusal is swallowed
  /\ processos[p].pc = "recibo"
  /\ diario' = IF Recusado(p) THEN diario ELSE diario \cup {ReciboDe(p)}
  /\ processos' = [processos EXCEPT ![p].pc = "truncar"]
  /\ UNCHANGED <<arquivos, rasgadas, travas, redacao, preco, precos, expurgos, quedas>>
SelarRecibo(p) ==
  /\ processos[p].pc = "recibo"
  /\ ~Recusado(p)
  /\ diario' = diario \cup {ReciboDe(p)}
  /\ processos' = [processos EXCEPT ![p].pc = "truncar"]
  /\ UNCHANGED <<arquivos, rasgadas, travas, redacao, preco, precos, expurgos, quedas>>

Livres(p) == [d \in Pastas |-> IF redacao[d] = p THEN Ninguem ELSE redacao[d]]

(* The same lines were taken out for another reason before: AuditoriaError *)
(* leaves the redaction before anything goes.                              *)
ReciboRecusado(p) ==
  /\ processos[p].pc = "recibo"
  /\ Recusado(p)
  /\ processos' = [processos EXCEPT ![p] = Parado]
  /\ redacao' = Livres(p)
  /\ UNCHANGED <<arquivos, rasgadas, travas, diario, preco, precos, expurgos, quedas>>

(* write_text opens the file, which empties it, ...                        *)
Truncar(p) ==
  /\ processos[p].pc = "truncar"
  /\ arquivos' = [arquivos EXCEPT ![Loja[processos[p].id]] = {}]
  /\ rasgadas' = rasgadas \ {Loja[processos[p].id]}
  /\ processos' = [processos EXCEPT ![p].pc = "escrever"]
  /\ UNCHANGED <<travas, redacao, diario, preco, precos, expurgos, quedas>>

(* ... and writes from its beginning.  Of the lines others appended in     *)
(* between, those up to place n are written over, one of them perhaps in   *)
(* part; those beyond the end of what is written stay after it.            *)
Sobram(p, n, fim) ==
  {[x EXCEPT !.pos = @ + fim] : x \in {y \in arquivos[Loja[processos[p].id]] : y.pos > n}}

Sobrescrever(p) ==
  /\ Restantes(p) # {}
  /\ LET l == Loja[processos[p].id]
     IN  \E n \in Lugares(arquivos[l]), fim \in Lugares(Restantes(p)) :
           /\ n = 0 => arquivos[l] = {}
           /\ Fim(Restantes(p), fim)
           /\ arquivos' = [arquivos EXCEPT ![l] = Restantes(p) \cup Sobram(p, n, fim)]
           /\ rasgadas' \in {rasgadas} \cup (IF n = 0 THEN {} ELSE {rasgadas \cup {l}})

(* With nothing to write, what was appended in between stays.              *)
NadaAEscrever(p) == Restantes(p) = {} /\ UNCHANGED <<arquivos, rasgadas>>

Escrever(p) ==
  /\ processos[p].pc = "escrever"
  /\ Sobrescrever(p) \/ NadaAEscrever(p)
  /\ processos' = [processos EXCEPT ![p] = Parado]
  /\ redacao' = Livres(p)
  /\ UNCHANGED <<travas, diario, preco, precos, expurgos, quedas>>

------------------------------------------------------------------------------
(* Around them: reconciliation, repricing, death.                          *)

(* Somebody documents that an identity now has this content.               *)
Reconciliar(i, c) ==
  /\ Cardinality({e \in diario : e.tipo = "reconciliacao"}) < MaxReconciliacoes
  /\ \E d \in Conteudos \ {c} : Selado(i, d)
  /\ diario' = diario \cup {Reconciliacao(i, c)}
  /\ UNCHANGED <<arquivos, rasgadas, travas, redacao, preco, precos, processos, expurgos, quedas>>

Reprecificar ==
  /\ precos < MaxPrecos
  /\ precos' = precos + 1
  /\ preco' \in Conteudos \ {preco}
  /\ UNCHANGED <<arquivos, rasgadas, travas, redacao, diario, processos, expurgos, quedas>>

(* The operating system lets go of the locks of the dead.                  *)
Queda(p) ==
  /\ processos[p].pc # "parado"
  /\ quedas < MaxQuedas
  /\ quedas' = quedas + 1
  /\ processos' = [processos EXCEPT ![p] = Parado]
  /\ travas' = Soltas(p)
  /\ redacao' = Livres(p)
  /\ UNCHANGED <<arquivos, rasgadas, diario, preco, precos, expurgos>>

Passo(p) ==
  \/ Selar(p) \/ SelagemLevanta(p) \/ Apendar(p)
  \/ Copiar(p) \/ NadaAExpurgar(p) \/ SelarRecibo(p) \/ ReciboRecusado(p)
  \/ Truncar(p) \/ Escrever(p)

Next ==
  \/ \E p \in Processos :
       \/ \E i \in Registros : Registrar(p, i)
       \/ \E i \in Pontos : RegistrarPonto(p, i)
       \/ Tomar(p) \/ Divergir(p) \/ LeituraLevanta(p)
       \/ Passo(p) \/ Queda(p)
       \/ \E i \in Ids, m \in Motivos : Justificar(p, i, m)
  \/ \E i \in Ids, c \in Conteudos : Reconciliar(i, c)
  \/ Reprecificar

Spec == Init /\ [][Next]_vars

------------------------------------------------------------------------------
Textos == [pos : Nat, id : Ids, conteudo : Conteudos]

Trabalhos ==
  {Parado}
  \cup [pc : {"travar"}, id : Ids, conteudo : Conteudos]
  \cup [pc : {"selar", "apendar"}, id : Ids, conteudo : Conteudos, novo : BOOLEAN]
  \cup [pc : {"copiar"}, id : Ids, motivo : Motivos]
  \cup [pc : {"recibo", "truncar", "escrever"}, id : Ids, motivo : Motivos, copia : SUBSET Textos]

TypeOK ==
  /\ arquivos \in [Lojas -> SUBSET Textos] /\ rasgadas \subseteq Lojas
  /\ travas \in [Travas -> Processos \cup {Ninguem}]
  /\ redacao \in [Pastas -> Processos \cup {Ninguem}]
  /\ preco \in Conteudos /\ precos \in 0..MaxPrecos
  /\ processos \in [Processos -> Trabalhos]
  /\ expurgos \in 0..MaxExpurgos /\ quedas \in 0..MaxQuedas

(* Whatever dies between the seal and the append, races with a redaction   *)
(* or is written back by it, a line of a store is in the chain: its        *)
(* content is the one sealed under its identity or one that was reconciled,*)
(* and the record it refers to has been sealed (rastreio.py:24-34).        *)
ReferenciaSelada(i) == Referencia[i] # Nenhuma => \E d \in Conteudos : Selado(Referencia[i], d)

Provado(i, c) == Selado(i, c) \/ Reconciliacao(i, c) \in diario

SelaPrimeiro ==
  \A l \in Lojas : \A x \in arquivos[l] : Provado(x.id, x.conteudo) /\ ReferenciaSelada(x.id)

(* Until something is redacted a store has one line for each identity,     *)
(* though two commands look it up at once and one dies before its append   *)
(* (rastreio.py:35-37, serie_p.py:200-218).                                *)
Unica(l) == \A x, y \in arquivos[l] : x.id = y.id => x = y

IdentidadeUnica == expurgos = 0 => \A l \in Lojas : Unica(l)

(* Lines only go while a redaction of the same store writes the file back, *)
(* one whose checkpoint and whose receipt are sealed, for its own reason:  *)
(* neither a death, nor the receipt of another redaction of the same       *)
(* lines, lets a line go for a reason nobody sealed (redacao.py:82-143).   *)
Expurga(p, l) ==
  /\ processos[p].pc \in {"truncar", "escrever"} /\ Loja[processos[p].id] = l
  /\ Checkpoint(processos[p].id, processos[p].motivo) \in diario
  /\ ReciboDe(p) \in diario

SoExpurgoRemove ==
  [][\A l \in Lojas :
       ~(arquivos[l] \subseteq arquivos'[l]) => \E p \in Processos : Expurga(p, l)]_vars

(* Until it truncates the file, what a redaction copied is still there: no *)
(* redaction writes back what another one has taken out, whatever was      *)
(* appended, redacted or left half done since (redacao.py:105-143).        *)
NaoRessuscita ==
  \A p \in Processos :
    processos[p].pc \in {"recibo", "truncar"} =>
      processos[p].copia \subseteq arquivos[Loja[processos[p].id]]

(* What the proofs need: who seals or appends holds the lock of the store, *)
(* what it is about to append is not there and is sealed; what a redaction *)
(* copied is sealed too.                                                   *)
ProcessoFiel(p) ==
  /\ processos[p].pc \in {"travar", "selar", "apendar"} => ReferenciaSelada(processos[p].id)
  /\ processos[p].pc \in {"selar", "apendar"} => travas[TravaDe[Loja[processos[p].id]]] = p
  /\ processos[p].pc = "apendar" => processos[p].novo /\ Provado(processos[p].id, processos[p].conteudo)
  /\ (processos[p].pc \in {"selar", "apendar"} /\ processos[p].novo /\ expurgos = 0) =>
       ~TemLinha(processos[p].id)
  /\ processos[p].pc \in {"copiar", "recibo", "truncar", "escrever"} =>
       expurgos > 0 /\ Checkpoint(processos[p].id, processos[p].motivo) \in diario
  /\ processos[p].pc \in {"recibo", "truncar", "escrever"} =>
       \A x \in processos[p].copia :
         Loja[x.id] = Loja[processos[p].id] /\ Provado(x.id, x.conteudo) /\ ReferenciaSelada(x.id)
  /\ processos[p].pc \in {"truncar", "escrever"} => ReciboDe(p) \in diario

IInv ==
  /\ TypeOK
  /\ \A l \in Lojas : \A x \in arquivos[l] : Loja[x.id] = l
  /\ \A i \in Ids, c \in Conteudos :
       Reconciliacao(i, c) \in diario => \E d \in Conteudos : Selado(i, d)
  /\ SelaPrimeiro
  /\ IdentidadeUnica
  /\ \A p \in Processos : ProcessoFiel(p)

(* A redaction that has copied the file holds the lock of the directory,   *)
(* and what it copied is there until it truncates.                         *)
TravaFiel ==
  \A p \in Processos :
    processos[p].pc \in {"recibo", "truncar", "escrever"} => redacao[Pasta(p)] = p

RInv == TypeOK /\ TravaFiel /\ NaoRessuscita
=============================================================================
