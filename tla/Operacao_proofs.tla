---------------------------- MODULE Operacao_proofs ----------------------------
(***************************************************************************)
(* Proofs about Operacao, for any number of runs of either workflow: the   *)
(* published chain verifies, only grows and has true anchors.              *)
(***************************************************************************)
EXTENDS Operacao, TLAPS

USE LacosDistintos, LimitesAssumption, TentativasAssumption

(* BEGINNINGS OF CHAINS                                                    *)

LEMMA PrefixoPorIndice ==
  ASSUME NEW s \in Correntes, NEW t \in Correntes
  PROVE  IsPrefix(s, t) <=> Len(s) <= Len(t) /\ \A i \in 1..Len(s) : s[i] = t[i]
BY DEF IsPrefix, Correntes

LEMMA PrefixoDeSi ==
  ASSUME NEW s \in Correntes
  PROVE  IsPrefix(s, s)
BY PrefixoPorIndice DEF Correntes

LEMMA PrefixoTransitivo ==
  ASSUME NEW s \in Correntes, NEW t \in Correntes, NEW u \in Correntes,
         IsPrefix(s, t), IsPrefix(t, u)
  PROVE  IsPrefix(s, u)
<1>1. Len(s) <= Len(t) /\ \A i \in 1..Len(s) : s[i] = t[i]
  BY PrefixoPorIndice
<1>2. Len(t) <= Len(u) /\ \A i \in 1..Len(t) : t[i] = u[i]
  BY PrefixoPorIndice
<1>3. Len(s) \in Nat /\ Len(t) \in Nat /\ Len(u) \in Nat
  BY DEF Correntes
<1>4. Len(s) <= Len(u) /\ \A i \in 1..Len(s) : s[i] = u[i]
  BY <1>1, <1>2, <1>3
<1>. QED
  BY <1>4, PrefixoPorIndice

LEMMA PrefixoDeAnexo ==
  ASSUME NEW s \in Correntes, NEW t \in Correntes, NEW e \in Eventos, IsPrefix(s, t)
  PROVE  Append(t, e) \in Correntes /\ IsPrefix(s, Append(t, e))
<1>1. Append(t, e) \in Correntes
  BY DEF Correntes
<1>2. Len(t) <= Len(Append(t, e)) /\ \A i \in 1..Len(t) : t[i] = Append(t, e)[i]
  BY DEF Correntes
<1>3. IsPrefix(t, Append(t, e))
  BY <1>1, <1>2, PrefixoPorIndice
<1>. QED
  BY <1>1, <1>3, PrefixoTransitivo

------------------------------------------------------------------------------
(* THE EVENT A CLONE SEALS                                                 *)

LEMMA ProximoTipado ==
  ASSUME NEW s \in Correntes, Len(s) <= emitidos, emitidos \in Nat, emitidos < MaxEventos
  PROVE  Proximo(s) \in Eventos
<1>1. Len(s) \in Nat
  BY DEF Correntes
<1>2. emitidos + 1 \in 1..MaxEventos /\ Len(s) + 1 \in 1..MaxEventos
  BY <1>1
<1>3. s # <<>> => Last(s).id \in 1..MaxEventos
  <2>1. s # <<>> => s[Len(s)] \in Eventos
    BY DEF Correntes
  <2>. QED
    BY <2>1 DEF Last, Eventos
<1>4. (IF s = <<>> THEN 0 ELSE Last(s).id) \in 0..MaxEventos
  BY <1>3
<1>. QED
  BY <1>2, <1>4 DEF Proximo, Eventos

LEMMA VerificaAnexo ==
  ASSUME NEW s \in Correntes, Verifica(s), Proximo(s) \in Eventos
  PROVE  Verifica(Append(s, Proximo(s)))
<1>. DEFINE e == Proximo(s)
            t == Append(s, e)
<1>1. Len(s) \in Nat /\ DOMAIN s = 1..Len(s)
  BY DEF Correntes
<1>2. /\ DOMAIN t = 1..(Len(s) + 1)
      /\ t[Len(s) + 1] = e
      /\ \A i \in 1..Len(s) : t[i] = s[i]
  BY DEF Correntes
<1>3. ASSUME NEW i \in DOMAIN t
      PROVE  t[i].seq = i /\ t[i].anterior = (IF i = 1 THEN 0 ELSE t[i - 1].id)
  <2>1. CASE i \in 1..Len(s)
    <3>1. s[i].seq = i /\ s[i].anterior = (IF i = 1 THEN 0 ELSE s[i - 1].id)
      BY <2>1, <1>1 DEF Verifica
    <3>2. i # 1 => i - 1 \in 1..Len(s)
      BY <2>1, <1>1
    <3>. QED
      BY <2>1, <3>1, <3>2, <1>2
  <2>2. CASE i = Len(s) + 1
    <3>1. e.seq = i /\ e.anterior = (IF s = <<>> THEN 0 ELSE s[Len(s)].id)
      BY <2>2 DEF Proximo, Last
    <3>2. s = <<>> <=> i = 1
      BY <2>2, <1>1 DEF Correntes
    <3>3. i # 1 => i - 1 = Len(s) /\ i - 1 \in 1..Len(s)
      BY <2>2, <1>1
    <3>. QED
      BY <2>2, <3>1, <3>2, <3>3, <1>2
  <2>. QED
    BY <1>1, <1>2, <1>3, <2>1, <2>2
<1>. QED
  BY <1>3 DEF Verifica

------------------------------------------------------------------------------
(* TYPES                                                                   *)

LEMMA RepositorioTipado ==
  ASSUME TypeOK, NEW r \in Lacos
  PROVE  /\ copia[r] \in Repositorios /\ base[r] \in Repositorios
         /\ principal \in Repositorios
         /\ copia[r].corrente \in Correntes /\ base[r].corrente \in Correntes
         /\ principal.corrente \in Correntes
BY DEF TypeOK, Repositorios

LEMMA VazioTipado == Vazio \in Repositorios
BY DEF Vazio, Repositorios, Correntes

LEMMA EncerraTipado ==
  ASSUME TypeOK, NEW r \in Lacos, Encerra(r)
  PROVE  /\ fase' \in [Lacos -> {"fora", "selar", "ancorar", "espelhar", "commitar", "puxar", "empurrar", "esgotado"}]
         /\ base' \in [Lacos -> Repositorios] /\ copia' \in [Lacos -> Repositorios]
         /\ tentativa' \in [Lacos -> 0..Tentativas]
BY VazioTipado DEF TypeOK, Encerra

LEMMA NovosTipado ==
  ASSUME TypeOK, NEW r \in Lacos
  PROVE  /\ Novos(r) \subseteq Eventos
         /\ ToSet(copia[r].corrente) \subseteq Eventos
BY RepositorioTipado DEF Novos, ToSet, Correntes

LEMMA PublicaTipado ==
  ASSUME TypeOK, NEW r \in Lacos, Publica(r)
  PROVE  principal' \in Repositorios
<1>1. principal.commit + 1 \in Nat
  BY DEF TypeOK, Repositorios
<1>. QED
  BY <1>1, RepositorioTipado DEF Publica, Repositorios

LEMMA TiposDeOutroCommit ==
  ASSUME TypeOK, OutroCommit
  PROVE  TypeOK'
<1>1. principal' \in Repositorios
  BY DEF TypeOK, OutroCommit, Repositorios
<1>2. outros' \in 0..MaxOutros
  BY DEF TypeOK, OutroCommit
<1>. QED
  BY <1>1, <1>2 DEF TypeOK, OutroCommit

(* The end of a run, whatever else the step does to the cloud.             *)
LEMMA TiposDoFim ==
  ASSUME TypeOK, NEW r \in Lacos, Encerra(r),
         principal' \in Repositorios,
         espelho' \subseteq Eventos, prometidos' \subseteq Eventos, contrato' \subseteq Correntes,
         UNCHANGED <<emitidos, outros>>
  PROVE  TypeOK'
BY EncerraTipado DEF TypeOK

LEMMA TiposPreservados ==
  ASSUME TypeOK, NEW r \in Lacos, Len(copia[r].corrente) <= emitidos, FaseFiel(r), Passo(r)
  PROVE  TypeOK'
<1>. USE RepositorioTipado
<1>1. CASE Clonar(r)
  BY <1>1 DEF TypeOK, Clonar
<1>2. CASE Selar(r)
  <2>1. emitidos \in Nat /\ emitidos + 1 \in 0..MaxEventos
    BY <1>2 DEF TypeOK, Selar
  <2>2. Proximo(copia[r].corrente) \in Eventos
    BY <1>2, <2>1, ProximoTipado DEF Selar
  <2>3. Append(copia[r].corrente, Proximo(copia[r].corrente)) \in Correntes
    BY <2>2 DEF Correntes
  <2>4. copia' \in [Lacos -> Repositorios]
    BY <1>2, <2>3 DEF TypeOK, Selar, Repositorios
  <2>. QED
    BY <1>2, <2>1, <2>4 DEF TypeOK, Selar
<1>3. CASE FimDosComandos(r)
  BY <1>3 DEF TypeOK, FimDosComandos, Vai
<1>4. CASE Falhar(r)
  BY <1>4, TiposDoFim DEF TypeOK, Falhar, Vermelho
<1>5. CASE NadaMudou(r)
  BY <1>5, TiposDoFim, NovosTipado DEF TypeOK, NadaMudou, Verde
<1>6. CASE Continua(r)
  <2>1. CASE PularAncora(r)
    BY <2>1 DEF TypeOK, PularAncora, Vai
  <2>2. CASE Ancorar(r)
    <3>1. contrato' \subseteq Correntes /\ copia[r].ancoras \cup {copia[r].corrente} \subseteq Correntes
      BY <2>2 DEF TypeOK, Ancorar, Repositorios
    <3>2. CASE Vermelho(r)
      BY <2>2, <3>1, <3>2, TiposDoFim DEF TypeOK, Ancorar, Vermelho
    <3>3. CASE /\ copia' = [copia EXCEPT ![r].ancoras = @ \cup {copia[r].corrente}]
               /\ Vai(r, "espelhar")
               /\ UNCHANGED prometidos
      <4>1. copia' \in [Lacos -> Repositorios]
        BY <3>1, <3>3 DEF TypeOK, Repositorios
      <4>. QED
        BY <2>2, <3>1, <3>3, <4>1 DEF TypeOK, Ancorar, Vai
    <3>. QED
      BY <2>2, <3>2, <3>3 DEF Ancorar
  <2>3. CASE Espelhar(r)
    BY <2>3, NovosTipado DEF TypeOK, Espelhar, Vai
  <2>4. CASE EspelharEmParte(r)
    <3>1. espelho' \subseteq Eventos
      <4>1. PICK n \in 1..Len(copia[r].corrente) - 1 :
              espelho' = espelho \cup ToSet(SubSeq(copia[r].corrente, 1, n))
        BY <2>4 DEF EspelharEmParte
      <4>2. SubSeq(copia[r].corrente, 1, n) \in Correntes
        BY DEF Correntes
      <4>3. ToSet(SubSeq(copia[r].corrente, 1, n)) \subseteq Eventos
        BY <4>2 DEF ToSet, Correntes
      <4>. QED
        BY <4>1, <4>3 DEF TypeOK
    <3>. QED
      BY <2>4, <3>1, TiposDoFim DEF TypeOK, EspelharEmParte, Vermelho
  <2>5. CASE Empurrar(r)
    BY <2>5, TiposDoFim, NovosTipado, PublicaTipado DEF TypeOK, Empurrar, Verde
  <2>. QED
    BY <1>6, <2>1, <2>2, <2>3, <2>4, <2>5 DEF Continua
<1>7. CASE Diaria(r)
  <2>1. CASE Commitar(r)
    BY <2>1 DEF TypeOK, Commitar, Vai
  <2>2. CASE Puxar(r)
    <3>1. [principal EXCEPT !.corrente = copia[r].corrente] \in Repositorios
      BY DEF Repositorios
    <3>. QED
      BY <2>2, <3>1 DEF TypeOK, Puxar
  <2>3. CASE Conflito(r)
    BY <2>3 DEF TypeOK, Conflito, Vai
  <2>4. CASE EmpurrarDiaria(r)
    BY <2>4, TiposDoFim, NovosTipado, PublicaTipado DEF TypeOK, EmpurrarDiaria, Verde
  <2>5. CASE Repetir(r)
    <3>1. tentativa[r] \in Nat /\ tentativa[r] < Tentativas
      BY <2>5 DEF TypeOK, Repetir, FaseFiel
    <3>2. tentativa[r] + 1 \in 0..Tentativas
      BY <3>1
    <3>. QED
      BY <2>5, <3>2 DEF TypeOK, Repetir
  <2>6. CASE Esgotar(r)
    BY <2>6, TiposDoFim, NovosTipado DEF TypeOK, Esgotar, Verde
  <2>. QED
    BY <1>7, <2>1, <2>2, <2>3, <2>4, <2>5, <2>6 DEF Diaria
<1>. QED
  BY <1>1, <1>2, <1>3, <1>4, <1>5, <1>6, <1>7 DEF Passo

------------------------------------------------------------------------------
(* WHAT A STEP LEAVES AS IT IS                                             *)

Fiel(r) == CopiaFiel(r) /\ BaseAtual(r) /\ FaseFiel(r)

(* No step takes anything back from the chain, the mirror or the contract, *)
(* and a step that writes the main branch makes a new commit of it.        *)
Cresce ==
  /\ contrato \subseteq contrato' /\ espelho \subseteq espelho'
  /\ emitidos <= emitidos'
  /\ principal' = principal \/ principal.commit < principal'.commit

Inalterado(r) ==
  fase'[r] = fase[r] /\ base'[r] = base[r] /\ copia'[r] = copia[r] /\ tentativa'[r] = tentativa[r]

LEMMA IntegroEstavel ==
  ASSUME NEW repo, Integro(repo), contrato \subseteq contrato'
  PROVE  Integro(repo)'
BY DEF Integro

LEMMA InalteradoFiel ==
  ASSUME TypeOK, TypeOK', Cresce, NEW r \in Lacos, Fiel(r), Inalterado(r)
  PROVE  Fiel(r)'
<1>1. CopiaFiel(r)'
  <2>1. Integro(copia[r])'
    BY DEF Fiel, CopiaFiel, Integro, Cresce, Inalterado
  <2>2. Len(copia'[r].corrente) <= emitidos'
    BY RepositorioTipado DEF Fiel, CopiaFiel, Cresce, Inalterado, TypeOK, Correntes
  <2>. QED
    BY <2>1, <2>2 DEF Fiel, CopiaFiel, Inalterado
<1>2. BaseAtual(r)'
  BY DEF TypeOK, Repositorios, Fiel, BaseAtual, Cresce, Inalterado
<1>3. FaseFiel(r)'
  BY DEF Fiel, FaseFiel, Cresce, Inalterado
<1>. QED
  BY <1>1, <1>2, <1>3 DEF Fiel

LEMMA VazioIntegro ==
  /\ Integro(Vazio) /\ Len(Vazio.corrente) = 0
  /\ IsPrefix(Vazio.corrente, Vazio.corrente)
BY PrefixoDeSi, VazioTipado DEF Vazio, Integro, Verifica, Repositorios

LEMMA EncerraFiel ==
  ASSUME TypeOK, TypeOK', NEW r \in Lacos, Encerra(r)
  PROVE  Fiel(r)'
<1>1. /\ fase'[r] = "fora" /\ base'[r] = Vazio /\ copia'[r] = Vazio /\ tentativa'[r] = 0
  BY DEF TypeOK, Encerra
<1>2. CopiaFiel(r)'
  <2>1. Integro(Vazio)'
    BY VazioIntegro DEF Integro, Vazio
  <2>2. Len(Vazio.corrente) <= emitidos'
    BY VazioIntegro DEF TypeOK
  <2>. QED
    BY <1>1, <2>1, <2>2, VazioIntegro DEF CopiaFiel, Integro
<1>3. BaseAtual(r)'
  BY <1>1 DEF BaseAtual
<1>4. FaseFiel(r)'
  BY <1>1 DEF FaseFiel
<1>. QED
  BY <1>2, <1>3, <1>4 DEF Fiel

(* A run goes on to another phase; its clone stays as it is.               *)
LEMMA VaiFiel ==
  ASSUME TypeOK, TypeOK', Cresce, NEW r \in Lacos, Fiel(r),
         UNCHANGED <<principal, base, copia>>, fase[r] # "fora", FaseFiel(r)'
  PROVE  Fiel(r)'
<1>1. CopiaFiel(r)'
  <2>1. Integro(copia[r])'
    BY DEF Fiel, CopiaFiel, Integro, Cresce
  <2>2. Len(copia'[r].corrente) <= emitidos'
    BY RepositorioTipado DEF Fiel, CopiaFiel, Cresce, TypeOK, Correntes
  <2>. QED
    BY <2>1, <2>2 DEF Fiel, CopiaFiel
<1>2. BaseAtual(r)'
  BY DEF Fiel, BaseAtual
<1>. QED
  BY <1>1, <1>2 DEF Fiel

------------------------------------------------------------------------------
(* WHAT A PUSH PUBLISHES                                                   *)

LEMMA PublicaFiel ==
  ASSUME TypeOK, NEW r \in Lacos, Fiel(r), fase[r] # "fora",
         principal.commit = base[r].commit, Publica(r), UNCHANGED contrato
  PROVE  /\ Integro(principal)'
         /\ principal.commit < principal'.commit
         /\ Len(principal'.corrente) <= emitidos
         /\ IsPrefix(principal.corrente, principal'.corrente)
         /\ principal.ancoras \subseteq principal'.ancoras
<1>1. /\ principal'.corrente = copia[r].corrente
      /\ principal'.ancoras = copia[r].ancoras
      /\ principal'.commit = principal.commit + 1
  BY RepositorioTipado DEF Publica, Repositorios
<1>2. base[r] = principal
  BY DEF Fiel, BaseAtual
<1>3. Integro(principal)'
  BY <1>1 DEF Fiel, CopiaFiel, Integro
<1>. QED
  BY <1>1, <1>2, <1>3, RepositorioTipado DEF Fiel, CopiaFiel, Repositorios

------------------------------------------------------------------------------
(* WHAT EVERY STEP DOES                                                    *)

(* The main branch stays or is published whole and only forward.           *)
Avanca ==
  \/ principal' = principal
  \/ /\ Integro(principal)' /\ Len(principal'.corrente) <= emitidos'
     /\ IsPrefix(principal.corrente, principal'.corrente)
     /\ principal.ancoras \subseteq principal'.ancoras

Bem(r) ==
  /\ Cresce /\ Avanca
  /\ \A q \in Lacos \ {r} : Inalterado(q)
  /\ Fiel(r)'

LEMMA FimBem ==
  ASSUME TypeOK, TypeOK', NEW r \in Lacos, Encerra(r), Cresce, Avanca
  PROVE  Bem(r)
<1>1. \A q \in Lacos \ {r} : Inalterado(q)
  BY DEF TypeOK, Encerra, Inalterado
<1>. QED
  BY <1>1, EncerraFiel DEF Bem

LEMMA VaiBem ==
  ASSUME TypeOK, TypeOK', NEW r \in Lacos, Fiel(r), NEW f, Vai(r, f), Cresce,
         UNCHANGED <<principal, copia>>, fase[r] # "fora", FaseFiel(r)'
  PROVE  Bem(r)
<1>1. \A q \in Lacos \ {r} : Inalterado(q)
  BY DEF TypeOK, Vai, Inalterado
<1>2. Fiel(r)'
  BY VaiFiel DEF Vai
<1>. QED
  BY <1>1, <1>2 DEF Bem, Avanca

LEMMA ClonarBem ==
  ASSUME TypeOK, TypeOK', PublicadaIntegra, Len(principal.corrente) <= emitidos,
         NEW r \in Lacos, Fiel(r), Clonar(r)
  PROVE  Bem(r)
<1>1. Cresce /\ Avanca
  BY DEF TypeOK, Clonar, Cresce, Avanca
<1>2. \A q \in Lacos \ {r} : Inalterado(q)
  BY DEF TypeOK, Clonar, Inalterado
<1>3. /\ fase'[r] = "selar" /\ base'[r] = principal /\ copia'[r] = principal
      /\ tentativa'[r] = tentativa[r]
  BY DEF TypeOK, Clonar
<1>4. CopiaFiel(r)'
  BY <1>3, RepositorioTipado, PrefixoDeSi DEF Clonar, CopiaFiel, PublicadaIntegra, Integro
<1>5. BaseAtual(r)'
  BY <1>3 DEF Clonar, BaseAtual, TypeOK, Repositorios
<1>6. FaseFiel(r)'
  BY <1>3 DEF Fiel, FaseFiel, Clonar
<1>. QED
  BY <1>1, <1>2, <1>4, <1>5, <1>6 DEF Bem, Fiel

LEMMA SelarBem ==
  ASSUME TypeOK, TypeOK', NEW r \in Lacos, Fiel(r), Selar(r)
  PROVE  Bem(r)
<1>. DEFINE s == copia[r].corrente
            t == Append(s, Proximo(s))
<1>1. emitidos \in Nat /\ emitidos' = emitidos + 1
  BY DEF TypeOK, Selar
<1>2. Cresce /\ Avanca
  BY <1>1 DEF Selar, Cresce, Avanca
<1>3. \A q \in Lacos \ {r} : Inalterado(q)
  BY DEF TypeOK, Selar, Inalterado
<1>4. s \in Correntes /\ Len(s) \in Nat /\ Len(s) <= emitidos
  BY RepositorioTipado DEF Fiel, CopiaFiel, Correntes
<1>5. Proximo(s) \in Eventos
  BY <1>1, <1>4, ProximoTipado DEF Selar
<1>6. /\ copia'[r].corrente = t /\ copia'[r].ancoras = copia[r].ancoras
      /\ base'[r] = base[r] /\ fase'[r] = fase[r] /\ tentativa'[r] = tentativa[r]
  BY RepositorioTipado DEF TypeOK, Selar, Repositorios
<1>7. t \in Correntes /\ IsPrefix(base[r].corrente, t)
  BY <1>4, <1>5, PrefixoDeAnexo, RepositorioTipado DEF Fiel, CopiaFiel
<1>8. Verifica(t)
  BY <1>4, <1>5, VerificaAnexo DEF Fiel, CopiaFiel, Integro
<1>9. \A a \in copia[r].ancoras : a \in contrato /\ IsPrefix(a, t)
  <2>1. \A a \in copia[r].ancoras : a \in Correntes /\ a \in contrato /\ IsPrefix(a, s)
    BY RepositorioTipado DEF Repositorios, Fiel, CopiaFiel, Integro
  <2>. QED
    BY <2>1, <1>4, <1>5, PrefixoDeAnexo
<1>10. Len(t) <= emitidos'
  BY <1>1, <1>4
<1>11. CopiaFiel(r)'
  <2>1. Verifica(copia[r].corrente)'
    BY <1>6, <1>8 DEF Verifica
  <2>2. \A a \in copia'[r].ancoras : a \in contrato' /\ IsPrefix(a, copia'[r].corrente)
    BY <1>6, <1>9 DEF Selar
  <2>3. Len(copia'[r].corrente) <= emitidos'
    BY <1>6, <1>10
  <2>4. /\ IsPrefix(base'[r].corrente, copia'[r].corrente)
        /\ base'[r].ancoras \subseteq copia'[r].ancoras
    BY <1>6, <1>7 DEF Fiel, CopiaFiel
  <2>. QED
    BY <2>1, <2>2, <2>3, <2>4 DEF CopiaFiel, Integro
<1>12. BaseAtual(r)' /\ FaseFiel(r)'
  BY <1>6 DEF Selar, Fiel, BaseAtual, FaseFiel
<1>. QED
  BY <1>2, <1>3, <1>11, <1>12 DEF Bem, Fiel

LEMMA AncorarBem ==
  ASSUME TypeOK, TypeOK', NEW r \in Lacos, Fiel(r), Ancorar(r)
  PROVE  Bem(r)
<1>1. Cresce /\ Avanca
  BY DEF TypeOK, Ancorar, Cresce, Avanca
<1>2. CASE Vermelho(r)
  BY <1>1, <1>2, FimBem DEF Vermelho
<1>3. CASE /\ copia' = [copia EXCEPT ![r].ancoras = @ \cup {copia[r].corrente}]
           /\ Vai(r, "espelhar")
           /\ UNCHANGED prometidos
  <2>1. \A q \in Lacos \ {r} : Inalterado(q)
    BY <1>3 DEF TypeOK, Vai, Inalterado
  <2>2. /\ copia'[r].corrente = copia[r].corrente
        /\ copia'[r].ancoras = copia[r].ancoras \cup {copia[r].corrente}
        /\ base'[r] = base[r] /\ fase'[r] = "espelhar" /\ tentativa'[r] = tentativa[r]
    BY <1>3, RepositorioTipado DEF TypeOK, Vai, Repositorios
  <2>3. \A a \in copia'[r].ancoras : a \in contrato' /\ IsPrefix(a, copia'[r].corrente)
    BY <2>2, RepositorioTipado, PrefixoDeSi DEF Ancorar, Fiel, CopiaFiel, Integro
  <2>4. Verifica(copia[r].corrente)'
    BY <2>2 DEF Fiel, CopiaFiel, Integro, Verifica
  <2>5. CopiaFiel(r)'
    BY <2>2, <2>3, <2>4 DEF Ancorar, Fiel, CopiaFiel, Integro
  <2>6. BaseAtual(r)' /\ FaseFiel(r)'
    BY <2>2 DEF Ancorar, Fiel, BaseAtual, FaseFiel
  <2>. QED
    BY <1>1, <2>1, <2>5, <2>6 DEF Bem, Fiel
<1>. QED
  BY <1>2, <1>3 DEF Ancorar

LEMMA PuxarBem ==
  ASSUME TypeOK, TypeOK', PublicadaIntegra, NEW r \in Lacos, Fiel(r), Puxar(r)
  PROVE  Bem(r)
<1>1. Cresce /\ Avanca
  BY DEF TypeOK, Puxar, Cresce, Avanca
<1>2. \A q \in Lacos \ {r} : Inalterado(q)
  BY DEF TypeOK, Puxar, Inalterado
<1>3. /\ base'[r] = principal /\ fase'[r] = "empurrar" /\ tentativa'[r] = tentativa[r]
      /\ copia'[r].corrente = copia[r].corrente
      /\ copia'[r].ancoras = principal.ancoras
  BY RepositorioTipado DEF TypeOK, Puxar, Repositorios
<1>4. IsPrefix(principal.corrente, copia[r].corrente)
  BY DEF Puxar, Fiel, CopiaFiel
<1>5. \A a \in principal.ancoras : a \in contrato /\ IsPrefix(a, copia[r].corrente)
  <2>1. \A a \in principal.ancoras : a \in Correntes /\ a \in contrato /\ IsPrefix(a, principal.corrente)
    BY RepositorioTipado DEF Repositorios, PublicadaIntegra, Integro
  <2>. QED
    BY <2>1, <1>4, PrefixoTransitivo, RepositorioTipado
<1>6. Verifica(copia[r].corrente)'
  BY <1>3 DEF Fiel, CopiaFiel, Integro, Verifica
<1>7. CopiaFiel(r)'
  BY <1>3, <1>4, <1>5, <1>6 DEF Puxar, Fiel, CopiaFiel, Integro
<1>8. BaseAtual(r)' /\ FaseFiel(r)'
  BY <1>3 DEF Puxar, Fiel, BaseAtual, FaseFiel, TypeOK, Repositorios
<1>. QED
  BY <1>1, <1>2, <1>7, <1>8 DEF Bem, Fiel

LEMMA PassoBem ==
  ASSUME TypeOK, TypeOK', PublicadaIntegra, Len(principal.corrente) <= emitidos,
         NEW r \in Lacos, Fiel(r), Passo(r)
  PROVE  Bem(r)
<1>1. CASE Clonar(r)
  BY <1>1, ClonarBem
<1>2. CASE Selar(r)
  BY <1>2, SelarBem
<1>3. CASE FimDosComandos(r)
  <2>1. Cresce
    BY <1>3 DEF TypeOK, FimDosComandos, Cresce
  <2>2. /\ fase'[r] = (IF r \in Continuas THEN "ancorar" ELSE "commitar")
        /\ tentativa'[r] = tentativa[r]
    BY <1>3 DEF TypeOK, FimDosComandos, Vai
  <2>3. FaseFiel(r)'
    BY <1>3, <2>2 DEF FimDosComandos, Fiel, FaseFiel, Lacos
  <2>. QED
    BY <1>3, <2>1, <2>3, VaiBem DEF FimDosComandos
<1>4. CASE Falhar(r)
  BY <1>4, FimBem DEF TypeOK, Falhar, Vermelho, Cresce, Avanca
<1>5. CASE NadaMudou(r)
  BY <1>5, FimBem DEF TypeOK, NadaMudou, Verde, Cresce, Avanca
<1>6. CASE Continua(r)
  <2>1. CASE PularAncora(r)
    <3>1. Cresce
      BY <2>1 DEF TypeOK, PularAncora, Cresce
    <3>2. FaseFiel(r)'
      BY <2>1 DEF TypeOK, PularAncora, Vai, Fiel, FaseFiel
    <3>. QED
      BY <2>1, <3>1, <3>2, VaiBem DEF PularAncora
  <2>2. CASE Ancorar(r)
    BY <2>2, AncorarBem
  <2>3. CASE Espelhar(r)
    <3>1. Cresce
      BY <2>3 DEF TypeOK, Espelhar, Cresce
    <3>2. FaseFiel(r)'
      BY <2>3 DEF TypeOK, Espelhar, Vai, Fiel, FaseFiel
    <3>. QED
      BY <2>3, <3>1, <3>2, VaiBem DEF Espelhar
  <2>4. CASE EspelharEmParte(r)
    BY <2>4, FimBem DEF TypeOK, EspelharEmParte, Vermelho, Cresce, Avanca
  <2>5. CASE Empurrar(r)
    <3>1. Cresce /\ Avanca
      BY <2>5, PublicaFiel DEF TypeOK, Empurrar, Cresce, Avanca
    <3>. QED
      BY <2>5, <3>1, FimBem DEF Empurrar, Verde
  <2>. QED
    BY <1>6, <2>1, <2>2, <2>3, <2>4, <2>5 DEF Continua
<1>7. CASE Diaria(r)
  <2>1. CASE Commitar(r)
    <3>1. Cresce
      BY <2>1 DEF TypeOK, Commitar, Cresce
    <3>2. FaseFiel(r)'
      BY <2>1 DEF TypeOK, Commitar, Vai, Fiel, FaseFiel
    <3>. QED
      BY <2>1, <3>1, <3>2, VaiBem DEF Commitar
  <2>2. CASE Puxar(r)
    BY <2>2, PuxarBem
  <2>3. CASE Conflito(r)
    <3>1. Cresce
      BY <2>3 DEF TypeOK, Conflito, Cresce
    <3>2. FaseFiel(r)'
      BY <2>3 DEF TypeOK, Conflito, Vai, Fiel, FaseFiel
    <3>. QED
      BY <2>3, <3>1, <3>2, VaiBem DEF Conflito
  <2>4. CASE EmpurrarDiaria(r)
    <3>1. Cresce /\ Avanca
      BY <2>4, PublicaFiel DEF TypeOK, EmpurrarDiaria, Cresce, Avanca
    <3>. QED
      BY <2>4, <3>1, FimBem DEF EmpurrarDiaria, Verde
  <2>5. CASE Repetir(r)
    <3>1. Cresce /\ Avanca
      BY <2>5 DEF TypeOK, Repetir, Cresce, Avanca
    <3>2. \A q \in Lacos \ {r} : Inalterado(q)
      BY <2>5 DEF TypeOK, Repetir, Inalterado
    <3>3. /\ tentativa[r] \in Nat /\ tentativa'[r] = tentativa[r] + 1
          /\ fase'[r] = (IF tentativa[r] + 1 < Tentativas THEN "puxar" ELSE "esgotado")
      BY <2>5 DEF TypeOK, Repetir
    <3>4. FaseFiel(r)'
      BY <2>5, <3>3 DEF Repetir, Fiel, FaseFiel
    <3>5. Fiel(r)'
      BY <2>5, <3>1, <3>4, VaiFiel DEF Repetir
    <3>. QED
      BY <3>1, <3>2, <3>5 DEF Bem
  <2>6. CASE Esgotar(r)
    BY <2>6, FimBem DEF TypeOK, Esgotar, Verde, Cresce, Avanca
  <2>. QED
    BY <1>7, <2>1, <2>2, <2>3, <2>4, <2>5, <2>6 DEF Diaria
<1>. QED
  BY <1>1, <1>2, <1>3, <1>4, <1>5, <1>6, <1>7 DEF Passo

LEMMA OutroCommitBem ==
  ASSUME TypeOK, PublicadaIntegra, Len(principal.corrente) <= emitidos, OutroCommit
  PROVE  Cresce /\ Avanca /\ \A q \in Lacos : Inalterado(q)
<1>1. /\ principal'.corrente = principal.corrente
      /\ principal'.ancoras = principal.ancoras
      /\ principal'.commit = principal.commit + 1
  BY DEF TypeOK, OutroCommit, Repositorios
<1>2. principal.commit \in Nat /\ emitidos \in Nat
  BY DEF TypeOK, Repositorios
<1>3. Cresce
  BY <1>1, <1>2 DEF OutroCommit, Cresce
<1>4. Integro(principal)'
  BY <1>1 DEF OutroCommit, PublicadaIntegra, Integro, Verifica
<1>5. IsPrefix(principal.corrente, principal'.corrente)
  BY <1>1, PrefixoDeSi DEF TypeOK, Repositorios
<1>6. Avanca
  BY <1>1, <1>4, <1>5 DEF OutroCommit, Avanca
<1>7. \A q \in Lacos : Inalterado(q)
  BY DEF OutroCommit, Inalterado
<1>. QED
  BY <1>3, <1>6, <1>7

------------------------------------------------------------------------------
(* THE INVARIANT                                                           *)

LEMMA InicioIInv ==
  ASSUME Init
  PROVE  IInv
<1>1. TypeOK
  BY VazioTipado DEF Init, TypeOK
<1>2. PublicadaIntegra /\ Len(principal.corrente) <= emitidos
  BY VazioIntegro DEF Init, PublicadaIntegra
<1>3. ASSUME NEW r \in Lacos
      PROVE  CopiaFiel(r) /\ BaseAtual(r) /\ FaseFiel(r)
  <2>1. base[r] = Vazio /\ copia[r] = Vazio /\ fase[r] = "fora" /\ tentativa[r] = 0 /\ emitidos = 0
    BY DEF Init
  <2>. QED
    BY <2>1, VazioIntegro DEF CopiaFiel, BaseAtual, FaseFiel
<1>. QED
  BY <1>1, <1>2, <1>3 DEF IInv

(* A step that does well by its run does well by all of them.              *)
LEMMA PassoIInv ==
  ASSUME IInv, [Next]_vars
  PROVE  IInv' /\ (Avanca \/ UNCHANGED principal)
<1>1. ASSUME NEW r \in Lacos, Passo(r)
      PROVE  TypeOK' /\ Cresce /\ Avanca /\ \A q \in Lacos : Fiel(q)'
  <2>1. Fiel(r) /\ TypeOK /\ PublicadaIntegra /\ Len(principal.corrente) <= emitidos
    BY DEF IInv, Fiel
  <2>2. TypeOK'
    BY <1>1, <2>1, TiposPreservados DEF Fiel, CopiaFiel
  <2>3. Bem(r)
    BY <1>1, <2>1, <2>2, PassoBem
  <2>4. ASSUME NEW q \in Lacos \ {r}
        PROVE  Fiel(q)'
    BY <2>1, <2>2, <2>3, <2>4, InalteradoFiel DEF Bem, IInv, Fiel
  <2>. QED
    BY <2>2, <2>3, <2>4 DEF Bem
<1>2. ASSUME OutroCommit
      PROVE  TypeOK' /\ Cresce /\ Avanca /\ \A q \in Lacos : Fiel(q)'
  <2>1. TypeOK' /\ Cresce /\ Avanca /\ \A q \in Lacos : Inalterado(q)
    BY <1>2, TiposDeOutroCommit, OutroCommitBem DEF IInv
  <2>2. ASSUME NEW q \in Lacos
        PROVE  Fiel(q)'
    BY <2>1, <2>2, InalteradoFiel DEF IInv, Fiel
  <2>. QED
    BY <2>1, <2>2
<1>3. ASSUME TypeOK', Cresce, Avanca, \A q \in Lacos : Fiel(q)'
      PROVE  IInv'
  <2>1. PublicadaIntegra'
    BY <1>3 DEF IInv, Avanca, Cresce, PublicadaIntegra, Integro
  <2>2. Len(principal.corrente)' <= emitidos'
    <3>1. Len(principal.corrente) \in Nat /\ emitidos \in Nat /\ emitidos' \in Nat
      BY <1>3 DEF IInv, TypeOK, Repositorios, Correntes
    <3>. QED
      BY <1>3, <3>1 DEF IInv, Avanca, Cresce
  <2>. QED
    BY <1>3, <2>1, <2>2 DEF IInv, Fiel
<1>4. CASE UNCHANGED vars
  BY <1>4 DEF vars, IInv, TypeOK, PublicadaIntegra, Integro, CopiaFiel, BaseAtual, FaseFiel
<1>5. CASE Next
  BY <1>1, <1>2, <1>3, <1>5 DEF Next
<1>. QED
  BY <1>4, <1>5 DEF vars

(* IInv holds throughout: a clone extends what it was cloned from, and a   *)
(* clone of the last commit is a clone of the branch as it is, whatever    *)
(* runs overlap, fail or are refused (operacao-continua.yml:139-150,       *)
(* rodada-diaria.yml:68-83).                                               *)
THEOREM Invariante == Spec => []IInv
<1>1. Init => IInv
  BY InicioIInv
<1>2. IInv /\ [Next]_vars => IInv'
  BY PassoIInv
<1>. QED
  BY <1>1, <1>2, PTL DEF Spec

(* The state of the repository, the clones, the mirror and the contract is *)
(* of its type; a run of rodada-diaria never exceeds its attempts.         *)
THEOREM Tipos == Spec => []TypeOK
<1>1. IInv => TypeOK
  BY DEF IInv
<1>. QED
  BY <1>1, Invariante, PTL

(* The published file is one chain that verifies, and every published      *)
(* anchor is one the contract holds, of a beginning of that chain.         *)
THEOREM PublicadaSempreIntegra == Spec => []PublicadaIntegra
<1>1. IInv => PublicadaIntegra
  BY DEF IInv
<1>. QED
  BY <1>1, Invariante, PTL

(* No push, of either workflow, takes back or rewrites a published event   *)
(* or a published anchor.                                                  *)
THEOREM SempreAvanca == Spec => SoAvanca
<1>. DEFINE A == /\ IsPrefix(principal.corrente, principal'.corrente)
                 /\ principal.ancoras \subseteq principal'.ancoras
<1>1. IInv /\ [Next]_vars => [A]_principal
  BY PassoIInv DEF Avanca
<1>. QED
  BY <1>1, Invariante, PTL DEF Spec, SoAvanca

LEMMA PassoVerdeDaContinua ==
  ASSUME IInv, NEW r \in Continuas, fase[r] # "fora", Next,
         prometidos # prometidos', fase'[r] = "fora"
  PROVE  Novos(r) \subseteq ToSet(principal'.corrente) \cap espelho'
<1>1. r \in Lacos /\ r \notin Diarias
  BY DEF Lacos
<1>2. PICK q \in Lacos : Passo(q)
  BY DEF Next, OutroCommit
<1>3. q = r
  <2>1. Bem(q)
    BY <1>2, TiposPreservados, PassoBem DEF IInv, Fiel, CopiaFiel
  <2>. QED
    BY <2>1, <1>1 DEF Bem, Inalterado
<1>4. FaseFiel(r)
  BY <1>1 DEF IInv
<1>5. NadaMudou(r) \/ Empurrar(r)
  <2>1. ~Clonar(r) /\ ~Selar(r) /\ ~FimDosComandos(r) /\ ~Falhar(r)
    BY <1>1 DEF IInv, TypeOK, Clonar, Selar, FimDosComandos, Falhar, Vermelho, Vai
  <2>2. ~PularAncora(r) /\ ~Ancorar(r) /\ ~Espelhar(r) /\ ~EspelharEmParte(r)
    BY <1>1 DEF IInv, TypeOK, PularAncora, Ancorar, Espelhar, EspelharEmParte, Vermelho, Vai
  <2>3. ~Diaria(r)
    BY <1>1, <1>4 DEF FaseFiel, Diaria, Commitar, Puxar, Conflito, EmpurrarDiaria, Repetir, Esgotar
  <2>. QED
    BY <1>2, <1>3, <2>1, <2>2, <2>3 DEF Passo, Continua
<1>6. CASE NadaMudou(r)
  BY <1>6 DEF NadaMudou, Mudou, Novos
<1>7. CASE Empurrar(r)
  <2>1. principal'.corrente = copia[r].corrente
    BY <1>1, <1>7, RepositorioTipado DEF IInv, Empurrar, Publica, Repositorios
  <2>2. ToSet(copia[r].corrente) \subseteq espelho'
    BY <1>4, <1>7 DEF Empurrar, FaseFiel
  <2>. QED
    BY <2>1, <2>2 DEF Novos
<1>. QED
  BY <1>5, <1>6, <1>7

(* A run of operacao-continua that ends green has published and mirrored   *)
(* all that it sealed (operacao-continua.yml:139-150).                     *)
THEOREM VerdeDaContinuaSempre == Spec => VerdeDaContinua
<1>. DEFINE A == \A r \in Continuas :
                   fase[r] # "fora" /\ prometidos # prometidos' /\ fase'[r] = "fora" =>
                     Novos(r) \subseteq ToSet(principal'.corrente) \cap espelho'
<1>1. IInv /\ [Next]_vars => [A]_vars
  BY PassoVerdeDaContinua
<1>. QED
  BY <1>1, Invariante, PTL DEF Spec, VerdeDaContinua

=============================================================================
