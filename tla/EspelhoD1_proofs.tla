--------------------------- MODULE EspelhoD1_proofs ---------------------------
(***************************************************************************)
(* Proofs about EspelhoD1, for every set of commands, places and keys: the *)
(* rows are one chain, receipts name the row of their key, the mirror has  *)
(* no hole, and the whole implements DiarioSelado.                         *)
(***************************************************************************)
EXTENDS EspelhoD1, TLAPS

USE LocaisAssumption, LinhasAssumption, FalhasAssumption, NativasAssumption

(* A request under way and a command under way have the fields of one.     *)
LEMMA PedidoTipado ==
  ASSUME TypeOK, NEW v \in Vagas, pedidos[v].pc # "livre"
  PROVE  pedidos[v] \in EmCurso
BY DEF TypeOK, Livre

LEMMA ClienteTipado ==
  ASSUME TypeOK, NEW c \in Clientes, clientes[c].pc # "parado"
  PROVE  clientes[c] \in Andando
BY DEF TypeOK, Parado

(* The row a request may insert is the one after the last.                 *)
LEMMA NovaNoFim ==
  ASSUME IInv, NEW v \in Vagas, Gravar(v)
  PROVE  \E n \in Nat : /\ {r.seq : r \in tabela} = 1..n
                        /\ Nova(v).seq = n + 1
                        /\ Nova(v) \in Linhas
<1>1. PICK n \in Nat : {r.seq : r \in tabela} = 1..n
  BY DEF IInv, Numeradas
<1>2. pedidos[v] \in EmCurso
  BY PedidoTipado DEF IInv, Gravar
<1>3. pedidos[v].cabeca \in tabela \cup {GENESIS}
  BY DEF IInv, PedidoFiel, Gravar
<1>4. pedidos[v].cabeca.seq \in 0..n
  <2>1. CASE pedidos[v].cabeca \in tabela
    <3>1. pedidos[v].cabeca.seq \in {r.seq : r \in tabela}
      BY <2>1
    <3>. QED
      BY <1>1, <3>1
  <2>2. CASE pedidos[v].cabeca = GENESIS
    BY <2>2 DEF GENESIS
  <2>. QED
    BY <1>3, <2>1, <2>2
<1>5. Nova(v).seq \notin 1..n
  BY <1>1 DEF Gravar, Colide
<1>6. Nova(v).seq = n + 1
  BY <1>4, <1>5 DEF Nova
<1>7. Nova(v) \in Linhas
  <2>1. pedidos[v].cabeca.chave \in Chaves \cup {0}
    BY <1>2 DEF EmCurso, Linhas, GENESIS
  <2>2. pedidos[v].chave \in Chaves
    BY <1>2 DEF EmCurso
  <2>3. Nova(v).seq \in 1..MaxLinhas
    BY <1>6 DEF Gravar
  <2>. QED
    BY <2>1, <2>2, <2>3 DEF Nova, Linhas
<1>. QED
  BY <1>1, <1>6, <1>7

------------------------------------------------------------------------------
(* TYPES                                                                   *)

LEMMA SeguinteTipado ==
  ASSUME TypeOK, NEW c \in Clientes, clientes[c].pc # "parado"
  PROVE  Seguinte(c) \in Andando \cup {Parado}
<1>1. clientes[c] \in Andando
  BY ClienteTipado
<1>2. CASE clientes[c].chave \in 1..MaxLocais /\ clientes[c].chave < clientes[c].alvo
  <2>1. clientes[c].chave + 1 \in 1..MaxLocais
    BY <1>1, <1>2 DEF Andando
  <2>2. clientes[c].chave + 1 \in Chaves
    BY <2>1 DEF Chaves
  <2>. QED
    BY <1>1, <1>2, <2>2 DEF Seguinte, Andando
<1>. QED
  BY <1>2 DEF Seguinte

LEMMA TiposPreservados ==
  ASSUME IInv, [Next]_vars
  PROVE  TypeOK'
<1>0. TypeOK
  BY DEF IInv
<1>1. CASE UNCHANGED vars
  BY <1>0, <1>1 DEF vars, TypeOK
<1>2. CASE Crescer
  BY <1>0, <1>2 DEF Crescer, TypeOK
<1>3. ASSUME NEW c \in Clientes, IniciarSync(c) PROVE TypeOK'
  <2>1. [pc |-> "postar", chave |-> 1, alvo |-> locais] \in Andando
    BY <1>0, <1>3 DEF IniciarSync, TypeOK, Andando, Chaves
  <2>. QED
    BY <1>0, <1>3, <2>1 DEF IniciarSync, TypeOK
<1>4. ASSUME NEW c \in Clientes, IniciarPublicacao(c) PROVE TypeOK'
  <2>1. PICK k \in Nativas :
          clientes' = [clientes EXCEPT ![c] = [pc |-> "postar", chave |-> k, alvo |-> 0]]
    BY <1>4 DEF IniciarPublicacao
  <2>2. [pc |-> "postar", chave |-> k, alvo |-> 0] \in Andando
    BY DEF Andando, Chaves
  <2>. QED
    BY <1>0, <1>4, <2>1, <2>2 DEF IniciarPublicacao, TypeOK
<1>5. ASSUME NEW c \in Clientes, Postar(c) PROVE TypeOK'
  <2>1. clientes[c] \in Andando
    BY <1>0, <1>5, ClienteTipado DEF Postar
  <2>2. Pedido(c, clientes[c].chave) \in EmCurso
    BY <2>1 DEF Pedido, EmCurso, Andando, Recusado
  <2>3. pedidos' \in [Vagas -> EmCurso \cup {Livre}]
    BY <1>0, <1>5, <2>2 DEF Postar, TypeOK
  <2>4. [clientes[c] EXCEPT !.pc = "esperar"] \in Andando
    BY <2>1 DEF Andando
  <2>5. clientes' \in [Clientes -> Andando \cup {Parado}]
    BY <1>0, <1>5, <2>4 DEF Postar, TypeOK
  <2>. QED
    BY <1>0, <1>5, <2>3, <2>5 DEF Postar, TypeOK
<1>6. ASSUME NEW c \in Clientes, NEW v \in Vagas, Receber(c, v) PROVE TypeOK'
  <2>1. pedidos[v] \in EmCurso
    BY <1>0, <1>6, PedidoTipado DEF Receber
  <2>2. [chave |-> pedidos[v].chave, seq |-> pedidos[v].resposta]
          \in [chave : Chaves, seq : 1..MaxLinhas]
    BY <1>6, <2>1 DEF Receber, EmCurso, Recusado
  <2>3. clientes[c].pc # "parado"
    BY <1>6 DEF IInv, EsperaFiel, Espera, Receber
  <2>4. Seguinte(c) \in Andando \cup {Parado}
    BY <1>0, <2>3, SeguinteTipado
  <2>. QED
    BY <1>0, <1>6, <2>2, <2>4 DEF Receber, TypeOK
<1>7. ASSUME NEW c \in Clientes, NEW v \in Vagas, Levantar(c, v) PROVE TypeOK'
  BY <1>0, <1>7 DEF Levantar, TypeOK
<1>8. ASSUME NEW c \in Clientes, NEW v \in Vagas, Desistir(c, v) PROVE TypeOK'
  <2>1. pedidos[v] \in EmCurso
    BY <1>0, <1>8, PedidoTipado DEF Desistir
  <2>2. [pedidos[v] EXCEPT !.de = {}] \in EmCurso
    BY <2>1 DEF EmCurso
  <2>3. pedidos' \in [Vagas -> EmCurso \cup {Livre}]
    BY <1>0, <1>8, <2>2 DEF Desistir, TypeOK
  <2>. QED
    BY <1>0, <1>8, <2>3 DEF Desistir, TypeOK
<1>9. ASSUME NEW v \in Vagas, Duplicata(v) PROVE TypeOK'
  <2>1. pedidos[v] \in EmCurso
    BY <1>0, <1>9, PedidoTipado DEF Duplicata
  <2>2. \A r \in tabela : r.seq \in 0..MaxLinhas
    BY <1>0 DEF TypeOK, Linhas
  <2>3. \A r \in tabela : [pedidos[v] EXCEPT !.pc = "responder", !.resposta = r.seq] \in EmCurso
    BY <2>1, <2>2 DEF EmCurso
  <2>4. [pedidos[v] EXCEPT !.pc = "cabeca"] \in EmCurso
    BY <2>1 DEF EmCurso
  <2>5. pedidos' \in [Vagas -> EmCurso \cup {Livre}]
    BY <1>0, <1>9, <2>3, <2>4 DEF Duplicata, TypeOK
  <2>. QED
    BY <1>0, <1>9, <2>5 DEF Duplicata, TypeOK
<1>10. ASSUME NEW v \in Vagas, LerCabeca(v) PROVE TypeOK'
  <2>1. pedidos[v] \in EmCurso
    BY <1>0, <1>10, PedidoTipado DEF LerCabeca
  <2>2. \A r \in tabela \cup {GENESIS} : [pedidos[v] EXCEPT !.pc = "gravar", !.cabeca = r] \in EmCurso
    BY <1>0, <2>1 DEF EmCurso, TypeOK
  <2>3. pedidos' \in [Vagas -> EmCurso \cup {Livre}]
    BY <1>0, <1>10, <2>2 DEF LerCabeca, TypeOK
  <2>. QED
    BY <1>0, <1>10, <2>3 DEF LerCabeca, TypeOK
<1>11. ASSUME NEW v \in Vagas, Gravar(v) PROVE TypeOK'
  <2>1. pedidos[v] \in EmCurso
    BY <1>0, <1>11, PedidoTipado DEF Gravar
  <2>2. Nova(v) \in Linhas
    BY <1>11, NovaNoFim
  <2>3. Nova(v).seq \in 0..MaxLinhas
    BY <2>2 DEF Linhas
  <2>4. [pedidos[v] EXCEPT !.pc = "responder", !.resposta = Nova(v).seq] \in EmCurso
    BY <2>1, <2>3 DEF EmCurso
  <2>5. pedidos' \in [Vagas -> EmCurso \cup {Livre}]
    BY <1>0, <1>11, <2>4 DEF Gravar, TypeOK
  <2>. QED
    BY <1>0, <1>11, <2>2, <2>5 DEF Gravar, TypeOK
<1>12. ASSUME NEW v \in Vagas, Recusar(v) PROVE TypeOK'
  <2>1. pedidos[v] \in EmCurso
    BY <1>0, <1>12, PedidoTipado DEF Recusar
  <2>2. [pedidos[v] EXCEPT !.pc = "responder"] \in EmCurso
    BY <2>1 DEF EmCurso
  <2>3. pedidos' \in [Vagas -> EmCurso \cup {Livre}]
    BY <1>0, <1>12, <2>2 DEF Recusar, TypeOK
  <2>. QED
    BY <1>0, <1>12, <2>3 DEF Recusar, TypeOK
<1>13. ASSUME NEW v \in Vagas, Descartar(v) PROVE TypeOK'
  BY <1>0, <1>13 DEF Descartar, TypeOK
<1>14. ASSUME NEW v \in Vagas, Perder(v) PROVE TypeOK'
  BY <1>0, <1>14 DEF Perder, TypeOK
<1>. QED
  BY <1>1, <1>2, <1>3, <1>4, <1>5, <1>6, <1>7, <1>8, <1>9, <1>10, <1>11, <1>12, <1>13, <1>14
     DEF Next, Resposta, Sequenciador

------------------------------------------------------------------------------
(* THE TABLE                                                               *)

(* Only the insert changes the table, and it only adds one row.            *)
LEMMA TabelaSoCresce ==
  ASSUME [Next]_vars
  PROVE  \/ tabela' = tabela
         \/ \E v \in Vagas : Gravar(v)
BY DEF Next, vars, Crescer, IniciarSync, IniciarPublicacao, Postar, Resposta, Receber, Levantar,
       Desistir, Sequenciador, Duplicata, LerCabeca, Recusar, Descartar, Perder

LEMMA TabelaInclusa ==
  ASSUME [Next]_vars
  PROVE  tabela \subseteq tabela'
BY TabelaSoCresce DEF Gravar

(* Only an answer that reaches a command changes the receipts.             *)
LEMMA RecibosSoPorResposta ==
  ASSUME [Next]_vars
  PROVE  \/ recibos' = recibos
         \/ \E c \in Clientes, v \in Vagas : Receber(c, v)
BY DEF Next, vars, Crescer, IniciarSync, IniciarPublicacao, Postar, Resposta, Levantar,
       Desistir, Sequenciador, Duplicata, LerCabeca, Gravar, Recusar, Descartar, Perder

LEMMA CadeiaPreservada ==
  ASSUME IInv, [Next]_vars
  PROVE  CadeiaD1' /\ Numeradas' /\ EspelhoEmOrdem'
<1>1. CASE tabela' = tabela
  BY <1>1 DEF IInv, CadeiaD1, Numeradas, EspelhoEmOrdem
<1>2. ASSUME NEW v \in Vagas, Gravar(v)
      PROVE  CadeiaD1' /\ Numeradas' /\ EspelhoEmOrdem'
  <2>1. PICK n \in Nat : /\ {r.seq : r \in tabela} = 1..n
                         /\ Nova(v).seq = n + 1
                         /\ Nova(v) \in Linhas
    BY <1>2, NovaNoFim
  <2>2. tabela' = tabela \cup {Nova(v)} /\ ~Colide(Nova(v))
    BY <1>2 DEF Gravar
  <2>3. \A r \in tabela : r.seq \in 1..n
    BY <2>1
  <2>4. CadeiaD1'
    <3>1. \A r, q \in tabela' : r # q => r.seq # q.seq /\ r.chave # q.chave
      BY <2>2 DEF IInv, CadeiaD1, Colide
    <3>2. \A r \in tabela :
            \E q \in tabela' \cup {GENESIS} : q.seq + 1 = r.seq /\ r.anterior = q.chave
      BY <2>2 DEF IInv, CadeiaD1
    <3>3. pedidos[v].cabeca \in tabela \cup {GENESIS}
      BY <1>2 DEF IInv, PedidoFiel, Gravar
    <3>4. \E q \in tabela' \cup {GENESIS} : q.seq + 1 = Nova(v).seq /\ Nova(v).anterior = q.chave
      BY <2>2, <3>3 DEF Nova
    <3>. QED
      BY <2>2, <3>1, <3>2, <3>4 DEF CadeiaD1
  <2>5. Numeradas'
    <3>1. {r.seq : r \in tabela'} = {r.seq : r \in tabela} \cup {Nova(v).seq}
      BY <2>2
    <3>2. {r.seq : r \in tabela'} = 1..(n + 1)
      BY <2>1, <3>1
    <3>3. n + 1 \in 0..MaxLinhas
      BY <2>1 DEF Linhas
    <3>. QED
      BY <3>2, <3>3 DEF Numeradas
  <2>6. EspelhoEmOrdem'
    <3>1. \A r \in tabela : r.chave \in 2..MaxLocais =>
            \E q \in tabela' : q.chave = r.chave - 1 /\ q.seq < r.seq
      BY <2>2 DEF IInv, EspelhoEmOrdem
    <3>2. ASSUME Nova(v).chave \in 2..MaxLocais
          PROVE  \E q \in tabela' : q.chave = Nova(v).chave - 1 /\ q.seq < Nova(v).seq
      <4>1. \E q \in tabela : q.chave = Nova(v).chave - 1
        BY <1>2, <3>2 DEF IInv, PedidoFiel, AnteriorGravado, TemLinha, Gravar, Nova
      <4>. QED
        BY <2>1, <2>2, <2>3, <4>1
    <3>. QED
      BY <2>2, <3>1, <3>2 DEF EspelhoEmOrdem
  <2>. QED
    BY <2>4, <2>5, <2>6
<1>. QED
  BY <1>1, <1>2, TabelaSoCresce

LEMMA RecibosPreservados ==
  ASSUME IInv, [Next]_vars
  PROVE  ReciboDoLedger'
<1>1. \A e \in recibos : \E r \in tabela' : r.chave = e.chave /\ r.seq = e.seq
  BY TabelaInclusa DEF IInv, ReciboDoLedger
<1>2. CASE recibos' = recibos
  BY <1>1, <1>2 DEF ReciboDoLedger
<1>3. ASSUME NEW c \in Clientes, NEW v \in Vagas, Receber(c, v)
      PROVE  ReciboDoLedger'
  <2>1. \E r \in tabela : r.chave = pedidos[v].chave /\ r.seq = pedidos[v].resposta
    BY <1>3 DEF IInv, PedidoFiel, Receber
  <2>2. recibos' = recibos \cup {[chave |-> pedidos[v].chave, seq |-> pedidos[v].resposta]}
    BY <1>3 DEF Receber
  <2>. QED
    BY <1>1, <2>1, <2>2, TabelaInclusa DEF ReciboDoLedger
<1>. QED
  BY <1>2, <1>3, RecibosSoPorResposta

------------------------------------------------------------------------------
(* THE REQUESTS                                                            *)

LEMMA AnteriorMantido ==
  ASSUME [Next]_vars, NEW k, AnteriorGravado(k)
  PROVE  AnteriorGravado(k)'
BY TabelaInclusa DEF AnteriorGravado, TemLinha

(* A request that is not touched stays faithful.                           *)
LEMMA PedidoMantido ==
  ASSUME IInv, [Next]_vars, NEW w \in Vagas, pedidos'[w] = pedidos[w]
  PROVE  PedidoFiel(w)'
<1>1. PedidoFiel(w)
  BY DEF IInv
<1>2. tabela \subseteq tabela'
  BY TabelaInclusa
<1>. QED
  BY <1>1, <1>2 DEF PedidoFiel, AnteriorGravado, TemLinha

LEMMA VagaLivreFiel ==
  ASSUME NEW w \in Vagas, pedidos'[w] = Livre
  PROVE  PedidoFiel(w)'
BY DEF PedidoFiel, Livre

(* The steps that change one request.                                      *)
Toca(v) ==
  \/ \E c \in Clientes : Receber(c, v) \/ Levantar(c, v) \/ Desistir(c, v)
  \/ Sequenciador(v) \/ Perder(v)

LEMMA PassosDosPedidos ==
  ASSUME [Next]_vars
  PROVE  \/ pedidos' = pedidos
         \/ \E c \in Clientes : Postar(c)
         \/ \E v \in Vagas : Toca(v)
BY DEF Next, vars, Crescer, IniciarSync, IniciarPublicacao, Resposta, Toca

LEMMA PedidosPreservados ==
  ASSUME IInv, [Next]_vars
  PROVE  \A w \in Vagas : PedidoFiel(w)'
<1>0. TypeOK
  BY DEF IInv
<1>1. CASE pedidos' = pedidos
  BY <1>1, PedidoMantido
<1>2. ASSUME NEW c \in Clientes, Postar(c)
      PROVE  \A w \in Vagas : PedidoFiel(w)'
  <2>1. PICK v \in Vagas : pedidos' = [pedidos EXCEPT ![v] = Pedido(c, clientes[c].chave)]
    BY <1>2 DEF Postar
  <2>2. AnteriorGravado(clientes[c].chave)
    BY <1>2 DEF IInv, Postar
  <2>3. AnteriorGravado(clientes[c].chave)'
    BY <1>2, <2>2 DEF Postar, AnteriorGravado, TemLinha
  <2>4. pedidos'[v] = Pedido(c, clientes[c].chave)
    BY <1>0, <2>1 DEF TypeOK
  <2>5. AnteriorGravado(pedidos[v].chave)'
    BY <1>2, <2>2, <2>4 DEF Postar, AnteriorGravado, TemLinha, Pedido
  <2>6. PedidoFiel(v)'
    BY <2>4, <2>5 DEF PedidoFiel, Pedido, Recusado
  <2>. QED
    BY <2>1, <2>6, PedidoMantido
<1>3. ASSUME NEW v \in Vagas, Toca(v)
      PROVE  \A w \in Vagas : PedidoFiel(w)'
  <2>0. \A w \in Vagas \ {v} : pedidos'[w] = pedidos[w]
    BY <1>0, <1>3
       DEF TypeOK, Toca, Receber, Levantar, Desistir, Sequenciador, Duplicata, LerCabeca, Gravar,
           Recusar, Descartar, Perder
  <2>1. PedidoFiel(v) /\ v \in DOMAIN pedidos
    BY <1>0 DEF IInv, TypeOK
  <2>. SUFFICES PedidoFiel(v)'
    BY <2>0, PedidoMantido
  <2>2. CASE (\E c \in Clientes : Receber(c, v) \/ Levantar(c, v)) \/ Descartar(v) \/ Perder(v)
    <3>1. pedidos'[v] = Livre
      BY <2>1, <2>2 DEF Receber, Levantar, Descartar, Perder
    <3>. QED
      BY <3>1, VagaLivreFiel
  <2>3. ASSUME NEW c \in Clientes, Desistir(c, v) PROVE PedidoFiel(v)'
    <3>1. pedidos[v] \in EmCurso
      BY <1>0, <2>3, PedidoTipado DEF Desistir
    <3>2. pedidos'[v] = [pedidos[v] EXCEPT !.de = {}] /\ tabela' = tabela
      BY <2>1, <2>3 DEF Desistir
    <3>. QED
      BY <2>1, <3>1, <3>2 DEF PedidoFiel, AnteriorGravado, TemLinha, EmCurso
  <2>4. CASE Duplicata(v)
    <3>1. pedidos[v] \in EmCurso
      BY <1>0, <2>4, PedidoTipado DEF Duplicata
    <3>2. CASE pedidos' = [pedidos EXCEPT ![v].pc = "cabeca"]
      <4>1. pedidos'[v] = [pedidos[v] EXCEPT !.pc = "cabeca"] /\ tabela' = tabela
        BY <2>1, <2>4, <3>2 DEF Duplicata
      <4>. QED
        BY <2>1, <2>4, <3>1, <4>1 DEF PedidoFiel, AnteriorGravado, TemLinha, EmCurso, Duplicata
    <3>3. ASSUME NEW r \in tabela, r.chave = pedidos[v].chave,
                 pedidos' = [pedidos EXCEPT ![v].pc = "responder", ![v].resposta = r.seq]
          PROVE  PedidoFiel(v)'
      <4>1. pedidos'[v] = [pedidos[v] EXCEPT !.pc = "responder", !.resposta = r.seq]
            /\ tabela' = tabela
        BY <2>1, <2>4, <3>3 DEF Duplicata
      <4>. QED
        BY <2>1, <2>4, <3>1, <3>3, <4>1 DEF PedidoFiel, AnteriorGravado, TemLinha, EmCurso, Duplicata
    <3>. QED
      BY <2>4, <3>2, <3>3 DEF Duplicata
  <2>5. CASE LerCabeca(v)
    <3>1. pedidos[v] \in EmCurso
      BY <1>0, <2>5, PedidoTipado DEF LerCabeca
    <3>2. PICK r \in tabela \cup {GENESIS} :
            pedidos' = [pedidos EXCEPT ![v].pc = "gravar", ![v].cabeca = r]
      BY <2>5 DEF LerCabeca
    <3>3. pedidos'[v] = [pedidos[v] EXCEPT !.pc = "gravar", !.cabeca = r] /\ tabela' = tabela
      BY <2>1, <2>5, <3>2 DEF LerCabeca
    <3>. QED
      BY <2>1, <2>5, <3>1, <3>3 DEF PedidoFiel, AnteriorGravado, TemLinha, EmCurso, LerCabeca
  <2>6. CASE Gravar(v)
    <3>1. pedidos[v] \in EmCurso
      BY <1>0, <2>6, PedidoTipado DEF Gravar
    <3>2. pedidos'[v] = [pedidos[v] EXCEPT !.pc = "responder", !.resposta = Nova(v).seq]
      BY <2>1, <2>6 DEF Gravar
    <3>3. tabela' = tabela \cup {Nova(v)}
      BY <2>6 DEF Gravar
    <3>4. Nova(v).chave = pedidos[v].chave
      BY DEF Nova
    <3>. QED
      BY <2>1, <2>6, <3>1, <3>2, <3>3, <3>4 DEF PedidoFiel, AnteriorGravado, TemLinha, EmCurso, Gravar
  <2>7. CASE Recusar(v)
    <3>1. pedidos[v] \in EmCurso
      BY <1>0, <2>7, PedidoTipado DEF Recusar
    <3>2. pedidos'[v] = [pedidos[v] EXCEPT !.pc = "responder"] /\ tabela' = tabela
      BY <2>1, <2>7 DEF Recusar
    <3>. QED
      BY <2>1, <2>7, <3>1, <3>2 DEF PedidoFiel, AnteriorGravado, TemLinha, EmCurso, Recusar
  <2>. QED
    BY <1>3, <2>2, <2>3, <2>4, <2>5, <2>6, <2>7 DEF Toca, Sequenciador
<1>. QED
  BY <1>1, <1>2, <1>3, PassosDosPedidos

------------------------------------------------------------------------------
(* THE COMMANDS                                                            *)

(* A command goes on to a local event only when the one before it is there.*)
LEMMA ClientesPreservados ==
  ASSUME IInv, [Next]_vars, NEW d \in Clientes, clientes'[d].pc # "parado",
         NEW k, k = clientes'[d].chave
  PROVE  AnteriorGravado(k)'
<1>0. TypeOK
  BY DEF IInv
<1>1. CASE clientes'[d] = clientes[d]
  <2>1. AnteriorGravado(k)
    BY <1>1 DEF IInv
  <2>. QED
    BY <2>1, AnteriorMantido
<1>2. ASSUME NEW c \in Clientes, IniciarSync(c) \/ IniciarPublicacao(c)
      PROVE  AnteriorGravado(k)'
  <2>1. CASE d = c
    <3>1. k \notin 2..MaxLocais
      BY <1>0, <1>2, <2>1 DEF TypeOK, IniciarSync, IniciarPublicacao
    <3>. QED
      BY <3>1 DEF AnteriorGravado
  <2>2. CASE d # c
    BY <1>0, <1>1, <1>2, <2>2 DEF TypeOK, IniciarSync, IniciarPublicacao
  <2>. QED
    BY <2>1, <2>2
<1>3. ASSUME NEW c \in Clientes, Postar(c)
      PROVE  AnteriorGravado(k)'
  <2>1. CASE d = c
    <3>1. clientes[c] \in Andando
      BY <1>0, <1>3, ClienteTipado DEF Postar
    <3>2. k = clientes[c].chave
      BY <1>0, <1>3, <2>1, <3>1 DEF TypeOK, Postar, Andando
    <3>3. AnteriorGravado(k)
      BY <1>3, <3>2 DEF IInv, Postar
    <3>. QED
      BY <3>3, AnteriorMantido
  <2>2. CASE d # c
    BY <1>0, <1>1, <1>3, <2>2 DEF TypeOK, Postar
  <2>. QED
    BY <2>1, <2>2
<1>4. ASSUME NEW c \in Clientes, NEW v \in Vagas, Receber(c, v)
      PROVE  AnteriorGravado(k)'
  <2>1. CASE d = c
    <3>1. clientes'[d] = Seguinte(c)
      BY <1>0, <1>4, <2>1 DEF TypeOK, Receber
    <3>2. clientes[c].pc = "esperar" /\ clientes[c].chave = pedidos[v].chave
      BY <1>4 DEF IInv, EsperaFiel, Espera, Receber
    <3>3. clientes[c] \in Andando
      BY <1>0, <3>2, ClienteTipado
    <3>4. Seguinte(c) # Parado
      BY <3>1 DEF Parado
    <3>5. clientes[c].chave \in 1..MaxLocais /\ k = clientes[c].chave + 1
      BY <3>1, <3>3, <3>4 DEF Seguinte, Andando
    <3>6. TemLinha(clientes[c].chave)
      BY <1>4, <3>2 DEF IInv, PedidoFiel, Receber, TemLinha
    <3>7. AnteriorGravado(k)
      BY <3>5, <3>6 DEF AnteriorGravado
    <3>. QED
      BY <3>7, AnteriorMantido
  <2>2. CASE d # c
    BY <1>0, <1>1, <1>4, <2>2 DEF TypeOK, Receber
  <2>. QED
    BY <2>1, <2>2
<1>5. ASSUME NEW c \in Clientes, NEW v \in Vagas, Levantar(c, v) \/ Desistir(c, v)
      PROVE  AnteriorGravado(k)'
  <2>1. CASE d = c
    BY <1>0, <1>5, <2>1 DEF TypeOK, Levantar, Desistir, Parado
  <2>2. CASE d # c
    BY <1>0, <1>1, <1>5, <2>2 DEF TypeOK, Levantar, Desistir
  <2>. QED
    BY <2>1, <2>2
<1>6. ASSUME NEW v \in Vagas, Perder(v)
      PROVE  AnteriorGravado(k)'
  BY <1>1, <1>6 DEF Perder, Parado
<1>7. ASSUME UNCHANGED vars \/ Crescer \/ \E v \in Vagas : Sequenciador(v)
      PROVE  AnteriorGravado(k)'
  BY <1>1, <1>7 DEF vars, Crescer, Sequenciador, Duplicata, LerCabeca, Gravar, Recusar, Descartar
<1>. QED
  BY <1>2, <1>3, <1>4, <1>5, <1>6, <1>7 DEF Next, Resposta

(* A command that waits waits for one request, which is for its key.       *)
LEMMA EsperaPreservada ==
  ASSUME IInv, [Next]_vars
  PROVE  EsperaFiel'
<1>0. TypeOK /\ EsperaFiel
  BY DEF IInv
<1>. SUFFICES ASSUME NEW d \in Clientes, NEW w \in Vagas, Espera(d, w)'
              PROVE  /\ clientes'[d].pc = "esperar" /\ clientes'[d].chave = pedidos'[w].chave
                     /\ \A x \in Vagas : Espera(d, x)' => x = w
  BY DEF EsperaFiel
<1>. DEFINE Meta == /\ clientes'[d].pc = "esperar" /\ clientes'[d].chave = pedidos'[w].chave
                    /\ \A x \in Vagas : Espera(d, x)' => x = w
<1>. HIDE DEF Meta
(* Nothing the command waits for appears, and the command is untouched.    *)
<1>1. ASSUME clientes'[d] = clientes[d],
             \A x \in Vagas : Espera(d, x)' => Espera(d, x),
             pedidos'[w].chave = pedidos[w].chave
      PROVE  Meta
  BY <1>0, <1>1 DEF EsperaFiel, Meta
<1>2. ASSUME UNCHANGED <<pedidos, clientes>> PROVE Meta
  BY <1>1, <1>2 DEF Espera
<1>3. ASSUME NEW c \in Clientes, IniciarSync(c) \/ IniciarPublicacao(c) PROVE Meta
  <2>1. pedidos' = pedidos
    BY <1>3 DEF IniciarSync, IniciarPublicacao
  <2>2. d # c
    BY <1>0, <1>3, <2>1 DEF EsperaFiel, Espera, IniciarSync, IniciarPublicacao
  <2>3. clientes'[d] = clientes[d]
    BY <1>0, <1>3, <2>2 DEF TypeOK, IniciarSync, IniciarPublicacao
  <2>. QED
    BY <1>1, <2>1, <2>3 DEF Espera
<1>4. ASSUME NEW c \in Clientes, Postar(c) PROVE Meta
  <2>1. PICK v \in Vagas : /\ pedidos[v].pc = "livre"
                           /\ pedidos' = [pedidos EXCEPT ![v] = Pedido(c, clientes[c].chave)]
    BY <1>4 DEF Postar
  <2>2. pedidos'[v] = Pedido(c, clientes[c].chave)
        /\ \A x \in Vagas \ {v} : pedidos'[x] = pedidos[x]
    BY <1>0, <2>1 DEF TypeOK
  <2>3. clientes[c].pc = "postar" /\ clientes[c] \in Andando
    BY <1>0, <1>4, ClienteTipado DEF Postar
  <2>4. \A x \in Vagas : ~Espera(c, x)
    BY <1>0, <2>3 DEF EsperaFiel
  <2>5. CASE d = c
    <3>1. \A x \in Vagas : Espera(c, x)' => x = v
      BY <2>2, <2>4 DEF Espera
    <3>2. w = v
      BY <2>5, <3>1
    <3>3. clientes'[c] = [clientes[c] EXCEPT !.pc = "esperar"]
      BY <1>0, <1>4 DEF TypeOK, Postar
    <3>4. clientes'[c].pc = "esperar" /\ clientes'[c].chave = clientes[c].chave
      BY <2>3, <3>3 DEF Andando
    <3>5. pedidos'[w].chave = clientes[c].chave
      BY <2>2, <3>2 DEF Pedido
    <3>. QED
      BY <2>5, <3>1, <3>2, <3>4, <3>5 DEF Meta
  <2>6. CASE d # c
    <3>1. clientes'[d] = clientes[d]
      BY <1>0, <1>4, <2>6 DEF TypeOK, Postar
    <3>2. \A x \in Vagas : Espera(d, x)' => x # v
      BY <2>2, <2>6 DEF Espera, Pedido
    <3>3. \A x \in Vagas : Espera(d, x)' => Espera(d, x)
      BY <2>2, <3>2 DEF Espera
    <3>. QED
      BY <1>1, <2>2, <3>1, <3>2, <3>3
  <2>. QED
    BY <2>5, <2>6
<1>5. ASSUME NEW c \in Clientes, NEW v \in Vagas, Receber(c, v) \/ Levantar(c, v) PROVE Meta
  <2>1. pedidos'[v] = Livre /\ \A x \in Vagas \ {v} : pedidos'[x] = pedidos[x]
    BY <1>0, <1>5 DEF TypeOK, Receber, Levantar
  <2>2. \A x \in Vagas : Espera(d, x)' => x # v /\ Espera(d, x)
    BY <2>1 DEF Espera, Livre
  <2>3. Espera(c, v)
    BY <1>5 DEF Espera, Receber, Levantar
  <2>4. d # c
    BY <1>0, <2>2, <2>3 DEF EsperaFiel
  <2>5. clientes'[d] = clientes[d]
    BY <1>0, <1>5, <2>4 DEF TypeOK, Receber, Levantar
  <2>. QED
    BY <1>1, <2>1, <2>2, <2>5
<1>6. ASSUME NEW c \in Clientes, NEW v \in Vagas, Desistir(c, v) PROVE Meta
  <2>0. pedidos[v] \in EmCurso
    BY <1>0, <1>6, PedidoTipado DEF Desistir
  <2>1. pedidos'[v] = [pedidos[v] EXCEPT !.de = {}]
        /\ \A x \in Vagas \ {v} : pedidos'[x] = pedidos[x]
    BY <1>0, <1>6 DEF TypeOK, Desistir
  <2>2. pedidos'[v].de = {}
    BY <2>0, <2>1 DEF EmCurso
  <2>3. \A x \in Vagas : Espera(d, x)' => x # v /\ Espera(d, x)
    BY <2>1, <2>2 DEF Espera
  <2>4. Espera(c, v)
    BY <1>6 DEF Espera, Desistir
  <2>5. d # c
    BY <1>0, <2>3, <2>4 DEF EsperaFiel
  <2>6. clientes'[d] = clientes[d]
    BY <1>0, <1>6, <2>5 DEF TypeOK, Desistir
  <2>. QED
    BY <1>1, <2>1, <2>3, <2>6
<1>7. ASSUME NEW v \in Vagas, Duplicata(v) \/ LerCabeca(v) \/ Gravar(v) \/ Recusar(v) PROVE Meta
  <2>0. pedidos[v] \in EmCurso
    BY <1>0, <1>7, PedidoTipado DEF Duplicata, LerCabeca, Gravar, Recusar
  <2>1. \A x \in Vagas \ {v} : pedidos'[x] = pedidos[x]
    BY <1>0, <1>7 DEF TypeOK, Duplicata, LerCabeca, Gravar, Recusar
  <2>2. pedidos'[v].de = pedidos[v].de /\ pedidos'[v].chave = pedidos[v].chave
    <3>1. v \in DOMAIN pedidos
      BY <1>0 DEF TypeOK
    <3>2. CASE Duplicata(v)
      <4>1. \/ \E r \in tabela : pedidos' = [pedidos EXCEPT ![v].pc = "responder", ![v].resposta = r.seq]
            \/ pedidos' = [pedidos EXCEPT ![v].pc = "cabeca"]
        BY <3>2 DEF Duplicata
      <4>2. \/ \E r \in tabela : pedidos'[v] = [pedidos[v] EXCEPT !.pc = "responder", !.resposta = r.seq]
            \/ pedidos'[v] = [pedidos[v] EXCEPT !.pc = "cabeca"]
        BY <3>1, <4>1
      <4>. QED
        BY <2>0, <4>2 DEF EmCurso
    <3>3. CASE LerCabeca(v)
      BY <2>0, <3>1, <3>3 DEF LerCabeca, EmCurso
    <3>4. CASE Gravar(v)
      BY <2>0, <3>1, <3>4 DEF Gravar, EmCurso
    <3>5. CASE Recusar(v)
      BY <2>0, <3>1, <3>5 DEF Recusar, EmCurso
    <3>. QED
      BY <1>7, <3>2, <3>3, <3>4, <3>5
  <2>3. pedidos[v].pc # "livre"
    BY <2>0 DEF EmCurso
  <2>4. \A x \in Vagas : Espera(d, x)' => Espera(d, x)
    BY <2>1, <2>2, <2>3 DEF Espera
  <2>5. clientes' = clientes
    BY <1>7 DEF Duplicata, LerCabeca, Gravar, Recusar
  <2>. QED
    BY <1>1, <2>1, <2>2, <2>4, <2>5
<1>8. ASSUME NEW v \in Vagas, Descartar(v) \/ Perder(v) PROVE Meta
  <2>1. pedidos'[v] = Livre /\ \A x \in Vagas \ {v} : pedidos'[x] = pedidos[x]
    BY <1>0, <1>8 DEF TypeOK, Descartar, Perder
  <2>2. \A x \in Vagas : Espera(d, x)' => x # v /\ Espera(d, x)
    BY <2>1 DEF Espera, Livre
  <2>3. ~Espera(d, v)
    BY <1>0, <2>2 DEF EsperaFiel
  <2>4. clientes'[d] = clientes[d]
    <3>1. CASE Descartar(v)
      BY <3>1 DEF Descartar
    <3>2. CASE Perder(v)
      <4>1. d \notin pedidos[v].de
        BY <2>3, <3>2 DEF Espera, Perder
      <4>. QED
        BY <3>2, <4>1 DEF Perder
    <3>. QED
      BY <1>8, <3>1, <3>2
  <2>. QED
    BY <1>1, <2>1, <2>2, <2>4
<1>9. Meta
  BY <1>2, <1>3, <1>4, <1>5, <1>6, <1>7, <1>8
     DEF Next, vars, Crescer, Resposta, Sequenciador
<1>. QED
  BY <1>9 DEF Meta

------------------------------------------------------------------------------
(* THE THEOREMS                                                            *)

LEMMA Inicio == Init => IInv
<1>. SUFFICES ASSUME Init PROVE IInv
  OBVIOUS
<1>1. TypeOK
  BY DEF Init, TypeOK
<1>2. CadeiaD1 /\ ReciboDoLedger /\ EspelhoEmOrdem
  BY DEF Init, CadeiaD1, ReciboDoLedger, EspelhoEmOrdem
<1>3. Numeradas
  BY DEF Init, Numeradas
<1>4. \A v \in Vagas : PedidoFiel(v)
  BY DEF Init, PedidoFiel, Livre
<1>5. \A c \in Clientes : clientes[c].pc = "parado"
  BY DEF Init, Parado
<1>6. EsperaFiel
  BY DEF Init, EsperaFiel, Espera, Livre
<1>. QED
  BY <1>1, <1>2, <1>3, <1>4, <1>5, <1>6 DEF IInv

LEMMA Inducao == IInv /\ [Next]_vars => IInv'
<1>. SUFFICES ASSUME IInv, [Next]_vars PROVE IInv'
  OBVIOUS
<1>1. \A c \in Clientes : clientes'[c].pc # "parado" => AnteriorGravado(clientes[c].chave)'
  <2>. SUFFICES ASSUME NEW c \in Clientes, clientes'[c].pc # "parado",
                       NEW k, k = clientes'[c].chave
                PROVE  AnteriorGravado(k)'
    BY DEF AnteriorGravado, TemLinha
  <2>. QED
    BY ClientesPreservados
<1>. QED
  BY <1>1, TiposPreservados, CadeiaPreservada, RecibosPreservados, PedidosPreservados,
     EsperaPreservada DEF IInv

(* The inductive invariant of the cloud ledger.                            *)
THEOREM Invariante == Spec => []IInv
  BY Inicio, Inducao, PTL DEF Spec

(* Type correctness.                                                       *)
THEOREM Tipos == Spec => []TypeOK
<1>1. IInv => TypeOK
  BY DEF IInv
<1>. QED
  BY <1>1, Invariante, PTL

(* However the requests of any number of commands interleave between the   *)
(* awaits of the sequencer, audit_events is one chain (worker.ts:443-495). *)
THEOREM CadeiaSempreUna == Spec => []CadeiaD1
<1>1. IInv => CadeiaD1
  BY DEF IInv
<1>. QED
  BY <1>1, Invariante, PTL

(* A receipt of publish_event names the row its key has.                   *)
THEOREM ReciboSempreDoLedger == Spec => []ReciboDoLedger
<1>1. IInv => ReciboDoLedger
  BY DEF IInv
<1>. QED
  BY <1>1, Invariante, PTL

(* The mirror of sincronizar is a prefix of the local chain, in its order. *)
THEOREM EspelhoSempreEmOrdem == Spec => []EspelhoEmOrdem
<1>1. IInv => EspelhoEmOrdem
  BY DEF IInv
<1>. QED
  BY <1>1, Invariante, PTL

------------------------------------------------------------------------------
(* IMPLEMENTATION OF DiarioSelado                                          *)

LEMMA ImplementaInicio == Init => Diario!Init
BY DEF Init, Diario!Init

(* The insert is the entry of a new key after all the others.              *)
LEMMA GravarEntra ==
  ASSUME IInv, NEW v \in Vagas, Gravar(v)
  PROVE  Diario!Selar
<1>1. PICK n \in Nat : /\ {r.seq : r \in tabela} = 1..n
                       /\ Nova(v).seq = n + 1
                       /\ Nova(v) \in Linhas
  BY NovaNoFim
<1>. DEFINE D == {Entrada(r) : r \in tabela}
            N == Nova(v)
            K == <<N.chave>>
<1>2. N.seq \in 1..MaxLinhas /\ N.chave \in Chaves
  BY <1>1 DEF Linhas
<1>3. \A r \in tabela : r.seq \in 1..n
  BY <1>1
<1>4. K \in Diario!Chaves
  BY <1>2 DEF Diario!Chaves
<1>5. ~Diario!TemEntrada(D, K)
  <2>1. \A r \in tabela : r.chave # N.chave
    BY DEF Gravar, Colide
  <2>2. \A r \in tabela : Entrada(r).chave # K
    BY <2>1 DEF Entrada
  <2>. QED
    BY <2>2 DEF Diario!TemEntrada
<1>6. \A e \in D : e.id # N.seq /\ e.pos < N.seq
  BY <1>1, <1>3 DEF Entrada
<1>7. N.seq \in {1} \cup {e.pos + 1 : e \in D}
  <2>1. CASE n = 0
    BY <1>1, <2>1
  <2>2. CASE n # 0
    <3>1. n \in {r.seq : r \in tabela}
      BY <1>1, <2>2
    <3>2. PICK r \in tabela : r.seq = n
      BY <3>1
    <3>3. Entrada(r) \in D /\ Entrada(r).pos + 1 = N.seq
      BY <1>1, <3>2 DEF Entrada
    <3>. QED
      BY <3>3
  <2>. QED
    BY <2>1, <2>2
<1>8. {Entrada(r) : r \in tabela'} = D \cup {[pos |-> N.seq, chave |-> K, conteudo |-> Conteudo, id |-> N.seq]}
  <2>1. tabela' = tabela \cup {N}
    BY DEF Gravar
  <2>2. Entrada(N) = [pos |-> N.seq, chave |-> K, conteudo |-> Conteudo, id |-> N.seq]
    BY DEF Entrada
  <2>. HIDE DEF N
  <2>. QED
    BY <2>1, <2>2
<1>9. {Entregue(e) : e \in recibos'} = {Entregue(e) : e \in recibos}
  BY DEF Gravar
<1>. HIDE DEF D, N, K
<1>10. \E k \in Diario!Chaves, c \in {Conteudo}, i \in 1..MaxLinhas, m \in {1} \cup {e.pos + 1 : e \in D} :
         /\ ~Diario!TemEntrada(D, k)
         /\ \A e \in D : e.id # i /\ e.pos < m
         /\ {Entrada(r) : r \in tabela'} = D \cup {[pos |-> m, chave |-> k, conteudo |-> c, id |-> i]}
         /\ {Entregue(e) : e \in recibos'} = {Entregue(e) : e \in recibos}
  BY <1>2, <1>4, <1>5, <1>6, <1>7, <1>8, <1>9
<1>. QED
  BY <1>10 DEF D, Diario!Selar

(* An answer that reaches its command is a receipt the journal proves.     *)
LEMMA ReceberEntrega ==
  ASSUME IInv, NEW c \in Clientes, NEW v \in Vagas, Receber(c, v)
  PROVE  Diario!Receber
<1>. DEFINE D == {Entrada(r) : r \in tabela}
            R == [chave |-> pedidos[v].chave, seq |-> pedidos[v].resposta]
<1>1. PICK r \in tabela : r.chave = R.chave /\ r.seq = R.seq
  BY DEF IInv, PedidoFiel, Receber
<1>2. r \in Linhas
  BY DEF IInv, TypeOK
<1>3. <<R.chave>> \in Diario!Chaves /\ R.seq \in 1..MaxLinhas
  BY <1>1, <1>2 DEF Diario!Chaves, Linhas
<1>4. Entrada(r) \in D /\ Entrada(r).chave = <<R.chave>> /\ Entrada(r).id = R.seq
      /\ Entrada(r).conteudo = Conteudo
  BY <1>1 DEF Entrada
<1>5. {Entrada(q) : q \in tabela'} = D
  BY DEF Receber
<1>6. recibos' = recibos \cup {R}
  BY DEF Receber
<1>7. Entregue(R) = [chave |-> <<R.chave>>, conteudo |-> Conteudo, id |-> R.seq]
  BY DEF Entregue
<1>. HIDE DEF D, R
<1>8. {Entregue(e) : e \in recibos'} = {Entregue(e) : e \in recibos} \cup {Entregue(R)}
  BY <1>6
<1>9. Diario!Prova(D, Entregue(R))
  BY <1>4, <1>7 DEF Diario!Prova
<1>10. \E k \in Diario!Chaves, t \in {Conteudo}, i \in 1..MaxLinhas :
         /\ Diario!Prova(D, [chave |-> k, conteudo |-> t, id |-> i])
         /\ {Entregue(e) : e \in recibos'}
              = {Entregue(e) : e \in recibos} \cup {[chave |-> k, conteudo |-> t, id |-> i]}
         /\ {Entrada(q) : q \in tabela'} = D
  BY <1>3, <1>5, <1>7, <1>8, <1>9
<1>. QED
  BY <1>10 DEF D, Diario!Receber

LEMMA ImplementaPasso ==
  ASSUME IInv, [Next]_vars
  PROVE  [Diario!Next]_<<{Entrada(r) : r \in tabela}, {Entregue(e) : e \in recibos}>>
<1>1. CASE \E v \in Vagas : Gravar(v)
  BY <1>1, GravarEntra DEF Diario!Next
<1>2. CASE \E c \in Clientes, v \in Vagas : Receber(c, v)
  BY <1>2, ReceberEntrega DEF Diario!Next
<1>3. CASE tabela' = tabela /\ recibos' = recibos
  BY <1>3
<1>. QED
  BY <1>1, <1>2, <1>3, TabelaSoCresce, RecibosSoPorResposta

(* The cloud ledger keeps the promise of a sealed journal.                 *)
THEOREM ImplementaODiario == Spec => ImplementaDiario
<1>1. Init => Diario!Init
  BY ImplementaInicio
<1>2. IInv /\ [Next]_vars
      => [Diario!Next]_<<{Entrada(r) : r \in tabela}, {Entregue(e) : e \in recibos}>>
  BY ImplementaPasso
<1>. QED
  BY <1>1, <1>2, Invariante, PTL DEF Spec, ImplementaDiario, Diario!Spec
=============================================================================
