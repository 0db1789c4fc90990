------------------------- MODULE CorrenteLocal_proofs -------------------------
(***************************************************************************)
(* Proofs about CorrenteLocal, for every set of processes, keys, contents  *)
(* and events.  The inductive invariant IInv is proved conjunct by         *)
(* conjunct; its consequences are the theorems at the end.                 *)
(***************************************************************************)
EXTENDS CorrenteLocal, TLAPS

(* A position handed out by next_position has the type of a position.      *)
LEMMA PosicaoTipada ==
  ASSUME NEW S \in SUBSET Eventos, NEW pos \in Posicoes(S)
  PROVE  pos.seq \in Nat \ {0} /\ pos.prev \in Ids \cup {Genesis}
BY DEF Posicoes, Topo, Eventos

(* An event at the next position of the ledger is linked to it.            *)
LEMMA PosicaoLiga ==
  ASSUME NEW e \in Eventos, [seq |-> e.seq, prev |-> e.prev] \in Posicoes(banco),
         banco \in SUBSET Eventos
  PROVE  Ligado(e)
<1>1. CASE banco = {}
  BY <1>1 DEF Posicoes, Ligado
<1>2. CASE banco # {}
  <2>1. PICK f \in Topo(banco) :
          [seq |-> e.seq, prev |-> e.prev] = [seq |-> f.seq + 1, prev |-> f.id]
    BY <1>2 DEF Posicoes
  <2>2. e.seq = f.seq + 1 /\ e.prev = f.id /\ f \in banco
    BY <2>1 DEF Topo
  <2>. QED
    BY <2>2 DEF Ligado
<1>. QED
  BY <1>1, <1>2

LEMMA LinhasTipadas ==
  ASSUME arquivo \in Seq(Eventos) PROVE Linhas \in SUBSET Eventos
BY DEF Linhas

(* Appending a line adds that event to the lines.                          *)
LEMMA LinhasAnexadas ==
  ASSUME arquivo \in Seq(Eventos), NEW e \in Eventos, arquivo' = Append(arquivo, e)
  PROVE  Linhas' = Linhas \cup {e}
<1>1. DOMAIN arquivo' = 1 .. Len(arquivo) + 1
  OBVIOUS
<1>2. DOMAIN arquivo = 1 .. Len(arquivo) /\ Len(arquivo) \in Nat
  OBVIOUS
<1>3. \A i \in DOMAIN arquivo : arquivo'[i] = arquivo[i]
  OBVIOUS
<1>4. arquivo'[Len(arquivo) + 1] = e
  OBVIOUS
<1>. QED
  BY <1>1, <1>2, <1>3, <1>4 DEF Linhas

-----------------------------------------------------------------------------
(* Steps that leave the ledger, the file and the receipts alone and put no *)
(* new event in a process's hands.                                         *)
Local(p) ==
  \/ Abrir(p) \/ LerCabeca(p) \/ FimDaRestauracao(p)
  \/ Conferir(p) \/ ConflitoDePosicao(p) \/ Deduplicar(p) \/ UnicidadeViolada(p)
  \/ DivergenciaLevanta(p) \/ FaltaExportar(p) \/ Fechar(p) \/ Queda(p)

(* A step of process p.                                                    *)
PassoDe(p) ==
  \/ Local(p) \/ Restaurar(p) \/ Selar(p) \/ Reconciliar(p) \/ Gravar(p)
  \/ DivergenciaTolerada(p) \/ JaExportado(p) \/ Anexar(p)

LEMMA Casos ==
  ASSUME Next
  PROVE  PerderBanco \/ \E p \in Processos : PassoDe(p)
BY DEF Next, Sincronizar, Apendar, Exportar, Local, PassoDe

-----------------------------------------------------------------------------
(* TYPES                                                                   *)

LEMMA SoltaTipada ==
  ASSUME TypeOK, NEW p \in Processos, NEW f \in Fases, Solta(p, f)
  PROVE  /\ fase' \in [Processos -> Fases]
         /\ passo' \in [Processos -> Passos]
         /\ fila' \in [Processos -> SUBSET Eventos]
         /\ evento' \in [Processos -> Eventos \cup {Nenhum}]
         /\ selado' \in [Processos -> Eventos \cup {Nenhum}]
BY DEF Solta, TypeOK, Passos

(* A record is sealed into an event.                                       *)
LEMMA RegistrarTipado ==
  ASSUME TypeOK, NEW p \in Processos, NEW k \in Chaves, NEW c \in Conteudos,
         Registrar(p, k, c)
  PROVE  /\ evento'[p] \in Eventos
         /\ evento'[p].id \in Ids \ IdsEmUso
         /\ evento'[p].chave = k
         /\ evento' = [evento EXCEPT ![p] = evento'[p]]
<1>1. PICK pos \in Posicoes(banco), id \in Ids \ IdsEmUso :
        evento' = [evento EXCEPT ![p] =
          [id |-> id, seq |-> pos.seq, prev |-> pos.prev, chave |-> k, conteudo |-> c]]
  BY DEF Registrar
<1>2. pos.seq \in Nat \ {0} /\ pos.prev \in Ids \cup {Genesis}
  BY PosicaoTipada DEF TypeOK
<1>3. evento'[p] = [id |-> id, seq |-> pos.seq, prev |-> pos.prev, chave |-> k, conteudo |-> c]
  BY <1>1 DEF TypeOK
<1>4. evento'[p] \in Eventos
  BY <1>2, <1>3 DEF Eventos
<1>5. evento'[p].id = id /\ evento'[p].chave = k
  BY <1>3
<1>6. evento' = [evento EXCEPT ![p] = evento'[p]]
  BY <1>1, <1>3, Zenon
<1>. QED
  BY <1>4, <1>5, <1>6

(* What AuditSDK.record is called for: a record or a reconciliation.       *)
LEMMA Registros ==
  ASSUME TypeOK, NEW p \in Processos, Selar(p) \/ Reconciliar(p)
  PROVE  \E k \in Chaves, c \in Conteudos :
           /\ Registrar(p, k, c)
           /\ k \in Correlacoes \/ \E l \in Linhas, d \in Conteudos :
                                     l.chave \in Correlacoes /\ k = <<l.chave, d>>
<1>1. CASE Selar(p)
  BY <1>1 DEF Selar, Chaves
<1>2. CASE Reconciliar(p)
  <2>1. PICK l \in Linhas, d \in Conteudos :
          l.chave \in Correlacoes /\ Registrar(p, <<l.chave, d>>, l.conteudo)
    BY <1>2 DEF Reconciliar
  <2>2. l.conteudo \in Conteudos
    BY LinhasTipadas DEF TypeOK, Eventos
  <2>3. <<l.chave, d>> \in Chaves
    BY <2>1 DEF Chaves, Reconciliacoes
  <2>. QED
    BY <2>1, <2>2, <2>3
<1>. QED
  BY <1>1, <1>2

LEMMA GravaTipado ==
  ASSUME TypeOK, NEW p \in Processos, NEW e \in Eventos, AposGravar(p, e)
  PROVE  /\ passo' \in [Processos -> Passos]
         /\ evento' \in [Processos -> Eventos \cup {Nenhum}]
         /\ selado' \in [Processos -> Eventos \cup {Nenhum}]
BY DEF AposGravar, TypeOK, Passos

LEMMA DevolveTipado ==
  ASSUME TypeOK, EmMaos, NEW p \in Processos, passo[p] \in {"exportar", "anexar"}, Devolve(p)
  PROVE  recibos' \in SUBSET Recibos
<1>1. evento[p] \in Eventos /\ selado[p] \in Eventos
  BY DEF TypeOK, EmMaos, EmMaosDe
<1>. QED
  BY <1>1 DEF Devolve, TypeOK, Recibos, Eventos

LEMMA TypeOKPreservado ==
  ASSUME TypeOK, EmMaos, Next PROVE TypeOK'
<1>1. CASE PerderBanco
  BY <1>1, CorrenteAssumptions DEF PerderBanco, TypeOK, locais
<1>2. ASSUME NEW p \in Processos, Local(p) PROVE TypeOK'
  <2>1. CASE Abrir(p)
    BY <2>1, LinhasTipadas DEF Abrir, TypeOK, Fases, Passos
  <2>2. CASE LerCabeca(p)
    BY <2>2 DEF LerCabeca, TypeOK, Passos
  <2>3. CASE FimDaRestauracao(p)
    BY <2>3, SoltaTipada DEF FimDaRestauracao, TypeOK, Fases
  <2>4. CASE Conferir(p) \/ FaltaExportar(p)
    BY <2>4 DEF Conferir, FaltaExportar, TypeOK, Passos
  <2>5. CASE ConflitoDePosicao(p) \/ UnicidadeViolada(p) \/ DivergenciaLevanta(p)
    BY <2>5, SoltaTipada
       DEF ConflitoDePosicao, UnicidadeViolada, DivergenciaLevanta, Levanta, TypeOK, Fases
  <2>6. CASE Deduplicar(p)
    BY <2>6, GravaTipado DEF Deduplicar, TypeOK
  <2>7. CASE Fechar(p) \/ Queda(p)
    BY <2>7, SoltaTipada, CorrenteAssumptions DEF Fechar, Queda, TypeOK, Fases
  <2>. QED
    BY <1>2, <2>1, <2>2, <2>3, <2>4, <2>5, <2>6, <2>7 DEF Local
<1>3. ASSUME NEW p \in Processos, Restaurar(p) PROVE TypeOK'
  BY <1>3 DEF Restaurar, TypeOK, Passos
<1>4. ASSUME NEW p \in Processos, Selar(p) \/ Reconciliar(p) PROVE TypeOK'
  <2>1. PICK k \in Chaves, c \in Conteudos : Registrar(p, k, c)
    BY <1>4, Registros
  <2>2. evento' \in [Processos -> Eventos \cup {Nenhum}]
    BY <2>1, RegistrarTipado DEF TypeOK
  <2>. QED
    BY <2>1, <2>2 DEF Registrar, TypeOK, Passos
<1>5. ASSUME NEW p \in Processos, Gravar(p) PROVE TypeOK'
  <2>1. evento[p] \in Eventos
    BY <1>5 DEF Gravar, EmMaos, EmMaosDe, TypeOK
  <2>. QED
    BY <1>5, <2>1, GravaTipado DEF Gravar, TypeOK
<1>6. ASSUME NEW p \in Processos, DivergenciaTolerada(p) \/ JaExportado(p) PROVE TypeOK'
  BY <1>6, DevolveTipado, SoltaTipada
     DEF DivergenciaTolerada, JaExportado, Devolve, TypeOK, Fases
<1>7. ASSUME NEW p \in Processos, Anexar(p) PROVE TypeOK'
  <2>1. selado[p] \in Eventos
    BY <1>7 DEF Anexar, EmMaos, EmMaosDe, TypeOK
  <2>2. arquivo' \in Seq(Eventos)
    BY <1>7, <2>1 DEF Anexar, TypeOK
  <2>. QED
    BY <1>7, <2>2, DevolveTipado, SoltaTipada DEF Anexar, Devolve, TypeOK, Fases
<1>. QED
  BY <1>1, <1>2, <1>3, <1>4, <1>5, <1>6, <1>7, Casos DEF PassoDe

-----------------------------------------------------------------------------
(* FRAMES                                                                  *)

Resto(p) ==
  \A q \in Processos \ {p} :
    /\ fase'[q] = fase[q] /\ passo'[q] = passo[q] /\ fila'[q] = fila[q]
    /\ evento'[q] = evento[q] /\ selado'[q] = selado[q]

LEMMA SoltaQuadro ==
  ASSUME TypeOK, NEW p \in Processos, NEW f, Solta(p, f)
  PROVE  /\ Resto(p)
         /\ fase'[p] = f /\ passo'[p] = "ocioso" /\ fila'[p] = {}
         /\ evento'[p] = Nenhum /\ selado'[p] = Nenhum
BY DEF Solta, TypeOK, Resto

(* A local step changes nothing shared and nothing of the other processes. *)
LEMMA QuadroLocal ==
  ASSUME TypeOK, NEW p \in Processos, Local(p)
  PROVE  /\ banco' = banco /\ arquivo' = arquivo /\ recibos' = recibos
         /\ Linhas' = Linhas
         /\ Resto(p)
         /\ evento'[p] \in {evento[p], Nenhum}
<1>1. CASE FimDaRestauracao(p) \/ Fechar(p) \/ Queda(p)
  BY <1>1, SoltaQuadro DEF FimDaRestauracao, Fechar, Queda, Linhas
<1>2. CASE ConflitoDePosicao(p) \/ UnicidadeViolada(p) \/ DivergenciaLevanta(p)
  BY <1>2, SoltaQuadro DEF ConflitoDePosicao, UnicidadeViolada, DivergenciaLevanta, Levanta, Linhas
<1>3. CASE Abrir(p) \/ LerCabeca(p) \/ Conferir(p) \/ FaltaExportar(p)
  BY <1>3 DEF Abrir, LerCabeca, Conferir, FaltaExportar, TypeOK, Linhas, Resto
<1>4. CASE Deduplicar(p)
  BY <1>4 DEF Deduplicar, AposGravar, TypeOK, Linhas, Resto
<1>. QED
  BY <1>1, <1>2, <1>3, <1>4 DEF Local

(* Rows and lines are only added by a process, and a line that is added is *)
(* a row already committed.                                                *)
LEMMA Quadro ==
  ASSUME TypeOK, EmMaos, NEW p \in Processos, PassoDe(p)
  PROVE  /\ Resto(p)
         /\ banco \subseteq banco' /\ Linhas \subseteq Linhas'
         /\ Linhas' \subseteq Linhas \cup banco
<1>1. CASE Local(p)
  BY <1>1, QuadroLocal
<1>2. CASE Restaurar(p)
  BY <1>2 DEF Restaurar, TypeOK, Linhas, Resto
<1>3. CASE Selar(p) \/ Reconciliar(p)
  BY <1>3, Registros DEF Registrar, TypeOK, Linhas, Resto
<1>4. CASE Gravar(p)
  BY <1>4 DEF Gravar, AposGravar, TypeOK, Linhas, Resto
<1>5. CASE DivergenciaTolerada(p) \/ JaExportado(p)
  BY <1>5, SoltaQuadro DEF DivergenciaTolerada, JaExportado, Devolve, Linhas
<1>6. CASE Anexar(p)
  <2>1. selado[p] \in banco /\ selado[p] \in Eventos
    BY <1>6 DEF Anexar, EmMaos, EmMaosDe, TypeOK
  <2>2. Linhas' = Linhas \cup {selado[p]}
    BY <1>6, <2>1, LinhasAnexadas DEF Anexar, TypeOK
  <2>. QED
    BY <1>6, <2>1, <2>2, SoltaQuadro DEF Anexar, Devolve
<1>. QED
  BY <1>1, <1>2, <1>3, <1>4, <1>5, <1>6 DEF PassoDe

-----------------------------------------------------------------------------
(* WHAT EACH PROCESS HOLDS                                                 *)

LEMMA EmMaosPreservado ==
  ASSUME IInv, Next PROVE EmMaos'
<1>. USE DEF EmMaosDe, Aberta, Abrindo
<1>0. TypeOK /\ EmMaos
  BY DEF IInv
<1>1. CASE PerderBanco
  <2>1. \A q \in Processos : passo[q] = "ocioso"
    BY <1>0, <1>1 DEF PerderBanco, EmMaos
  <2>. QED
    BY <1>0, <1>1, <2>1 DEF PerderBanco, EmMaos, locais, Linhas
<1>2. ASSUME NEW p \in Processos, PassoDe(p) PROVE EmMaosDe(p)'
  <2>0. banco \subseteq banco' /\ Linhas \subseteq Linhas'
    BY <1>0, <1>2, Quadro
  <2>1. CASE \/ FimDaRestauracao(p) \/ Fechar(p) \/ Queda(p) \/ ConflitoDePosicao(p)
             \/ UnicidadeViolada(p) \/ DivergenciaLevanta(p) \/ DivergenciaTolerada(p)
             \/ JaExportado(p) \/ Anexar(p)
    <3>1. passo'[p] = "ocioso" /\ evento'[p] = Nenhum /\ fase'[p] # "abrindo"
      BY <1>0, <2>1, SoltaQuadro
         DEF FimDaRestauracao, Fechar, Queda, ConflitoDePosicao, UnicidadeViolada,
             DivergenciaLevanta, DivergenciaTolerada, JaExportado, Anexar, Levanta, Devolve
    <3>. QED
      BY <3>1
  <2>2. CASE Abrir(p)
    BY <1>0, <2>2 DEF Abrir, EmMaos, TypeOK, Linhas
  <2>3. CASE LerCabeca(p)
    BY <1>0, <2>3 DEF LerCabeca, EmMaos, TypeOK, Linhas
  <2>4. CASE Restaurar(p)
    <3>1. Nenhum \notin Linhas
      BY <1>0, LinhasTipadas, CorrenteAssumptions DEF TypeOK
    <3>. QED
      BY <1>0, <2>4, <3>1 DEF Restaurar, EmMaos, TypeOK, Linhas
  <2>5. CASE Selar(p) \/ Reconciliar(p)
    <3>1. PICK k \in Chaves, c \in Conteudos : Registrar(p, k, c)
      BY <1>0, <2>5, Registros
    <3>2. evento'[p] # Nenhum
      BY <1>0, <3>1, RegistrarTipado, CorrenteAssumptions
    <3>3. passo'[p] = "conferir" /\ fase'[p] = "aberta"
      BY <1>0, <3>1 DEF Registrar, TypeOK
    <3>. QED
      BY <3>2, <3>3
  <2>6. CASE Conferir(p)
    BY <1>0, <2>6 DEF Conferir, EmMaos, TypeOK, Linhas
  <2>7. CASE Gravar(p) \/ Deduplicar(p)
    <3>1. PICK e \in banco' : e.chave = evento[p].chave /\ AposGravar(p, e)
      BY <1>0, <2>7 DEF Gravar, Deduplicar
    <3>2. fase' = fase /\ fila' = fila /\ arquivo' = arquivo /\ passo[p] = "gravar"
      BY <2>7 DEF Gravar, Deduplicar
    <3>3. fase[p] # "fechada" /\ evento[p] # Nenhum /\ (Abrindo(p) => fila[p] \subseteq Linhas)
      BY <1>0, <3>2 DEF EmMaos
    <3>4. CASE fase[p] = "abrindo"
      <4>1. passo'[p] = "restaurar" /\ evento'[p] = Nenhum
        BY <1>0, <3>1, <3>4 DEF AposGravar, TypeOK
      <4>. QED
        BY <3>2, <3>3, <3>4, <4>1 DEF Linhas
    <3>5. CASE fase[p] # "abrindo"
      <4>1. passo'[p] = "exportar" /\ evento'[p] = evento[p] /\ selado'[p] = e
        BY <1>0, <3>1, <3>5 DEF AposGravar, TypeOK
      <4>2. fase[p] = "aberta"
        BY <1>0, <3>3, <3>5 DEF TypeOK, Fases
      <4>. QED
        BY <3>1, <3>2, <3>3, <4>1, <4>2
    <3>. QED
      BY <3>4, <3>5
  <2>8. CASE FaltaExportar(p)
    BY <1>0, <2>8 DEF FaltaExportar, Divergente, EmMaos, TypeOK, Linhas
  <2>. QED
    BY <1>2, <2>1, <2>2, <2>3, <2>4, <2>5, <2>6, <2>7, <2>8 DEF PassoDe, Local
<1>3. ASSUME NEW p \in Processos, PassoDe(p), NEW q \in Processos \ {p} PROVE EmMaosDe(q)'
  <2>1. Resto(p) /\ banco \subseteq banco' /\ Linhas \subseteq Linhas'
    BY <1>0, <1>3, Quadro
  <2>. QED
    BY <1>0, <1>3, <2>1 DEF Resto, EmMaos
<1>. QED
  BY <1>1, <1>2, <1>3, Casos DEF EmMaos

LEMMA GravaLigadoPreservado ==
  ASSUME IInv, Next PROVE GravaLigado'
<1>0. TypeOK /\ EmMaos /\ GravaLigado
  BY DEF IInv
<1>1. CASE PerderBanco
  BY <1>0, <1>1 DEF PerderBanco, EmMaos, EmMaosDe, GravaLigado, locais
<1>2. ASSUME NEW p \in Processos, PassoDe(p) PROVE GravaLigado'
  <2>1. Resto(p) /\ banco \subseteq banco'
    BY <1>0, <1>2, Quadro
  <2>2. ASSUME NEW q \in Processos \ {p}, passo'[q] = "gravar" PROVE Ligado(evento[q])'
    BY <1>0, <2>1, <2>2 DEF Resto, GravaLigado, Ligado
  <2>3. ASSUME passo'[p] = "gravar" PROVE Ligado(evento[p])'
    <3>1. Conferir(p)
      BY <1>0, <1>2, <2>3, Registros, SoltaQuadro
         DEF PassoDe, Local, Abrir, LerCabeca, FimDaRestauracao, ConflitoDePosicao, Deduplicar,
             UnicidadeViolada, DivergenciaLevanta, FaltaExportar, Fechar, Queda, Restaurar,
             Registrar, Gravar, DivergenciaTolerada, JaExportado, Anexar, Levanta, Devolve,
             AposGravar, TypeOK
    <3>2. evento[p] \in Eventos
      BY <1>0, <3>1 DEF Conferir, TypeOK, EmMaos, EmMaosDe
    <3>3. Ligado(evento[p])
      BY <1>0, <3>1, <3>2, PosicaoLiga DEF Conferir, TypeOK
    <3>. QED
      BY <3>1, <3>3 DEF Conferir, Ligado
  <2>. QED
    BY <2>2, <2>3 DEF GravaLigado
<1>. QED
  BY <1>1, <1>2, Casos

-----------------------------------------------------------------------------
(* THE LEDGER                                                              *)

(* Only an insert of a linked event that collides with no row, or the loss *)
(* of the whole database, changes the rows.                                *)
LEMMA BancoMuda ==
  ASSUME TypeOK, NEW p \in Processos, PassoDe(p)
  PROVE  banco' = banco \/ Gravar(p)
BY QuadroLocal, Registros
   DEF PassoDe, Restaurar, Registrar, DivergenciaTolerada, JaExportado, Anexar

LEMMA CorrenteIntegraPreservada ==
  ASSUME IInv, Next PROVE CorrenteIntegra' /\ SemLacuna'
<1>0. TypeOK /\ EmMaos /\ GravaLigado /\ CorrenteIntegra /\ SemLacuna
  BY DEF IInv
<1>1. CASE PerderBanco
  BY <1>1 DEF PerderBanco, CorrenteIntegra, SemLacuna
<1>2. CASE banco' = banco
  BY <1>0, <1>2 DEF CorrenteIntegra, SemLacuna, Ligado
<1>3. ASSUME NEW p \in Processos, Gravar(p) PROVE CorrenteIntegra' /\ SemLacuna'
  <2>1. /\ banco' = banco \cup {evento[p]}
        /\ ~Colide(evento[p]) /\ Ligado(evento[p]) /\ evento[p] \in Eventos
    BY <1>0, <1>3 DEF Gravar, GravaLigado, TypeOK, EmMaos, EmMaosDe
  <2>2. \A e \in banco' : Ligado(e)'
    BY <1>0, <2>1 DEF CorrenteIntegra, Ligado
  <2>3. \A e, f \in banco' : e # f => e.seq # f.seq /\ e.chave # f.chave /\ e.id # f.id
    BY <1>0, <2>1 DEF CorrenteIntegra, Colide
  <2>4. \A n \in 1 .. evento[p].seq : \E f \in banco' : f.seq = n
    <3>1. CASE evento[p].seq = 1
      BY <2>1, <3>1
    <3>2. CASE \E f \in banco : f.seq + 1 = evento[p].seq
      <4>1. PICK f \in banco : f.seq + 1 = evento[p].seq
        BY <3>2
      <4>2. f.seq \in Nat /\ \A n \in 1 .. f.seq : \E g \in banco : g.seq = n
        BY <1>0, <4>1 DEF SemLacuna, TypeOK, Eventos
      <4>3. \A n \in 1 .. evento[p].seq : n = evento[p].seq \/ n \in 1 .. f.seq
        BY <4>1, <4>2
      <4>. QED
        BY <2>1, <4>2, <4>3
    <3>. QED
      BY <2>1, <3>1, <3>2 DEF Ligado
  <2>5. SemLacuna'
    BY <1>0, <2>1, <2>4 DEF SemLacuna
  <2>. QED
    BY <2>2, <2>3, <2>5 DEF CorrenteIntegra
<1>. QED
  BY <1>0, <1>1, <1>2, <1>3, BancoMuda, Casos
-----------------------------------------------------------------------------
(* IDENTITIES                                                              *)

LEMMA InitIInv == Init => IInv
BY CorrenteAssumptions
   DEF Init, IInv, TypeOK, Fases, Passos, Recibos, EmMaos, EmMaosDe, Aberta, Abrindo,
       IdentidadeUnica, Conhecidos, Linhas, GravaLigado, CorrenteIntegra, SemLacuna,
       ArquivoCoerente, RestauraTudo, RestauraDe, ReconciliacaoFundada, Fundada,
       ReciboNomeiaLinha, ReciboProvadoNoArquivo

(* Only record puts in hand an event that nobody held.                     *)
LEMMA EventoMuda ==
  ASSUME TypeOK, EmMaos, NEW p \in Processos, PassoDe(p)
  PROVE  Selar(p) \/ Reconciliar(p) \/ evento'[p] \in Linhas \cup {evento[p], Nenhum}
<1>1. CASE Local(p)
  BY <1>1, QuadroLocal
<1>2. CASE Restaurar(p)
  <2>1. fila[p] \subseteq Linhas
    BY <1>2 DEF Restaurar, EmMaos, EmMaosDe, Abrindo
  <2>. QED
    BY <1>2, <2>1 DEF Restaurar, TypeOK
<1>3. CASE Gravar(p)
  BY <1>3 DEF Gravar, AposGravar, TypeOK
<1>4. CASE DivergenciaTolerada(p) \/ JaExportado(p) \/ Anexar(p)
  BY <1>4, SoltaQuadro DEF DivergenciaTolerada, JaExportado, Anexar, Devolve
<1>. QED
  BY <1>1, <1>2, <1>3, <1>4 DEF PassoDe

LEMMA ConhecidosMudam ==
  ASSUME TypeOK, EmMaos, NEW p \in Processos, PassoDe(p)
  PROVE  /\ Conhecidos' \subseteq Conhecidos \cup {evento'[p]}
         /\ Selar(p) \/ Reconciliar(p) \/ Conhecidos' \subseteq Conhecidos
<1>1. Resto(p) /\ Linhas' \subseteq Linhas \cup banco
  BY Quadro
<1>2. banco' \subseteq Conhecidos
  <2>1. CASE banco' = banco
    BY <2>1 DEF Conhecidos
  <2>2. CASE Gravar(p)
    <3>1. evento[p] # Nenhum /\ banco' = banco \cup {evento[p]}
      BY <2>2 DEF Gravar, EmMaos, EmMaosDe
    <3>. QED
      BY <3>1 DEF Conhecidos
  <2>. QED
    BY <2>1, <2>2, BancoMuda
<1>3. \A q \in Processos \ {p} : evento'[q] = evento[q]
  BY <1>1 DEF Resto
<1>4. \A x \in Conhecidos' : x \in Conhecidos \/ (x = evento'[p] /\ evento'[p] # Nenhum)
  BY <1>1, <1>2, <1>3 DEF Conhecidos
<1>5. Selar(p) \/ Reconciliar(p) \/ evento'[p] \in Conhecidos \cup {Nenhum}
  BY EventoMuda DEF Conhecidos
<1>. QED
  BY <1>4, <1>5

LEMMA IdentidadeUnicaPreservada ==
  ASSUME IInv, Next PROVE IdentidadeUnica'
<1>0. TypeOK /\ EmMaos /\ IdentidadeUnica
  BY DEF IInv
<1>1. CASE PerderBanco
  BY <1>0, <1>1 DEF PerderBanco, locais, IdentidadeUnica, Conhecidos, Linhas
<1>2. ASSUME NEW p \in Processos, PassoDe(p) PROVE IdentidadeUnica'
  <2>1. CASE Conhecidos' \subseteq Conhecidos
    BY <1>0, <2>1 DEF IdentidadeUnica
  <2>2. CASE Selar(p) \/ Reconciliar(p)
    <3>1. PICK k \in Chaves, c \in Conteudos : Registrar(p, k, c)
      BY <1>0, <2>2, Registros
    <3>2. \A x \in Conhecidos : x.id # evento'[p].id
      BY <1>0, <3>1, RegistrarTipado DEF IdsEmUso
    <3>3. Conhecidos' \subseteq Conhecidos \cup {evento'[p]}
      BY <1>0, <1>2, ConhecidosMudam
    <3>. QED
      BY <1>0, <3>2, <3>3 DEF IdentidadeUnica
  <2>. QED
    BY <1>0, <1>2, <2>1, <2>2, ConhecidosMudam
<1>. QED
  BY <1>1, <1>2, Casos

LEMMA FundadaPreservada ==
  ASSUME IInv, Next PROVE ReconciliacaoFundada'
<1>0. TypeOK /\ EmMaos /\ ReconciliacaoFundada
  BY DEF IInv
<1>1. CASE PerderBanco
  BY <1>0, <1>1 DEF PerderBanco, locais, ReconciliacaoFundada, Fundada, Conhecidos, Linhas
<1>2. ASSUME NEW p \in Processos, PassoDe(p) PROVE ReconciliacaoFundada'
  <2>0. Linhas \subseteq Linhas'
    BY <1>0, <1>2, Quadro
  <2>1. \A e \in Conhecidos : Fundada(e)'
    BY <1>0, <2>0 DEF ReconciliacaoFundada, Fundada
  <2>2. CASE Conhecidos' \subseteq Conhecidos
    BY <2>1, <2>2 DEF ReconciliacaoFundada, Fundada
  <2>3. CASE Selar(p) \/ Reconciliar(p)
    <3>1. PICK k \in Chaves, c \in Conteudos :
            /\ Registrar(p, k, c)
            /\ k \in Correlacoes \/ \E l \in Linhas, d \in Conteudos :
                                      l.chave \in Correlacoes /\ k = <<l.chave, d>>
      BY <1>0, <2>3, Registros
    <3>2. evento'[p].chave = k
      BY <1>0, <3>1, RegistrarTipado
    <3>3. ASSUME NEW j \in Correlacoes, NEW d \in Conteudos, k = <<j, d>>
          PROVE  \E l \in Linhas' : l.chave = j
      <4>1. k \notin Correlacoes
        BY <3>3, CorrenteAssumptions DEF Chaves
      <4>. QED
        BY <2>0, <3>1, <3>3, <4>1
    <3>4. Fundada(evento[p])'
      BY <3>2, <3>3 DEF Fundada
    <3>5. Conhecidos' \subseteq Conhecidos \cup {evento'[p]}
      BY <1>0, <1>2, ConhecidosMudam
    <3>. QED
      BY <2>1, <3>4, <3>5 DEF ReconciliacaoFundada, Fundada
  <2>. QED
    BY <1>0, <1>2, <2>2, <2>3, ConhecidosMudam
<1>. QED
  BY <1>1, <1>2, Casos

-----------------------------------------------------------------------------
(* THE FILE                                                                *)

(* Only the export adds a line.                                            *)
LEMMA LinhasMudam ==
  ASSUME TypeOK, EmMaos, NEW p \in Processos, PassoDe(p)
  PROVE  Linhas' = Linhas \/ (Anexar(p) /\ Linhas' = Linhas \cup {selado[p]} /\ selado[p] \in banco)
<1>1. CASE Anexar(p)
  <2>1. selado[p] \in banco /\ selado[p] \in Eventos
    BY <1>1 DEF Anexar, EmMaos, EmMaosDe, TypeOK
  <2>. QED
    BY <1>1, <2>1, LinhasAnexadas DEF Anexar, TypeOK
<1>2. CASE Selar(p) \/ Reconciliar(p)
  BY <1>2, Registros DEF Registrar, Linhas
<1>. QED
  BY <1>1, <1>2, QuadroLocal
     DEF PassoDe, Restaurar, Gravar, DivergenciaTolerada, JaExportado, Linhas

LEMMA ArquivoCoerentePreservado ==
  ASSUME IInv, Next PROVE ArquivoCoerente'
<1>0. TypeOK /\ EmMaos /\ CorrenteIntegra /\ ArquivoCoerente /\ RestauraTudo
  BY DEF IInv
<1>1. CASE PerderBanco
  BY <1>0, <1>1 DEF PerderBanco, ArquivoCoerente, Linhas
<1>2. ASSUME NEW p \in Processos, PassoDe(p) PROVE ArquivoCoerente'
  <2>1. CASE banco' = banco /\ Linhas' = Linhas
    BY <1>0, <2>1 DEF ArquivoCoerente
  <2>2. CASE Gravar(p)
    <3>1. /\ banco' = banco \cup {evento[p]} /\ ~Colide(evento[p]) /\ Linhas' = Linhas
          /\ fase[p] # "fechada"
      BY <1>0, <2>2 DEF Gravar, EmMaos, EmMaosDe, Linhas
    <3>2. CASE Aberta(p)
      <4>1. \A x \in Linhas : x.seq # evento[p].seq /\ x.chave # evento[p].chave
        BY <1>0, <3>1, <3>2 DEF RestauraTudo, RestauraDe, Colide
      <4>. QED
        BY <1>0, <3>1, <4>1 DEF ArquivoCoerente
    <3>3. CASE Abrindo(p)
      <4>1. evento[p] \in Linhas
        BY <1>0, <2>2, <3>3 DEF Gravar, EmMaos, EmMaosDe
      <4>. QED
        BY <1>0, <3>1, <4>1 DEF ArquivoCoerente
    <3>. QED
      BY <1>0, <3>1, <3>2, <3>3 DEF TypeOK, Fases, Aberta, Abrindo
  <2>3. CASE Anexar(p) /\ Linhas' = Linhas \cup {selado[p]} /\ selado[p] \in banco
    <3>1. banco' = banco
      BY <2>3 DEF Anexar
    <3>2. \A y \in banco : y.seq = selado[p].seq \/ y.chave = selado[p].chave => y = selado[p]
      BY <1>0, <2>3 DEF CorrenteIntegra
    <3>3. \A y \in Linhas : y.seq = selado[p].seq \/ y.chave = selado[p].chave => y = selado[p]
      BY <1>0, <2>3 DEF ArquivoCoerente
    <3>. QED
      BY <1>0, <2>3, <3>1, <3>2, <3>3 DEF ArquivoCoerente
  <2>. QED
    BY <1>0, <1>2, <2>1, <2>2, <2>3, BancoMuda, LinhasMudam DEF Anexar
<1>. QED
  BY <1>1, <1>2, Casos

LEMMA RestauraTudoPreservado ==
  ASSUME IInv, Next PROVE RestauraTudo'
<1>. USE DEF RestauraDe, Aberta, Abrindo
<1>0. TypeOK /\ EmMaos /\ SemLacuna /\ ArquivoCoerente /\ RestauraTudo
  BY DEF IInv
<1>1. CASE PerderBanco
  BY <1>1 DEF PerderBanco, RestauraTudo, locais
<1>2. ASSUME NEW p \in Processos, PassoDe(p), NEW q \in Processos \ {p} PROVE RestauraDe(q)'
  <2>1. Resto(p) /\ banco \subseteq banco' /\ Linhas' \subseteq Linhas \cup banco
    BY <1>0, <1>2, Quadro
  <2>. QED
    BY <1>0, <1>2, <2>1 DEF Resto, RestauraTudo
<1>3. ASSUME NEW p \in Processos, PassoDe(p) PROVE RestauraDe(p)'
  <2>0. RestauraDe(p) /\ EmMaosDe(p) /\ banco \subseteq banco' /\ Linhas' \subseteq Linhas \cup banco
    BY <1>0, <1>3, Quadro DEF RestauraTudo, EmMaos
  <2>1. CASE Abrir(p)
    BY <1>0, <2>1 DEF Abrir, TypeOK, Linhas
  <2>2. CASE LerCabeca(p)
    <3>1. PICK pos \in Posicoes(banco) :
            fila' = [fila EXCEPT ![p] = {e \in fila[p] : e.seq >= pos.seq}]
      BY <2>2 DEF LerCabeca
    <3>2. ASSUME NEW e \in Linhas, ~(e.seq >= pos.seq) PROVE e \in banco
      <4>1. e.seq \in Nat \ {0}
        BY <1>0, LinhasTipadas DEF TypeOK, Eventos
      <4>2. PICK t \in banco : pos.seq = t.seq + 1 /\ t.seq \in Nat
        BY <1>0, <3>1, <3>2, <4>1 DEF Posicoes, Topo, TypeOK, Eventos
      <4>3. e.seq \in 1 .. t.seq
        BY <3>2, <4>1, <4>2
      <4>4. PICK f \in banco : f.seq = e.seq
        BY <1>0, <4>2, <4>3 DEF SemLacuna
      <4>. QED
        BY <1>0, <4>4 DEF ArquivoCoerente
    <3>3. fila'[p] = {e \in fila[p] : e.seq >= pos.seq} /\ fase' = fase /\ evento' = evento
      BY <1>0, <2>2, <3>1 DEF LerCabeca, TypeOK
    <3>4. banco' = banco /\ Linhas' = Linhas /\ fase[p] = "abrindo"
      BY <2>0, <2>2 DEF LerCabeca, Linhas, EmMaosDe
    <3>. QED
      BY <2>0, <3>2, <3>3, <3>4
  <2>3. CASE Restaurar(p)
    <3>1. Linhas' = Linhas /\ banco' = banco /\ fase' = fase /\ Nenhum \notin Linhas
      BY <1>0, <2>3, LinhasTipadas, CorrenteAssumptions DEF Restaurar, Linhas, TypeOK
    <3>2. evento[p] = Nenhum /\ fase[p] = "abrindo"
      BY <2>0, <2>3 DEF Restaurar, EmMaosDe
    <3>3. PICK e \in fila[p] : evento'[p] = e /\ fila'[p] = fila[p] \ {e}
      BY <1>0, <2>3 DEF Restaurar, TypeOK
    <3>. QED
      BY <2>0, <3>1, <3>2, <3>3
  <2>4. CASE FimDaRestauracao(p)
    <3>1. Linhas' = Linhas /\ banco' = banco /\ Nenhum \notin Linhas
      BY <1>0, <2>4, LinhasTipadas, CorrenteAssumptions DEF FimDaRestauracao, Linhas, TypeOK
    <3>2. evento[p] = Nenhum /\ fase[p] = "abrindo" /\ fila[p] = {}
      BY <2>0, <2>4 DEF FimDaRestauracao, EmMaosDe
    <3>. QED
      BY <1>0, <2>0, <2>4, <3>1, <3>2, SoltaQuadro DEF FimDaRestauracao
  <2>5. CASE Gravar(p) \/ Deduplicar(p)
    <3>1. CASE Abrindo(p)
      <4>1. evento[p] \in banco'
        <5>1. CASE Gravar(p)
          BY <5>1 DEF Gravar
        <5>2. CASE Deduplicar(p)
          BY <1>0, <2>0, <3>1, <5>2 DEF Deduplicar, EmMaosDe, ArquivoCoerente
        <5>. QED
          BY <2>5, <5>1, <5>2
      <4>2. fase' = fase /\ fila' = fila /\ Linhas' = Linhas
        BY <2>5 DEF Gravar, Deduplicar, Linhas
      <4>. QED
        BY <2>0, <3>1, <4>1, <4>2
    <3>2. CASE ~Abrindo(p)
      BY <2>0, <2>5, <3>2 DEF Gravar, Deduplicar
    <3>. QED
      BY <3>1, <3>2
  <2>6. CASE Conferir(p) \/ FaltaExportar(p)
    BY <2>0, <2>6 DEF Conferir, FaltaExportar
  <2>7. CASE Selar(p) \/ Reconciliar(p)
    <3>1. fase[p] = "aberta" /\ fase' = fase
      BY <1>0, <2>7, Registros DEF Registrar
    <3>. QED
      BY <2>0, <3>1
  <2>8. CASE \/ ConflitoDePosicao(p) \/ UnicidadeViolada(p) \/ DivergenciaLevanta(p)
             \/ Fechar(p) \/ Queda(p)
    <3>1. fase'[p] # "abrindo" /\ (fase'[p] = "aberta" => fase[p] = "aberta")
      BY <1>0, <2>8, SoltaQuadro
         DEF ConflitoDePosicao, UnicidadeViolada, DivergenciaLevanta, Levanta, Fechar, Queda
    <3>. QED
      BY <2>0, <3>1
  <2>9. CASE DivergenciaTolerada(p) \/ JaExportado(p) \/ Anexar(p)
    <3>1. fase'[p] = "aberta"
      BY <1>0, <2>9, SoltaQuadro DEF DivergenciaTolerada, JaExportado, Anexar, Devolve
    <3>2. fase[p] = "aberta"
      BY <2>0, <2>9 DEF DivergenciaTolerada, JaExportado, Anexar, EmMaosDe
    <3>. QED
      BY <2>0, <3>1, <3>2
  <2>. QED
    BY <1>3, <2>1, <2>2, <2>3, <2>4, <2>5, <2>6, <2>7, <2>8, <2>9 DEF PassoDe, Local
<1>. QED
  BY <1>1, <1>2, <1>3, Casos DEF RestauraTudo

-----------------------------------------------------------------------------
(* RECEIPTS                                                                *)

(* A reconciliation in the file for a row's key and the content offered    *)
(* shows that the row itself is in the file.                               *)
LEMMA ReconciliadaMostraALinha ==
  ASSUME IInv, NEW r \in banco, NEW c \in Conteudos, Reconciliada(r.chave, c)
  PROVE  r \in Linhas
<1>1. PICK l \in Linhas : l.chave = <<r.chave, c>>
  BY DEF Reconciliada
<1>2. l.chave \in Chaves /\ r.chave \in Chaves
  BY LinhasTipadas DEF IInv, TypeOK, Eventos
<1>3. l.chave \notin Correlacoes
  BY <1>1, <1>2, CorrenteAssumptions
<1>4. r.chave \in Correlacoes
  BY <1>1, <1>2, <1>3 DEF Chaves, Reconciliacoes
<1>5. Fundada(l)
  BY DEF IInv, ReconciliacaoFundada, Conhecidos
<1>6. PICK m \in Linhas : m.chave = r.chave
  BY <1>1, <1>4, <1>5 DEF Fundada
<1>. QED
  BY <1>6 DEF IInv, ArquivoCoerente

(* Each way a receipt is returned, the row it names is a line by then.     *)
LEMMA RecibosPreservados ==
  ASSUME IInv, Next PROVE ReciboNomeiaLinha' /\ ReciboProvadoNoArquivo'
<1>. DEFINE Recibo(p) == [chave |-> evento[p].chave, conteudo |-> evento[p].conteudo,
                          id |-> selado[p].id]
<1>0. TypeOK /\ EmMaos /\ IdentidadeUnica /\ ReciboNomeiaLinha /\ ReciboProvadoNoArquivo
  BY DEF IInv
<1>1. CASE PerderBanco
  <2>1. Linhas' = Linhas /\ recibos' = recibos
    BY <1>1 DEF PerderBanco, Linhas
  <2>. QED
    BY <1>0, <2>1 DEF ReciboNomeiaLinha, ReciboProvadoNoArquivo, Reconciliada
<1>2. ASSUME NEW p \in Processos, PassoDe(p)
      PROVE  ReciboNomeiaLinha' /\ ReciboProvadoNoArquivo'
  <2>0. Linhas \subseteq Linhas'
    BY <1>0, <1>2, Quadro
  <2>1. CASE recibos' = recibos
    BY <1>0, <2>0, <2>1 DEF ReciboNomeiaLinha, ReciboProvadoNoArquivo, Reconciliada
  <2>2. CASE DivergenciaTolerada(p) \/ JaExportado(p) \/ Anexar(p)
    <3>1. /\ evento[p] \in Eventos /\ selado[p] \in banco /\ selado[p].chave = evento[p].chave
          /\ recibos' = recibos \cup {Recibo(p)}
      BY <1>0, <2>2
         DEF DivergenciaTolerada, JaExportado, Anexar, Devolve, EmMaos, EmMaosDe, TypeOK
    <3>2. selado[p] \in Linhas'
      <4>1. CASE DivergenciaTolerada(p)
        BY <2>0, <3>1, <4>1, ReconciliadaMostraALinha DEF DivergenciaTolerada, Eventos
      <4>2. CASE JaExportado(p)
        BY <1>0, <2>0, <3>1, <4>2 DEF JaExportado, IdentidadeUnica, Conhecidos
      <4>3. CASE Anexar(p)
        <5>1. selado[p] \in Eventos
          BY <1>0, <3>1 DEF TypeOK
        <5>. QED
          BY <1>0, <4>3, <5>1, LinhasAnexadas DEF Anexar, TypeOK
      <4>. QED
        BY <2>2, <4>1, <4>2, <4>3
    <3>3. \/ selado[p].conteudo = evento[p].conteudo
          \/ \E l \in Linhas' : l.chave = <<evento[p].chave, evento[p].conteudo>>
      <4>1. CASE DivergenciaTolerada(p)
        BY <2>0, <4>1 DEF DivergenciaTolerada, Reconciliada
      <4>2. CASE JaExportado(p)
        BY <4>2 DEF JaExportado, Divergente
      <4>3. CASE Anexar(p)
        BY <1>0, <4>3 DEF Anexar, EmMaos, EmMaosDe
      <4>. QED
        BY <2>2, <4>1, <4>2, <4>3
    <3>4. ReciboNomeiaLinha'
      BY <1>0, <2>0, <3>1, <3>2 DEF ReciboNomeiaLinha
    <3>5. ReciboProvadoNoArquivo'
      BY <1>0, <2>0, <3>1, <3>2, <3>3 DEF ReciboProvadoNoArquivo, Reconciliada
    <3>. QED
      BY <3>4, <3>5
  <2>. QED
    BY <1>2, <2>1, <2>2, QuadroLocal, Registros, <1>0 DEF PassoDe, Restaurar, Registrar, Gravar
<1>. QED
  BY <1>1, <1>2, Casos

-----------------------------------------------------------------------------
(* THEOREMS                                                                *)

LEMMA IInvPreservado == IInv /\ [Next]_vars => IInv'
<1>1. ASSUME IInv, Next PROVE IInv'
  <2>1. TypeOK'
    BY <1>1, TypeOKPreservado DEF IInv
  <2>. QED
    BY <1>1, <2>1, EmMaosPreservado, IdentidadeUnicaPreservada, GravaLigadoPreservado,
       CorrenteIntegraPreservada, ArquivoCoerentePreservado, RestauraTudoPreservado,
       FundadaPreservada, RecibosPreservados
       DEF IInv
<1>2. ASSUME IInv, UNCHANGED vars PROVE IInv'
  <2>. USE <1>2 DEF vars, locais
  <2>1. Linhas' = Linhas
    BY DEF Linhas
  <2>2. Conhecidos' = Conhecidos
    BY <2>1 DEF Conhecidos
  <2>3. TypeOK' /\ EmMaos'
    BY <2>1 DEF IInv, TypeOK, EmMaos, EmMaosDe, Aberta, Abrindo
  <2>4. GravaLigado' /\ CorrenteIntegra' /\ SemLacuna'
    BY DEF IInv, GravaLigado, CorrenteIntegra, Ligado, SemLacuna
  <2>5. IdentidadeUnica' /\ ReconciliacaoFundada'
    BY <2>1, <2>2 DEF IInv, IdentidadeUnica, ReconciliacaoFundada, Fundada
  <2>6. ArquivoCoerente' /\ RestauraTudo'
    BY <2>1 DEF IInv, ArquivoCoerente, RestauraTudo, RestauraDe, Aberta, Abrindo
  <2>7. ReciboNomeiaLinha' /\ ReciboProvadoNoArquivo'
    BY <2>1 DEF IInv, ReciboNomeiaLinha, ReciboProvadoNoArquivo, Reconciliada
  <2>. QED
    BY <2>3, <2>4, <2>5, <2>6, <2>7 DEF IInv
<1>. QED
  BY <1>1, <1>2

(* The inductive invariant holds of every behaviour of the local chain     *)
(* (audit/sdk.py with markets/auditoria.py), for any number of processes,  *)
(* crashes and lost databases.                                             *)
THEOREM Invariante == Spec => []IInv
BY InitIInv, IInvPreservado, PTL DEF Spec

(* The rows, the lines and the events in the hands of the processes keep   *)
(* the shape of a sealed event (sdk.AuditEvent, schema.seal_event).        *)
THEOREM Tipos == Spec => []TypeOK
<1>1. IInv => TypeOK
  BY DEF IInv
<1>. QED
  BY Invariante, <1>1, PTL

(* The rows of audit_events are one gapless chain with unique sequences,   *)
(* keys and ids, although append checks the position in one statement and  *)
(* uses it in the next (SQLiteAuditStore.append).                          *)
THEOREM CorrenteSempreIntegra == Spec => []CorrenteIntegra
<1>1. IInv => CorrenteIntegra
  BY DEF IInv
<1>. QED
  BY Invariante, <1>1, PTL

(* The versioned file never contradicts the ledger, also after the         *)
(* database was rebuilt from it (_sincronizar_do_export).                  *)
THEOREM NuncaBifurca == Spec => []SemBifurcacao
<1>1. IInv => SemBifurcacao
  BY DEF IInv, ArquivoCoerente, SemBifurcacao
<1>. QED
  BY Invariante, <1>1, PTL

(* What selar_registro returned is shown by the versioned file alone, or a *)
(* reconciliation in that file covers exactly the content offered.         *)
THEOREM ReciboSempreProvado == Spec => []ReciboProvadoNoArquivo
<1>1. IInv => ReciboProvadoNoArquivo
  BY DEF IInv
<1>. QED
  BY Invariante, <1>1, PTL

(* Two receipts of one key name one event, across crashes and databases    *)
(* rebuilt from the file: idempotency outlives the SQLite store.           *)
THEOREM ReciboSempreUnico == Spec => []ReciboUnico
<1>1. IInv => ReciboUnico
  BY DEF IInv, ArquivoCoerente, ReciboNomeiaLinha, ReciboUnico
<1>. QED
  BY Invariante, <1>1, PTL

(* The file only grows at its end, and the ledger loses rows only when the *)
(* whole database is lost: a correction is a new event.                    *)
THEOREM SempreSoApenda == Spec => SoApenda
<1>. DEFINE Passo == /\ Len(arquivo') >= Len(arquivo)
                     /\ SubSeq(arquivo', 1, Len(arquivo)) = arquivo
                     /\ banco \subseteq banco' \/ PerderBanco
<1>0. ASSUME TypeOK, arquivo' = arquivo
      PROVE  Len(arquivo') >= Len(arquivo) /\ SubSeq(arquivo', 1, Len(arquivo)) = arquivo
  BY <1>0 DEF TypeOK
<1>1. ASSUME IInv, PerderBanco PROVE Passo
  BY <1>0, <1>1 DEF PerderBanco, IInv
<1>2. ASSUME IInv, NEW p \in Processos, PassoDe(p) PROVE Passo
  <2>1. TypeOK /\ EmMaos /\ banco \subseteq banco'
    BY <1>2, Quadro DEF IInv
  <2>2. CASE arquivo' = arquivo
    BY <1>0, <2>1, <2>2
  <2>3. CASE Anexar(p)
    <3>1. selado[p] \in Eventos /\ arquivo \in Seq(Eventos)
      BY <2>1, <2>3 DEF Anexar, EmMaos, EmMaosDe, TypeOK
    <3>2. Len(arquivo') >= Len(arquivo) /\ SubSeq(arquivo', 1, Len(arquivo)) = arquivo
      BY <2>3, <3>1 DEF Anexar
    <3>. QED
      BY <2>1, <3>2
  <2>. QED
    BY <1>2, <2>1, <2>2, <2>3, QuadroLocal, Registros
       DEF PassoDe, Restaurar, Registrar, Gravar, DivergenciaTolerada, JaExportado
<1>3. IInv /\ [Next]_vars => [Passo]_<<arquivo, banco>>
  BY <1>1, <1>2, Casos DEF vars
<1>4. Spec => [][Passo]_<<arquivo, banco>>
  BY Invariante, <1>3, PTL DEF Spec
<1>. QED
  BY <1>4 DEF SoApenda
-----------------------------------------------------------------------------
(* IMPLEMENTATION OF DiarioSelado                                          *)

(* The entry of the journal that an event stands for.                      *)
Entrada(e) == [pos |-> e.seq, chave |-> e.chave, conteudo |-> e.conteudo, id |-> e.id]

LEMMA DiarioDeEntradas == Diario = {Entrada(e) : e \in banco \cup Linhas}
BY DEF Diario, Entrada

LEMMA DiarioSegue ==
  ASSUME banco' \cup Linhas' = banco \cup Linhas PROVE Diario' = Diario
BY DEF Diario

(* What may be inserted comes after everything the ledger has.             *)
LEMMA InsereNoTopo ==
  ASSUME IInv, NEW e \in Eventos, Ligado(e), ~Colide(e)
  PROVE  /\ \A f \in banco : f.seq < e.seq /\ f.chave # e.chave /\ f.id # e.id
         /\ e.seq = 1 \/ \E f \in banco : f.seq + 1 = e.seq
<1>1. ASSUME NEW f \in banco PROVE f.seq < e.seq
  <2>1. f.seq \in Nat /\ e.seq \in Nat /\ e.seq >= 1
    BY DEF IInv, TypeOK, Eventos
  <2>2. SUFFICES ASSUME ~(f.seq < e.seq) PROVE FALSE
    OBVIOUS
  <2>3. e.seq \in 1 .. f.seq
    BY <2>1, <2>2
  <2>4. \E g \in banco : g.seq = e.seq
    BY <2>3 DEF IInv, SemLacuna
  <2>. QED
    BY <2>4 DEF Colide
<1>. QED
  BY <1>1 DEF Colide, Ligado

(* The insert of an open process enters a new key after all the others.    *)
LEMMA GravarSela ==
  ASSUME IInv, NEW p \in Processos, Gravar(p), Aberta(p)
  PROVE  D!Selar
<1>. DEFINE e == evento[p]
<1>1. e \in Eventos /\ Ligado(e) /\ ~Colide(e)
  BY DEF IInv, TypeOK, EmMaos, EmMaosDe, GravaLigado, Gravar
<1>2. banco \cup Linhas = banco /\ banco' \cup Linhas' = banco \cup {e} /\ recibos' = recibos
  BY DEF IInv, RestauraTudo, RestauraDe, Gravar, Linhas
<1>. HIDE DEF e
<1>3. Diario = {Entrada(f) : f \in banco}
  BY <1>2, DiarioDeEntradas
<1>4. Diario' = Diario \cup {Entrada(e)}
  BY <1>2, <1>3 DEF Diario, Entrada
<1>5. /\ e.seq \in {1} \cup {d.pos + 1 : d \in Diario}
      /\ \A d \in Diario : d.id # e.id /\ d.pos < e.seq /\ d.chave # e.chave
  <2>1. /\ \A f \in banco : f.seq < e.seq /\ f.chave # e.chave /\ f.id # e.id
        /\ e.seq = 1 \/ \E f \in banco : f.seq + 1 = e.seq
    BY <1>1, InsereNoTopo
  <2>2. \A f \in banco : Entrada(f).pos = f.seq /\ Entrada(f).id = f.id /\ Entrada(f).chave = f.chave
    BY DEF Entrada
  <2>3. \A f \in banco : f.seq + 1 \in {d.pos + 1 : d \in Diario}
    BY <1>3, <2>2
  <2>4. \A d \in Diario : d.id # e.id /\ d.pos < e.seq /\ d.chave # e.chave
    BY <1>3, <2>1, <2>2
  <2>. QED
    BY <2>1, <2>3, <2>4
<1>6. e.chave \in D!Chaves /\ e.conteudo \in Conteudos /\ e.id \in Ids
  BY <1>1 DEF Eventos, Chaves, Reconciliacoes, D!Chaves
<1>7. ~D!TemEntrada(Diario, e.chave)
  BY <1>5 DEF D!TemEntrada
<1>8. \E k \in D!Chaves, c \in Conteudos, i \in Ids, n \in {1} \cup {d.pos + 1 : d \in Diario} :
        /\ ~D!TemEntrada(Diario, k)
        /\ \A d \in Diario : d.id # i /\ d.pos < n
        /\ Diario' = Diario \cup {[pos |-> n, chave |-> k, conteudo |-> c, id |-> i]}
        /\ UNCHANGED recibos
  BY <1>2, <1>4, <1>5, <1>6, <1>7 DEF Entrada
<1>. QED
  BY <1>8 DEF D!Selar

(* A receipt names the row of its key, and the content offered is that     *)
(* row's or the one a reconciliation names.                                *)
LEMMA DevolverRecebe ==
  ASSUME IInv, NEW p \in Processos, DivergenciaTolerada(p) \/ JaExportado(p) \/ Anexar(p)
  PROVE  D!Receber
<1>. DEFINE e == evento[p]
            s == selado[p]
            r == [chave |-> e.chave, conteudo |-> e.conteudo, id |-> s.id]
<1>0. TypeOK /\ EmMaosDe(p)
  BY DEF IInv, EmMaos
<1>1. e \in Eventos /\ s \in banco /\ s \in Eventos /\ s.chave = e.chave
  BY <1>0 DEF DivergenciaTolerada, JaExportado, Anexar, EmMaosDe, TypeOK
<1>2. recibos' = recibos \cup {r}
  BY DEF DivergenciaTolerada, JaExportado, Anexar, Devolve
<1>3. banco' \cup Linhas' = banco \cup Linhas
  <2>1. CASE Anexar(p)
    BY <1>0, <1>1, <2>1, LinhasAnexadas DEF Anexar, TypeOK
  <2>2. CASE DivergenciaTolerada(p) \/ JaExportado(p)
    BY <2>2 DEF DivergenciaTolerada, JaExportado, Linhas
  <2>. QED
    BY <2>1, <2>2
<1>4. s.conteudo = e.conteudo \/ \E l \in Linhas : l.chave = <<e.chave, e.conteudo>>
  BY <1>0 DEF DivergenciaTolerada, JaExportado, Anexar, Divergente, Reconciliada, EmMaosDe
<1>5. Diario' = Diario
  BY <1>3, DiarioSegue
<1>6. D!Prova(Diario, r)
  <2>1. Entrada(s) \in Diario /\ \A l \in Linhas : Entrada(l) \in Diario
    BY <1>1, DiarioDeEntradas
  <2>2. Entrada(s).chave = r.chave /\ Entrada(s).id = r.id
    BY <1>1 DEF Entrada
  <2>3. Entrada(s).conteudo = r.conteudo \/ D!TemEntrada(Diario, <<r.chave, r.conteudo>>)
    BY <1>4, <2>1 DEF Entrada, D!TemEntrada
  <2>. QED
    BY <2>1, <2>2, <2>3 DEF D!Prova
<1>7. e.chave \in D!Chaves /\ e.conteudo \in Conteudos /\ s.id \in Ids
  BY <1>1 DEF Eventos, Chaves, Reconciliacoes, D!Chaves
<1>. QED
  BY <1>2, <1>5, <1>6, <1>7 DEF D!Receber

(* Losing the database forgets only entries that no receipt relies on.     *)
LEMMA PerderEsquece ==
  ASSUME IInv, PerderBanco PROVE D!Esquecer
<1>1. banco' \cup Linhas' = Linhas /\ recibos' = recibos
  BY DEF PerderBanco, Linhas
<1>2. Diario' = {Entrada(l) : l \in Linhas}
  BY <1>1 DEF Diario, Entrada
<1>3. Diario' \subseteq Diario
  BY <1>2, DiarioDeEntradas
<1>4. ASSUME NEW r \in recibos PROVE D!Prova(Diario', r)
  <2>1. PICK l \in Linhas : l.chave = r.chave /\ l.id = r.id
    BY DEF IInv, ReciboNomeiaLinha
  <2>2. l.conteudo = r.conteudo \/ \E m \in Linhas : m.chave = <<r.chave, r.conteudo>>
    BY <2>1 DEF IInv, ReciboProvadoNoArquivo, Reconciliada, ArquivoCoerente
  <2>3. Entrada(l) \in Diario' /\ Entrada(l).chave = r.chave /\ Entrada(l).id = r.id
    BY <1>2, <2>1 DEF Entrada
  <2>4. Entrada(l).conteudo = r.conteudo \/ D!TemEntrada(Diario', <<r.chave, r.conteudo>>)
    <3>1. CASE l.conteudo = r.conteudo
      BY <3>1 DEF Entrada
    <3>2. CASE \E m \in Linhas : m.chave = <<r.chave, r.conteudo>>
      <4>1. PICK m \in Linhas : m.chave = <<r.chave, r.conteudo>>
        BY <3>2
      <4>2. Entrada(m) \in Diario' /\ Entrada(m).chave = <<r.chave, r.conteudo>>
        BY <1>2, <4>1 DEF Entrada
      <4>. QED
        BY <4>2 DEF D!TemEntrada
    <3>. QED
      BY <2>2, <3>1, <3>2
  <2>. QED
    BY <2>3, <2>4 DEF D!Prova
<1>. QED
  BY <1>1, <1>3, <1>4 DEF D!Esquecer

(* Every other step leaves the journal and the receipts alone; a restored  *)
(* row was an entry already, because its line was.                         *)
LEMMA PassoImplementa ==
  ASSUME IInv, [Next]_vars PROVE [D!Next]_<<Diario, recibos>>
<1>0. TypeOK /\ EmMaos
  BY DEF IInv
<1>1. CASE UNCHANGED vars
  BY <1>1 DEF vars, Diario, Linhas
<1>2. CASE PerderBanco
  BY <1>2, PerderEsquece DEF D!Next
<1>3. ASSUME NEW p \in Processos, PassoDe(p) PROVE [D!Next]_<<Diario, recibos>>
  <2>1. CASE Local(p) \/ Restaurar(p) \/ Selar(p) \/ Reconciliar(p)
    <3>1. banco' = banco /\ Linhas' = Linhas /\ recibos' = recibos
      BY <1>0, <2>1, QuadroLocal, Registros DEF Restaurar, Registrar, Linhas
    <3>. QED
      BY <3>1, DiarioSegue
  <2>2. CASE Gravar(p) /\ Aberta(p)
    BY <2>2, GravarSela DEF D!Next
  <2>3. CASE Gravar(p) /\ ~Aberta(p)
    <3>1. evento[p] \in Linhas
      BY <1>0, <2>3 DEF Gravar, EmMaos, EmMaosDe, TypeOK, Fases, Aberta, Abrindo
    <3>2. banco' \cup Linhas' = banco \cup Linhas /\ recibos' = recibos
      BY <2>3, <3>1 DEF Gravar, Linhas
    <3>. QED
      BY <3>2, DiarioSegue
  <2>4. CASE DivergenciaTolerada(p) \/ JaExportado(p) \/ Anexar(p)
    BY <2>4, DevolverRecebe DEF D!Next
  <2>. QED
    BY <1>3, <2>1, <2>2, <2>3, <2>4 DEF PassoDe
<1>. QED
  BY <1>1, <1>2, <1>3, Casos

(* The SDK over SQLite with its export keeps the promise of a sealed       *)
(* journal: whoever reads only receipts cannot tell races, crashes between *)
(* commit, export and receipt, or a lost database from a journal that      *)
(* enters, answers and forgets what nobody relies on.                      *)
THEOREM ImplementaODiario == Spec => ImplementaDiario
<1>1. Init => D!Init
  BY DEF Init, D!Init, Diario, Linhas
<1>2. IInv /\ [Next]_vars => [D!Next]_<<Diario, recibos>>
  BY PassoImplementa
<1>. QED
  BY <1>1, <1>2, Invariante, PTL DEF Spec, ImplementaDiario, D!Spec
=============================================================================
