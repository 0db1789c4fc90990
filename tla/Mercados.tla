------------------------------- MODULE Mercados -------------------------------
(***************************************************************************)
(* The live registry of markets and the commands that rewrite it: the      *)
(* monthly resolver (markets/live.py), the daily round and the single      *)
(* repricing (markets/reprecificar.py) and the emission of one market      *)
(* (markets-emitir in cli.py).                                             *)
(*                                                                         *)
(* registro.json is one file: every command reads all of it into memory    *)
(* and writes all of it back.  Only the resolver takes the lock.  A step   *)
(* is a read or a write of a shared file, or a seal, with the memory it    *)
(* changes on the way; processes interleave between steps and may die      *)
(* there.                                                                  *)
(*                                                                         *)
(* A claim is <<area, month>>; time advances by months, which is all the   *)
(* deadline guard tells apart.  Of the sealed chain this module uses what  *)
(* DiarioSelado promises: one event per key, never replaced.               *)
(***************************************************************************)
EXTENDS Naturals, Sequences

CONSTANTS
  Processos,      \* processes that run a command on this working copy
  Comandos,       \* the commands they run, of TodosComandos
  Areas,          \* areas of the registry AREAS_RESOLVIVEIS
  UltimoMes,      \* bound: the last month of the calendar
  Probs,          \* probabilities a generator may answer
  Prior,          \* 0.50, maximal uncertainty
  Valores,        \* outcomes an official value decides
  Nenhum,         \* no value, no line, no claim, no process
  MaxMudancas,    \* bound: how many repricings are sealed
  MaxQuedas       \* bound: how many processes die

TodosComandos == {"resolver", "rodada", "reprecificar", "emitir"}
Meses  == 1 .. UltimoMes
Claims == Areas \X Meses
Mes(c) == c[2]

ASSUME MercadosAssumptions ==
  /\ UltimoMes \in Nat \ {0}
  /\ Comandos \subseteq TodosComandos
  /\ Prior \in Probs
  /\ Nenhum \notin Valores /\ Nenhum \notin Processos /\ Nenhum \notin Claims
  /\ MaxMudancas \in Nat /\ MaxQuedas \in Nat

(* A market of the registry.  "movimentos" is its list reprecificacoes:    *)
(* the sealed repricings it carries.  "em" is resolved_at.                 *)
Estados == {"AUSENTE", "ABERTO", "EM_RESOLUCAO", "LIQUIDADO"}
Mercado == [estado : Estados, p : Probs, valor : Valores \cup {Nenhum},
            em : 0 .. UltimoMes, movimentos : SUBSET (Nat \ {0})]
Registros == [Claims -> Mercado]

Novo(estado, prob) ==
  [estado |-> estado, p |-> prob, valor |-> Nenhum, em |-> 0, movimentos |-> {}]
Vazio == Novo("AUSENTE", Prior)

(* A line of resolucoes.jsonl (_linha_de_resolucao).                       *)
Linhas == [claim : Claims, p : Probs, valor : Valores \cup {Nenhum}, em : 0 .. UltimoMes]
Linha(c, m) == [claim |-> c, p |-> m.p, valor |-> m.valor, em |-> m.em]

(* A sealed market.repricing event.                                        *)
Mudancas == [claim : Claims, de : Probs, para : Probs, em : Meses]

VARIABLES
  hoje,        \* the current month
  fonte,       \* what the official source answers for each claim
  registro,    \* registro.json
  resolucoes,  \* lines of resolucoes.jsonl
  selados,     \* the line sealed by the settlement event of each claim
  mudancas,    \* the sealed repricings, in chain order
  trava,       \* who holds .lock
  etapa,       \* of each process: the loop it is in
  passo,       \* of each process: the step of the item in hand
  restam,      \* of each process: items the loop has not visited
  alvo,        \* of each process: the claim in hand
  memoria,     \* of each process: the registry it loaded
  lido,        \* of each process: the registry reprecificar read
  novo,        \* of each process: the probability to be written
  data,        \* of each process: hoje, read when its command started
  quedas       \* number of processes that died

mundo  == <<hoje, fonte>>
disco  == <<registro, resolucoes>>
cadeia == <<selados, mudancas>>
copias == <<memoria, lido, novo, data>>
cursor == <<etapa, passo, restam, alvo>>
vars == <<mundo, disco, cadeia, trava, cursor, copias, quedas>>

Etapas == {"ocioso", "reparo", "visita", "selagem", "laco", "ajuste", "emissao"}
Passos == {"item", "conferir", "anexar", "emitir", "selar", "gravar"}

TypeOK ==
  /\ hoje \in Meses
  /\ fonte \in [Claims -> Valores \cup {Nenhum}]
  /\ registro \in Registros
  /\ resolucoes \in Seq(Linhas)
  /\ selados \in [Claims -> Linhas \cup {Nenhum}]
  /\ mudancas \in Seq(Mudancas)
  /\ trava \in Processos \cup {Nenhum}
  /\ etapa \in [Processos -> Etapas]
  /\ passo \in [Processos -> Passos]
  /\ restam \in [Processos -> SUBSET Claims]
  /\ alvo \in [Processos -> Claims \cup {Nenhum}]
  /\ memoria \in [Processos -> Registros]
  /\ lido \in [Processos -> Registros]
  /\ novo \in [Processos -> Probs]
  /\ data \in [Processos -> Meses]
  /\ quedas \in 0 .. MaxQuedas

-----------------------------------------------------------------------------
Com(r, estado) == {c \in Claims : r[c].estado = estado}
Vivos(r) == Com(r, "ABERTO") \cup Com(r, "EM_RESOLUCAO")

(* _claim_ids_registrados                                                  *)
Registrados == {resolucoes[i].claim : i \in DOMAIN resolucoes}

Init ==
  /\ hoje = 1 /\ fonte = [c \in Claims |-> Nenhum]
  /\ registro = [c \in Claims |-> Novo(IF Mes(c) = 1 THEN "ABERTO" ELSE "AUSENTE", Prior)]
  /\ resolucoes = <<>>
  /\ selados = [c \in Claims |-> Nenhum] /\ mudancas = <<>>
  /\ trava = Nenhum
  /\ etapa = [p \in Processos |-> "ocioso"]
  /\ passo = [p \in Processos |-> "item"]
  /\ restam = [p \in Processos |-> {}]
  /\ alvo = [p \in Processos |-> Nenhum]
  /\ memoria = [p \in Processos |-> [c \in Claims |-> Vazio]]
  /\ lido = [p \in Processos |-> [c \in Claims |-> Vazio]]
  /\ novo = [p \in Processos |-> Prior]
  /\ data = [p \in Processos |-> 1]
  /\ quedas = 0

(* Process p goes to loop e with the items S to visit.                     *)
Entra(p, e, S) ==
  /\ etapa' = [etapa EXCEPT ![p] = e]
  /\ passo' = [passo EXCEPT ![p] = "item"]
  /\ restam' = [restam EXCEPT ![p] = S]
  /\ alvo' = [alvo EXCEPT ![p] = Nenhum]

(* The item c is done with, and the loop goes on.                          *)
Conclui(p, c) ==
  /\ restam' = [restam EXCEPT ![p] = @ \ {c}]
  /\ passo' = [passo EXCEPT ![p] = "item"]
  /\ alvo' = [alvo EXCEPT ![p] = Nenhum]
  /\ UNCHANGED etapa

(* The item c is in hand, at step s.                                       *)
Toma(p, c, s) ==
  /\ alvo' = [alvo EXCEPT ![p] = c]
  /\ passo' = [passo EXCEPT ![p] = s]
  /\ UNCHANGED <<etapa, restam>>

(* What the command remembers when it ends does not matter any more.       *)
Esquece(p) ==
  /\ memoria' = [memoria EXCEPT ![p] = [c \in Claims |-> Vazio]]
  /\ lido' = [lido EXCEPT ![p] = [c \in Claims |-> Vazio]]
  /\ novo' = [novo EXCEPT ![p] = Prior]
  /\ data' = [data EXCEPT ![p] = 1]

Termina(p) == Entra(p, "ocioso", {}) /\ Esquece(p)

NoItem(p, e, c) == etapa[p] = e /\ passo[p] = "item" /\ c \in restam[p]
FimDaLista(p, e) == etapa[p] = e /\ passo[p] = "item" /\ restam[p] = {}

(* The registry in memory becomes r, and all of it is written.             *)
Salva(p, r) ==
  /\ memoria' = [memoria EXCEPT ![p] = r]
  /\ registro' = r

(* The month of c is over for a command that runs on data[p].              *)
VencidoNoMes(p, c) == data[p] >= Mes(c)     \* mutant: on the last day already
Vencido(p, c) == data[p] > Mes(c)

(* _apendar_resolucao reads the file first and appends afterwards.         *)
DepoisDaLinha(p) ==
  IF etapa[p] = "reparo" THEN Conclui(p, alvo[p]) ELSE Toma(p, alvo[p], "emitir")

-----------------------------------------------------------------------------
(* MUTANTS: what the actions below would be with a plausible bug.          *)

(* resolver_pendentes without the lock.                                    *)
IniciarSemTrava(p) ==
  /\ "resolver" \in Comandos /\ etapa[p] = "ocioso"
  /\ trava' = p
  /\ memoria' = [memoria EXCEPT ![p] = registro]
  /\ data' = [data EXCEPT ![p] = hoje]
  /\ Entra(p, "reparo", Com(registro, "LIQUIDADO") \ Registrados)
  /\ UNCHANGED <<mundo, disco, cadeia, lido, novo, quedas>>

(* No repair pass.                                                         *)
IniciarSemReparo(p) ==
  /\ "resolver" \in Comandos /\ etapa[p] = "ocioso"
  /\ trava = Nenhum /\ trava' = p
  /\ memoria' = [memoria EXCEPT ![p] = registro]
  /\ data' = [data EXCEPT ![p] = hoje]
  /\ Entra(p, "reparo", {})
  /\ UNCHANGED <<mundo, disco, cadeia, lido, novo, quedas>>

(* The loop visits the open markets only, and forgets those in resolution. *)
FimDoReparoSoAbertos(p) ==
  /\ FimDaLista(p, "reparo")
  /\ Entra(p, "visita", Com(memoria[p], "ABERTO"))
  /\ UNCHANGED <<mundo, disco, cadeia, trava, copias, quedas>>

(* A state the lifecycle does not have.                                    *)
SemPublicacaoExpira(p, c) ==
  /\ NoItem(p, "visita", c) /\ Vencido(p, c)
  /\ fonte[c] = Nenhum
  /\ Salva(p, [memoria[p] EXCEPT ![c].estado = "EXPIRADO"])
  /\ Conclui(p, c)
  /\ UNCHANGED <<mundo, resolucoes, cadeia, trava, lido, novo, data, quedas>>

(* The ledger first, the registry at the end of the loop.                  *)
LiquidarSemSalvar(p, c) ==
  /\ NoItem(p, "visita", c) /\ Vencido(p, c)
  /\ fonte[c] # Nenhum
  /\ memoria' = [memoria EXCEPT ![p][c].estado = "LIQUIDADO", ![p][c].valor = fonte[c],
                                ![p][c].em = data[p]]
  /\ Toma(p, c, "conferir")
  /\ UNCHANGED <<mundo, disco, cadeia, trava, lido, novo, data, quedas>>

(* The change is written and no event was sealed.                          *)
SelarMudancaSemSelo(p) ==
  /\ passo[p] = "selar"
  /\ lido' = [lido EXCEPT ![p][alvo[p]].p = novo[p],
                          ![p][alvo[p]].movimentos = @ \cup {Len(mudancas) + 1}]
  /\ Toma(p, alvo[p], "gravar")
  /\ UNCHANGED <<mundo, disco, cadeia, trava, memoria, novo, data, quedas>>

(* emitir_area does not look for a market of the month.                    *)
IniciarEmissaoSobre(p) ==
  /\ "emitir" \in Comandos /\ etapa[p] = "ocioso"
  /\ memoria' = [memoria EXCEPT ![p] = registro]
  /\ Entra(p, "emissao", Claims)
  /\ UNCHANGED <<mundo, disco, cadeia, trava, lido, novo, data, quedas>>

-----------------------------------------------------------------------------
(* THE RESOLVER: resolver_pendentes, _resolver_pendentes_travado           *)

(* The lock is taken without waiting; the registry and the ids of the      *)
(* ledger are read under it.  A settled market with no line is repaired.   *)
IniciarResolucao(p) ==
  /\ "resolver" \in Comandos /\ etapa[p] = "ocioso"
  /\ trava = Nenhum
  /\ trava' = p
  /\ memoria' = [memoria EXCEPT ![p] = registro]
  /\ data' = [data EXCEPT ![p] = hoje]
  /\ Entra(p, "reparo", Com(registro, "LIQUIDADO") \ Registrados)
  /\ UNCHANGED <<mundo, disco, cadeia, lido, novo, quedas>>

Reparar(p) ==
  /\ \E c \in Claims : NoItem(p, "reparo", c) /\ Toma(p, c, "conferir")
  /\ UNCHANGED <<mundo, disco, cadeia, trava, copias, quedas>>

LinhaExiste(p) ==
  /\ passo[p] = "conferir" /\ alvo[p] \in Registrados
  /\ DepoisDaLinha(p)
  /\ UNCHANGED <<mundo, disco, cadeia, trava, copias, quedas>>

LinhaFalta(p) ==
  /\ passo[p] = "conferir" /\ alvo[p] \notin Registrados
  /\ Toma(p, alvo[p], "anexar")
  /\ UNCHANGED <<mundo, disco, cadeia, trava, copias, quedas>>

AnexarLinha(p) ==
  /\ passo[p] = "anexar"
  /\ resolucoes' = Append(resolucoes, Linha(alvo[p], memoria[p][alvo[p]]))
  /\ DepoisDaLinha(p)
  /\ UNCHANGED <<mundo, registro, cadeia, trava, copias, quedas>>

(* LIQUIDADO is skipped: the source is not asked again.                    *)
FimDoReparo(p) ==
  /\ FimDaLista(p, "reparo")
  /\ Entra(p, "visita", Vivos(memoria[p]))
  /\ UNCHANGED <<mundo, disco, cadeia, trava, copias, quedas>>

Aguardar(p, c) ==
  /\ NoItem(p, "visita", c) /\ ~Vencido(p, c)
  /\ Conclui(p, c)
  /\ UNCHANGED <<mundo, disco, cadeia, trava, copias, quedas>>

(* The source fails, or answers a value no expectation admits.             *)
ErroDeFonte(p, c) ==
  /\ NoItem(p, "visita", c) /\ Vencido(p, c)
  /\ Conclui(p, c)
  /\ UNCHANGED <<mundo, disco, cadeia, trava, copias, quedas>>

SemPublicacao(p, c) ==
  /\ NoItem(p, "visita", c) /\ Vencido(p, c)
  /\ fonte[c] = Nenhum
  /\ Salva(p, [memoria[p] EXCEPT ![c].estado = "EM_RESOLUCAO"])
  /\ Conclui(p, c)
  /\ UNCHANGED <<mundo, resolucoes, cadeia, trava, lido, novo, data, quedas>>

(* The registry is on disk before the line is appended to the ledger.      *)
Liquidar(p, c) ==
  /\ NoItem(p, "visita", c) /\ Vencido(p, c)
  /\ fonte[c] # Nenhum
  /\ Salva(p, [memoria[p] EXCEPT ![c].estado = "LIQUIDADO", ![c].valor = fonte[c],
                                 ![c].em = data[p]])
  /\ Toma(p, c, "conferir")
  /\ UNCHANGED <<mundo, resolucoes, cadeia, trava, lido, novo, data, quedas>>

Visitar(p) ==
  \E c \in Claims : Aguardar(p, c) \/ ErroDeFonte(p, c) \/ SemPublicacao(p, c) \/ Liquidar(p, c)

(* _primeiro_mes_nao_terminado: the first month after that of c which has  *)
(* not ended.                                                              *)
Seguinte(p, c) == <<c[1], IF Mes(c) + 1 >= data[p] THEN Mes(c) + 1 ELSE data[p]>>

Emitido(r, c, prob) == [r EXCEPT ![c] = Novo("ABERTO", prob)]

(* The next market of the area joins the list the loop is walking.         *)
EmitirSeguinte(p) ==
  /\ passo[p] = "emitir"
  /\ LET s == Seguinte(p, alvo[p]) IN
       /\ memoria[p][s].estado = "AUSENTE"
       /\ \E prob \in Probs : Salva(p, Emitido(memoria[p], s, prob))
       /\ restam' = [restam EXCEPT ![p] = (@ \ {alvo[p]}) \cup {s}]
  /\ passo' = [passo EXCEPT ![p] = "item"]
  /\ alvo' = [alvo EXCEPT ![p] = Nenhum]
  /\ UNCHANGED <<mundo, resolucoes, cadeia, trava, etapa, lido, novo, data, quedas>>

(* The loop goes on with no market emitted, and nothing is saved.          *)
SemEmissao(p) ==
  /\ passo[p] = "emitir"
  /\ Conclui(p, alvo[p])
  /\ UNCHANGED <<mundo, disco, cadeia, trava, copias, quedas>>

(* emitir_area: the month has a market of the area already.                *)
JaEmitido(p) ==
  /\ SemEmissao(p)
  /\ memoria[p][Seguinte(p, alvo[p])].estado # "AUSENTE"

(* Whatever the emission raises is caught: the action is "nao_emitido".    *)
NaoEmitido(p) == SemEmissao(p)

(* The registry is saved once more, and the sealing sweep begins.          *)
FimDaVisita(p) ==
  /\ FimDaLista(p, "visita")
  /\ registro' = memoria[p]
  /\ Entra(p, "selagem", Com(memoria[p], "LIQUIDADO"))
  /\ UNCHANGED <<mundo, resolucoes, cadeia, trava, copias, quedas>>

(* The auditor seals a settlement once and dedupes the same content.       *)
SelarLiquidacao(p, c) ==
  /\ NoItem(p, "selagem", c)
  /\ LET linha == Linha(c, memoria[p][c]) IN
       /\ selados[c] \in {Nenhum, linha}
       /\ selados' = [selados EXCEPT ![c] = linha]
  /\ Conclui(p, c)
  /\ UNCHANGED <<mundo, disco, mudancas, trava, copias, quedas>>

(* The auditor raises, the content diverges from what was sealed, or the   *)
(* divergence is reconciled: in each case nothing is sealed.               *)
NaoSela(p) ==
  /\ \E c \in Claims : NoItem(p, "selagem", c) /\ Conclui(p, c)
  /\ UNCHANGED <<mundo, disco, cadeia, trava, copias, quedas>>

FimDaResolucao(p) ==
  /\ FimDaLista(p, "selagem")
  /\ trava' = Nenhum
  /\ Termina(p)
  /\ UNCHANGED <<mundo, disco, cadeia, quedas>>

Anexacao(p) == LinhaExiste(p) \/ LinhaFalta(p) \/ AnexarLinha(p)

Resolver(p) ==
  \/ Reparar(p) \/ Anexacao(p) \/ FimDoReparo(p)
  \/ Visitar(p) \/ EmitirSeguinte(p) \/ JaEmitido(p) \/ NaoEmitido(p) \/ FimDaVisita(p)
  \/ (\E c \in Claims : SelarLiquidacao(p, c)) \/ NaoSela(p) \/ FimDaResolucao(p)

-----------------------------------------------------------------------------
(* REPRICING: rodada over the live markets, or reprecificar of one claim   *)

(* rodada reads the registry once and walks the copy it has in memory.     *)
IniciarRodada(p) ==
  /\ "rodada" \in Comandos /\ etapa[p] = "ocioso"
  /\ memoria' = [memoria EXCEPT ![p] = registro]
  /\ data' = [data EXCEPT ![p] = hoje]
  /\ Entra(p, "laco", Vivos(registro))
  /\ UNCHANGED <<mundo, disco, cadeia, trava, lido, novo, quedas>>

IniciarReprecificacao(p) ==
  /\ "reprecificar" \in Comandos /\ etapa[p] = "ocioso"
  /\ data' = [data EXCEPT ![p] = hoje]
  /\ \E c \in Claims : registro[c].estado # "AUSENTE" /\ Entra(p, "ajuste", {c})
  /\ UNCHANGED <<mundo, disco, cadeia, trava, memoria, lido, novo, quedas>>

Precos == {"laco", "ajuste"}

(* The generator has no signal, or the movement is below the minimum.      *)
NaoMove(p) ==
  /\ \E e \in Precos, c \in Claims : NoItem(p, e, c) /\ Conclui(p, c)
  /\ UNCHANGED <<mundo, disco, cadeia, trava, copias, quedas>>

(* reprecificar reads the registry again, whatever the caller holds.  A    *)
(* settled or missing claim is refused; the generator's answer prob is     *)
(* taken up only if it moves the probability.                              *)
Recusar(p) ==
  /\ \E e \in Precos, c \in Claims :
       NoItem(p, e, c) /\ c \notin Vivos(registro) /\ Conclui(p, c)
  /\ UNCHANGED <<mundo, disco, cadeia, trava, copias, quedas>>

Mover(p) ==
  /\ \E e \in Precos, c \in Vivos(registro), prob \in Probs :
       /\ NoItem(p, e, c)
       /\ prob # registro[c].p
       /\ novo' = [novo EXCEPT ![p] = prob]
       /\ Toma(p, c, "selar")
  /\ lido' = [lido EXCEPT ![p] = registro]
  /\ UNCHANGED <<mundo, disco, cadeia, trava, memoria, data, quedas>>

(* The change is sealed before it is written.                              *)
SelarMudanca(p) ==
  /\ passo[p] = "selar"
  /\ Len(mudancas) < MaxMudancas
  /\ mudancas' = Append(mudancas,
       [claim |-> alvo[p], de |-> lido[p][alvo[p]].p, para |-> novo[p], em |-> data[p]])
  /\ lido' = [lido EXCEPT ![p][alvo[p]].p = novo[p],
                          ![p][alvo[p]].movimentos = @ \cup {Len(mudancas) + 1}]
  /\ Toma(p, alvo[p], "gravar")
  /\ UNCHANGED <<mundo, disco, selados, trava, memoria, novo, data, quedas>>

(* The whole registry is written as reprecificar read it, with its change. *)
GravarMudanca(p) ==
  /\ passo[p] = "gravar"
  /\ registro' = lido[p]
  /\ Conclui(p, alvo[p])
  /\ UNCHANGED <<mundo, resolucoes, cadeia, trava, copias, quedas>>

(* At its end rodada writes the registry it read at its start, to keep the *)
(* second track it attached in memory.  reprecificar just returns.         *)
FimDaRodada(p) ==
  /\ FimDaLista(p, "laco")
  /\ registro' = memoria[p]
  /\ Termina(p)
  /\ UNCHANGED <<mundo, resolucoes, cadeia, trava, quedas>>

FimDaReprecificacao(p) ==
  /\ FimDaLista(p, "ajuste")
  /\ Termina(p)
  /\ UNCHANGED <<mundo, disco, cadeia, trava, quedas>>

(* A seal that fails - of a change or of a point of the series - is not a  *)
(* ReprecificacaoError: it leaves the loop and ends the command.           *)
SelagemLevanta(p) ==
  /\ etapa[p] \in Precos /\ passo[p] \in {"item", "selar"}
  /\ Termina(p)
  /\ UNCHANGED <<mundo, disco, cadeia, trava, quedas>>

Reprecificar(p) ==
  \/ NaoMove(p) \/ Recusar(p) \/ Mover(p) \/ SelarMudanca(p) \/ GravarMudanca(p)
  \/ FimDaRodada(p) \/ FimDaReprecificacao(p) \/ SelagemLevanta(p)

-----------------------------------------------------------------------------
(* EMISSION BY HAND: the registry is read, the generator is asked, and the *)
(* registry is written with the market of any month that has none.         *)
IniciarEmissao(p) ==
  /\ "emitir" \in Comandos /\ etapa[p] = "ocioso"
  /\ memoria' = [memoria EXCEPT ![p] = registro]
  /\ Com(registro, "AUSENTE") # {}
  /\ Entra(p, "emissao", Com(registro, "AUSENTE"))
  /\ UNCHANGED <<mundo, disco, cadeia, trava, lido, novo, data, quedas>>

Emitir(p) ==
  /\ \E c \in Claims, prob \in Probs :
       NoItem(p, "emissao", c) /\ registro' = Emitido(memoria[p], c, prob)
  /\ Termina(p)
  /\ UNCHANGED <<mundo, resolucoes, cadeia, trava, quedas>>

-----------------------------------------------------------------------------
(* The month passes.  Until a month has ended the source may answer a      *)
(* partial value for it; the value published after its end is final.       *)
Avancar ==
  /\ hoje < UltimoMes
  /\ hoje' = hoje + 1
  /\ UNCHANGED <<fonte, disco, cadeia, trava, cursor, copias, quedas>>

Publicar(c) ==
  /\ fonte[c] = Nenhum \/ hoje <= Mes(c)
  /\ \E v \in Valores : fonte' = [fonte EXCEPT ![c] = v]
  /\ UNCHANGED <<hoje, disco, cadeia, trava, cursor, copias, quedas>>

(* The process dies, and the operating system drops its lock.              *)
Queda(p) ==
  /\ quedas < MaxQuedas
  /\ etapa[p] # "ocioso"
  /\ quedas' = quedas + 1
  /\ trava' = IF trava = p THEN Nenhum ELSE trava
  /\ Termina(p)
  /\ UNCHANGED <<mundo, disco, cadeia>>

Iniciar(p) ==
  IniciarResolucao(p) \/ IniciarRodada(p) \/ IniciarReprecificacao(p) \/ IniciarEmissao(p)

Next ==
  \/ \E p \in Processos :
       Iniciar(p) \/ Resolver(p) \/ Reprecificar(p) \/ Emitir(p) \/ Queda(p)
  \/ Avancar
  \/ \E c \in Claims : Publicar(c)

Spec == Init /\ [][Next]_vars

-----------------------------------------------------------------------------
(* PROPERTIES                                                              *)

(* "LIQUIDADO e terminal" (live.py): no command that rewrites the registry *)
(* takes a settlement back or changes what it recorded.                    *)
LiquidadoTerminal ==
  [][\A c \in Claims : registro[c].estado = "LIQUIDADO" => registro'[c] = registro[c]]_registro

(* No claim has two lines in the append-only ledger, although presence is  *)
(* read in one step and the line appended in another, and although the     *)
(* repair pass appends the lines a dead round left behind.                 *)
LedgerUnico ==
  \A i, j \in DOMAIN resolucoes : i # j => resolucoes[i].claim # resolucoes[j].claim

(* A line of the ledger is the settlement the registry records: the        *)
(* registry is saved before the append, never the other way round.         *)
LedgerFiel ==
  \A i \in DOMAIN resolucoes :
    LET c == resolucoes[i].claim
    IN  registro[c].estado = "LIQUIDADO" /\ resolucoes[i] = Linha(c, registro[c])

(* What the chain sealed as the settlement of a claim is its line.         *)
SelagemFiel == \A c \in Claims : selados[c] # Nenhum => \E i \in DOMAIN resolucoes : resolucoes[i] = selados[c]

(* Settled never before the month ended, and with the value the source     *)
(* published after the end - not a partial one, not one of an older run -  *)
(* in the registry and in the ledger.                                      *)
DesfechoOficial ==
  /\ \A c \in Com(registro, "LIQUIDADO") : hoje > Mes(c) /\ registro[c].valor = fonte[c]
  /\ \A i \in DOMAIN resolucoes : resolucoes[i].valor = fonte[resolucoes[i].claim]

(* "Nunca efeito sem evento" (reprecificar.py): the trajectory a market    *)
(* shows is sealed, and its probability is where the last one moved it -   *)
(* whichever of the registries in memory was written over the others.      *)
Provado(r) ==
  \A c \in Claims :
    /\ \A n \in r[c].movimentos : n \in DOMAIN mudancas /\ mudancas[n].claim = c
    /\ \A n \in r[c].movimentos :
         (\A m \in r[c].movimentos : m <= n) => r[c].p = mudancas[n].para
EfeitoComEvento == Provado(registro)

(* No command takes a repricing out of the registry, but for the last      *)
(* write of rodada, which puts back the registry it read at its start.     *)
SoRodadaDesfaz ==
  [][\/ \A c \in Claims : registro[c].movimentos \subseteq registro'[c].movimentos
     \/ \E p \in Processos : FimDaRodada(p)]_registro

-----------------------------------------------------------------------------
(* THE INDUCTIVE INVARIANT                                                 *)

Travado == {"reparo", "visita", "selagem"}

(* The lock is held exactly while a round runs; what is in hand at a step. *)
EmCurso(p) ==
  /\ etapa[p] \in Travado <=> trava = p
  /\ passo[p] # "item" => alvo[p] \in Claims
  /\ passo[p] \in {"conferir", "anexar"} => etapa[p] \in {"reparo", "visita"}
  /\ passo[p] = "emitir" => etapa[p] = "visita"
  /\ etapa[p] = "visita" /\ passo[p] # "item" => Vencido(p, alvo[p])
  /\ passo[p] \in {"selar", "gravar"} => etapa[p] \in Precos
  /\ data[p] <= hoje
Ordem == \A p \in Processos : EmCurso(p)

(* Under the lock, a line that was missing is still missing.               *)
AnexaInedito == \A p \in Processos : passo[p] = "anexar" => alvo[p] \notin Registrados

(* Every copy of the registry, on disk or in memory, is justified.         *)
Oficial(r) == \A c \in Com(r, "LIQUIDADO") :
  hoje > Mes(c) /\ fonte[c] # Nenhum /\ r[c].valor = fonte[c]
Justificado(r) == Oficial(r) /\ Provado(r)
CopiasJustificadas ==
  /\ Justificado(registro)
  /\ \A p \in Processos : Justificado(memoria[p]) /\ Justificado(lido[p])

(* What becomes a line is settled in the memory of its round.              *)
LinhaLiquidada ==
  /\ \A p \in Processos :
       /\ passo[p] \in {"conferir", "anexar"} => memoria[p][alvo[p]].estado = "LIQUIDADO"
       /\ etapa[p] = "reparo" => restam[p] \subseteq Com(memoria[p], "LIQUIDADO")
  /\ \A i \in DOMAIN resolucoes :
       LET c == resolucoes[i].claim
       IN  hoje > Mes(c) /\ fonte[c] # Nenhum /\ resolucoes[i].valor = fonte[c]

IInv ==
  /\ TypeOK /\ Ordem /\ LedgerUnico /\ AnexaInedito
  /\ CopiasJustificadas /\ LinhaLiquidada

-----------------------------------------------------------------------------
(* THE INDUCTIVE INVARIANT of commands that do not overlap.                *)

(* One command runs at a time: in rodada-diaria.yml the commands are steps *)
(* of one job, and the job never runs twice at once.                       *)
UmPorVez == \A p, q \in Processos : etapa[p] # "ocioso" /\ etapa[q] # "ocioso" => p = q

SpecSerial == Init /\ [][Next /\ UmPorVez']_vars

(* The copy r lacks nothing of the registry but repricings of live markets. *)
Acompanha(r) ==
  \A c \in Claims :
    /\ r[c].estado = registro[c].estado
    /\ c \notin Vivos(registro) => r[c] = registro[c]

(* What the command that runs has in memory, and the claims it has still   *)
(* to visit.                                                               *)
CopiaAtual(p) ==
  /\ etapa[p] \in Travado \cup {"emissao"} => memoria[p] = registro
  /\ etapa[p] = "laco" => Acompanha(memoria[p])
  /\ etapa[p] = "emissao" => restam[p] \subseteq Com(registro, "AUSENTE")
  /\ etapa[p] = "selagem" => restam[p] \subseteq Com(registro, "LIQUIDADO")
  /\ etapa[p] = "visita" =>
       \A c \in restam[p] : c \in Vivos(registro) \/ (passo[p] # "item" /\ c = alvo[p])
  /\ passo[p] \in {"selar", "gravar"} =>
       /\ alvo[p] \in Vivos(registro) /\ Acompanha(lido[p])
       /\ \A c \in Claims : registro[c].movimentos \subseteq lido[p][c].movimentos

(* A settled market has its line, or the round still has to append it.     *)
LinhaDevida(p) ==
  LET devidas == IF etapa[p] = "reparo" THEN restam[p]
                 ELSE IF passo[p] \in {"conferir", "anexar"} THEN {alvo[p]} ELSE {}
  IN  etapa[p] \in Travado => Com(registro, "LIQUIDADO") \subseteq Registrados \cup devidas

AusenteNaoMove == \A c \in Com(registro, "AUSENTE") : registro[c].movimentos = {}

SInv ==
  /\ \A p \in Processos : CopiaAtual(p) /\ LinhaDevida(p)
  /\ AusenteNaoMove /\ LedgerFiel /\ SelagemFiel
=============================================================================
