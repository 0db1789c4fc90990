SPECIFICATION Spec
CONSTANTS
  Processos = {p1, p2}
  Comandos = {"resolver", "rodada"}
  Areas = {macro}
  UltimoMes = 2
  Probs = {meio, alto}
  Prior = meio
  Valores = {sim, nao}
  Nenhum = Nenhum
  MaxMudancas = 0
  MaxQuedas = 0
PROPERTIES LiquidadoTerminal
CHECK_DEADLOCK FALSE
