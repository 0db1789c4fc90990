SPECIFICATION SpecJusta
CONSTANTS
  Processos = {p1}
  Comandos = {"resolver", "rodada", "reprecificar", "emitir"}
  Areas = {macro}
  UltimoMes = 2
  Probs = {meio, alto}
  Prior = meio
  Valores = {sim, nao}
  Nenhum = Nenhum
  MaxMudancas = 1
  MaxQuedas = 2
INVARIANTS LedgerFiel SelagemFiel
PROPERTIES LiquidadoTerminal SoRodadaDesfaz LiquidacaoChega PrazoLiquida
CHECK_DEADLOCK FALSE
