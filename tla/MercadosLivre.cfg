SPECIFICATION Spec
CONSTANTS
  Processos = {p1, p2}
  Comandos = {"resolver", "rodada"}
  Areas = {macro}
  UltimoMes = 2
  Probs = {meio, alto}
  Prior = meio
  Valores = {sim, nao}
  Nenhum = Nenhum
  MaxMudancas = 1
  MaxQuedas = 1
SYMMETRY Simetria
INVARIANTS TypeOK LedgerUnico DesfechoOficial EfeitoComEvento
CHECK_DEADLOCK FALSE
