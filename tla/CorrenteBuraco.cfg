SPECIFICATION Spec
CONSTANTS
  Processos = {p1}
  Correlacoes = {k1, k2}
  Conteudos = {c1}
  Ids = {i1, i2, i3}
  Genesis = Genesis
  Nenhum = Nenhum
  MaxQuedas = 1
  MaxPerdas = 0
INVARIANTS ProximaRodadaAbre
CHECK_DEADLOCK FALSE
