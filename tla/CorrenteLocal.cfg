SPECIFICATION Spec
CONSTANTS
  Processos = {p1, p2}
  Correlacoes = {k1, k2}
  Conteudos = {c1, c2}
  Ids = {i1, i2, i3}
  Genesis = Genesis
  Nenhum = Nenhum
  MaxQuedas = 1
  MaxPerdas = 1
SYMMETRY Simetria
INVARIANTS TypeOK CorrenteIntegra SemBifurcacao ReciboProvadoNoArquivo
PROPERTIES SoApenda ImplementaDiario
CHECK_DEADLOCK FALSE
