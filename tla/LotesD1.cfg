CONSTANTS
  Processos = {p1, p2}
  Janela = 3
  Minimo = 1
  MaxEventos = 4
  MaxLocais = 2
  MaxManifestos = 2
  MaxQuedas = 1
SPECIFICATION FairSpec
INVARIANTS LoteContinua ProvaServe RaizServida
PROPERTY AncoraServida
