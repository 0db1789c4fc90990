SPECIFICATION FairSpec
CONSTANTS
  c1 = c1
  c2 = c2
  v1 = v1
  v2 = v2
  benchmark = benchmark
  Clientes <- MCClientes
  Vagas <- MCVagas
  Nativas <- MCNativas
  MaxLocais = 2
  MaxLinhas = 3
  MaxFalhas = 1
INVARIANTS CadeiaD1 ReciboDoLedger EspelhoEmOrdem
PROPERTIES EspelhoCompleto ImplementaDiario
