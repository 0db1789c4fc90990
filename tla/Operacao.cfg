SPECIFICATION FairSpec
CONSTANTS
  c1 = c1
  c2 = c2
  d1 = d1
  Continuas <- MCUmaContinua
  Diarias <- MCDiarias
  Minimo = 2
  Tentativas = 2
  MaxEventos = 3
  MaxOutros = 1
INVARIANTS TypeOK PublicadaIntegra
PROPERTIES SoAvanca VerdeDaContinua PublicadoChegaAoEspelho
