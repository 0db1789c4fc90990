CONSTANTS
  f1 = f1
  f2 = f2
  t1 = t1
  t2 = t2
  t3 = t3
  s1 = s1
  Tarefas = {t1, t2, t3}
  Filas = {f1, f2}
  FilaDe <- MCFilaDe
  Sitios = {s1}
  Sitio <- MCSitio
  MaxHosts = 2
  Intervalo = 2
  Validade = 1
  MaxTentativas = 1
  MaxPausa = 1
SPECIFICATION FairSpec
INVARIANTS NinguemInsiste
PROPERTY EspacoPorHost TodaTarefaTermina
