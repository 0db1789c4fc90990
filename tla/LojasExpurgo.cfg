CONSTANTS
  p1 = p1
  p2 = p2
  p3 = p3
  versao = versao
  corrida = corrida
  ponto = ponto
  a = a
  b = b
  Processos = {p1, p2, p3}
  Lojas = {"versoes"}
  Travas = {"ml"}
  TravaDe <- UmaTravaDe
  Pastas = {"mlops"}
  PastaDe <- UmaPastaDe
  Estritas = {"versoes"}
  Registros = {versao, corrida}
  Pontos = {}
  Loja <- UmaLoja
  Referencia <- SemReferencia
  Nenhuma = "nenhuma"
  Conteudos = {a}
  Motivos = {"r1", "r2"}
  Ninguem = "ninguem"
  MaxPrecos = 0
  MaxReconciliacoes = 0
  MaxExpurgos = 3
  MaxQuedas = 1
SPECIFICATION Spec
INVARIANT NaoRessuscita
PROPERTY SoExpurgoRemove
SYMMETRY Simetria
