CONSTANTS
  p1 = p1
  p2 = p2
  p3 = p3
  versao = versao
  corrida = corrida
  ponto = ponto
  a = a
  b = b
  Processos = {p1, p2}
  Lojas <- MCLojas
  Travas = {"ml", "serie"}
  TravaDe <- MCTravaDe
  Pastas = {"mlops", "markets"}
  PastaDe <- MCPastaDe
  Estritas = {"versoes"}
  Registros = {versao, corrida}
  Pontos = {ponto}
  Loja <- MCLoja
  Referencia <- MCReferencia
  Nenhuma = "nenhuma"
  Conteudos = {a, b}
  Motivos = {"r1"}
  Ninguem = "ninguem"
  MaxPrecos = 1
  MaxReconciliacoes = 1
  MaxExpurgos = 1
  MaxQuedas = 1
SPECIFICATION Spec
INVARIANTS SelaPrimeiro IdentidadeUnica
