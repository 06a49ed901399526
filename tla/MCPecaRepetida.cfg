SPECIFICATION Spec
CONSTANTS
  Sessoes = {s1, s2}
  Editores = {}
  Atendentes = {a1}
  p1 = p1
  p2 = p2
  c1 = c1
  c2 = c2
  Pecas = {p1, p2}
  Clientes = {c1, c2}
  ComEmail = {c1}
  Formularios <- FormulariosRepetidos
  Inicial <- EstoqueInicial
  Digitadas = {}
  Falhas = FALSE
  MaxPedidos = 2
  Nenhum = Nenhum
INVARIANTS EstoqueNaoNegativo
CHECK_DEADLOCK FALSE
