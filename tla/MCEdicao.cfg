SPECIFICATION Spec
CONSTANTS
  Sessoes = {s1, s2}
  Editores = {s1}
  Atendentes = {a1}
  p1 = p1
  p2 = p2
  c1 = c1
  c2 = c2
  Pecas = {p1, p2}
  Clientes = {c1, c2}
  ComEmail = {c1}
  Formularios <- FormulariosEmDisputa
  Inicial <- EstoqueInicial
  Digitadas = {}
  Falhas = FALSE
  MaxPedidos = 1
  Nenhum = Nenhum
PROPERTIES EdicaoPreservaBaixas
