SPECIFICATION Spec
CONSTANTS
  Sessoes = {s1, s2}
  p1 = p1
  p2 = p2
  c1 = c1
  c2 = c2
  p9 = p9
  Pecas = {p1, p2}
  Outras = {p9}
  Clientes = {c1, c2}
  ComEmail = {c1}
  Precos = {1, 4}
  Formularios <- FormulariosVariados
  MaxPedidos = 2
  Nenhum = Nenhum
INVARIANTS TypeOK UmPreco  SalvoSeHouveBanco
SYMMETRY Simetria
