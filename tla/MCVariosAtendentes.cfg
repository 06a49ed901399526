SPECIFICATION Spec
CONSTANTS
  Sessoes = {s1, s2}
  Editores = {}
  Atendentes = {a1, a2}
  p1 = p1
  p2 = p2
  c1 = c1
  c2 = c2
  Pecas = {p1, p2}
  Clientes = {c1, c2}
  ComEmail = {c1}
  Formularios <- FormulariosEmDisputa
  Inicial <- EstoqueEscasso
  Digitadas = {}
  Falhas = FALSE
  MaxPedidos = 4
  Nenhum = Nenhum
INVARIANTS ContasFecham DescobertoLimitado MensagemVerdadeira
PROPERTIES TelaNaoRetrocede AceitoFicaRegistrado
CHECK_DEADLOCK FALSE
