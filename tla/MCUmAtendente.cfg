SPECIFICATION Spec
CONSTANTS
  Sessoes = {s1, s2}
  Editores = {s1}
  Atendentes = {a1}
  p1 = p1
  p2 = p2
  c1 = c1
  c2 = c2
  Pecas = {p1, p2}
  Clientes = {c1, c2}
  ComEmail = {c1}
  Formularios <- FormulariosDistintos
  Inicial <- EstoqueInicial
  Digitadas = {2}
  Falhas = TRUE
  MaxPedidos = 3
  Nenhum = Nenhum
INVARIANTS TypeOK EstoqueNaoNegativo ServicoTemBaixa MensagemVerdadeira EmailSoDeServico
PROPERTIES ServicoAtomico
