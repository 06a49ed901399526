SPECIFICATION Spec
CONSTANTS
  Sessoes = {s1, s2}
  Atendentes = 2
  Emails = {e1}
  Dados = {d1, d2}
  Grupos <- GruposPequenos
  MaxLinhas = 2
  MaxPedidos = 2
  Nenhum = Nenhum
INVARIANTS TypeOK AvisoDoGravado UltimoAvisoVale SolicitacaoEncontrada
PROPERTIES SoMudaOQueFoiMudado ConcluidaFica
SYMMETRY Simetria
