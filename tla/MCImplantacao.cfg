CONSTANTS
  Usuarios = {u1}
  Servidores = {l1, l2}
  Lancamentos = {l1, l2}
  MaxSalvos = 2
  MaxTrocas = 2
  MaxTentativas = 1
  MaxFechados = 1
  Nada = Nada
SPECIFICATION Spec
SYMMETRY Simetria
CHECK_DEADLOCK FALSE
INVARIANTS TypeOK GravaNaMinha SumicoExplicado UmServidorPorPorta
