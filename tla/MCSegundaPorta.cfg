CONSTANTS
  Lancamentos = {l1, l2}
  MaxTentativas = 2
  MaxFechados = 1
SPECIFICATION SpecIniciador
CHECK_DEADLOCK FALSE
PROPERTIES TentaSegundaPorta
