SPECIFICATION Spec
CONSTANTS
  Pecas = {p1, p2}
  SemPeca = SemPeca
  Quantidades = {1, 2}
  MaxLinhas = 3
  MaxBuracos = 2
INVARIANTS TypeOK PerdaLimitada NadaMisturado
