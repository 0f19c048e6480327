CONSTANTS
  Pids = {p1, p2}
  NULO = NULO
  CantMarcos = 3
  TamPagina = 2
  Tamanios = {0, 1, 3, 4, 7}
  Paginas = {0}
CHECK_DEADLOCK FALSE
SPECIFICATION Spec
SYMMETRY Simetria
INVARIANTS TypeOK MarcoExclusivo MarcoEnUsoOcupado ExitosoAlcanza
