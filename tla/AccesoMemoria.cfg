CONSTANTS
  Pids = {p1, p2}
  NULO = NULO
  CantMarcos = 2
  TamPagina = 2
  EntradasTlb = 2
  Algoritmo = "LRU"
  Byte = {BLANCO, CERO}
  BLANCO = BLANCO
  CERO = CERO
  Dirs = {1, 2}
  Largos = {2}
  Tamanios = {2, 4}
  MaxIO = 1
CHECK_DEADLOCK FALSE
SPECIFICATION Spec
INVARIANTS TypeOK TlbCoherente
PROPERTY CadaUnoSuMemoria
SYMMETRY Simetria
