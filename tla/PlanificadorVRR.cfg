CONSTANTS
  Procesos = {p1, p2}
  NULO = NULO
  Interfaces = {i1}
  Algoritmo = "VRR"
  Grado = 2
  MaxIO = 1
  MaxQuanta = 0
  MaxPausas = 0
CHECK_DEADLOCK FALSE
SPECIFICATION Spec
SYMMETRY Simetria
INVARIANTS TypeOK UnaSolaCustodia ContadorRespaldado CpuExclusiva VrrNuncaEsperaEnVano
