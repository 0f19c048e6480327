CONSTANTS
  Procesos = {p1, p2}
  NULO = NULO
  Interfaces = {i1}
  Algoritmo = "RR"
  Grado = 2
  MaxIO = 0
  MaxQuanta = 1
  MaxPausas = 1
CHECK_DEADLOCK FALSE
SPECIFICATION Spec
SYMMETRY Simetria
INVARIANT GradoConservado
PROPERTY CumpleDiagrama
