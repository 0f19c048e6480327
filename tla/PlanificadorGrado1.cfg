CONSTANTS
  Procesos = {p1, p2}
  NULO = NULO
  Interfaces = {i1}
  Algoritmo = "FIFO"
  Grado = 1
  MaxIO = 1
  MaxQuanta = 0
  MaxPausas = 0
CHECK_DEADLOCK FALSE
SPECIFICATION SpecJusta
INVARIANTS PidPropio SinCpuDuranteIO
PROPERTIES TodoProcesoTermina CumpleDiagrama
