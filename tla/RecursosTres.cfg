CONSTANTS
  RA = RA
  RB = RB
  RX = RX
  Procesos = {p1, p2, p3}
  NULO = NULO
  Recursos = {RA}
  Instancias <- InstanciasMC
  Programas <- UnoSolo
  Grado = 3
  NuevosGrados = {1, 3}
  MaxFinalizar = 0
  MaxCambios = 0
CHECK_DEADLOCK FALSE
SPECIFICATION SpecJusta
INVARIANTS OrdenDeDespertar
PROPERTY TodosTerminan
