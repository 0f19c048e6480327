CONSTANTS
  RA = RA
  RB = RB
  RX = RX
  Procesos = {p1, p2}
  NULO = NULO
  Recursos = {RA, RB}
  Instancias <- InstanciasMC
  Programas <- ProgramasMC
  Grado = 2
  NuevosGrados = {1, 3}
  MaxFinalizar = 1
  MaxCambios = 1
CHECK_DEADLOCK FALSE
SPECIFICATION Spec
INVARIANTS TypeOK InstanciasContadas NadieOlvidado ExclusionSinSignal GradoContado
