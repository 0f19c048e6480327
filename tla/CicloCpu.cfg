CONSTANTS
  p1 = p1
  Procesos = {p1, p2}
  NULO = NULO
  Programas <- ProgramasMC
  Ancho8 = 8
  Ancho32 = 16
  ConQuantum = TRUE
  MaxSExit = 2
  MaxInterrup = 1
  MaxFinalizar = 1
CHECK_DEADLOCK FALSE
SPECIFICATION SpecJusta
CONSTRAINT Reparto
INVARIANTS TypeOK EnSintonia BanderasBajas
PROPERTIES ContextoIntacto InterrupcionDesaloja
