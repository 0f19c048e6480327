CONSTANTS
  Procesos = {p1, p2}
  Modulos = {m1, m2}
  NULO = NULO
  Nombres = {A, B}
  Dialfs = {m2}
  MaxPedidos = 1
  MaxCaidas = 1
CHECK_DEADLOCK FALSE
SPECIFICATION Spec
SYMMETRY Simetria
INVARIANTS TypeOK SiempreHayPedido UnSoloLugar DialogoSinPerderse EnSuInterfaz
