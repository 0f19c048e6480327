CONSTANTS
  Procesos = {p1, p2}
  Modulos = {m1, m2}
  NULO = NULO
  Nombres = {A}
  Dialfs = {}
  MaxPedidos = 1
  MaxCaidas = 1
CHECK_DEADLOCK FALSE
SPECIFICATION SpecJusta
PROPERTY PedidoConcluido
