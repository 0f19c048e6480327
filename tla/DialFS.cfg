CONSTANTS
  Archivos = {a1, a2, a3}
  NBloques = 4
  TamBloque = 2
  Tamanios = {0, 1, 5}
  MaxLista = 3
SPECIFICATION DialSpec
SYMMETRY Simetria
CONSTRAINT Cota
INVARIANT TypeOK
PROPERTIES CompactarConserva LosDemasRespetan PisaUnBloque
CHECK_DEADLOCK FALSE
