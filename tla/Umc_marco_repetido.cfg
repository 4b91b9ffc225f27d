SPECIFICATION Spec
CONSTANTS
  CPUs <- DosCPUs
  Pids <- DosPids
  CantidadPaginas = 3
  cantidad_marcos = 2
  cantidad_maxima_marcos = 2
  entradas_TLB = 1
  Algoritmos <- LosDosAlgoritmos
  Accesos <- AccesosDeDos
  Flusheables = {}
  FallasSolapadas = TRUE
  NADIE = NADIE
  BASURA = BASURA
  k1 = k1
  k2 = k2
  p1 = p1
  p2 = p2
  p3 = p3
SYMMETRY Simetria
INVARIANT MarcoParaUno
CHECK_DEADLOCK FALSE
