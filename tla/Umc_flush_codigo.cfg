SPECIFICATION Spec
CONSTANTS
  CPUs <- UnaCPU
  Pids <- DosPids
  CantidadPaginas = 3
  cantidad_marcos = 2
  cantidad_maxima_marcos = 2
  entradas_TLB = 1
  Algoritmos <- LosDosAlgoritmos
  Accesos <- AccesosDeDos
  Flusheables <- SoloElPrimero
  FallasSolapadas = FALSE
  NADIE = NADIE
  BASURA = BASURA
  k1 = k1
  k2 = k2
  p1 = p1
  p2 = p2
  p3 = p3
INVARIANT CodigoIntacto
CHECK_DEADLOCK FALSE
