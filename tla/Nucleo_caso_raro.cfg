SPECIFICATION Spec
CONSTANTS
  Consolas <- DosConsolas
  CPUs <- UnaCPU
  NSem = 0
  NIO = 1
  SEM_INIT <- SemCero
  Unidades = {1}
  Manejadores = {main}
  PCP = PCP
  MAIN = main
  NULO = NULO
  Primitivas = {}
  MaxLlamadas = 2
  MaxRecargas = 0
  ConsolasQueCierran <- DosConsolas
  CPUsConSenial = {}
  CPUsConInt = {}
  CPUsQueCaen = {}
  c1 = c1
  c2 = c2
  c3 = c3
  k1 = k1
  k2 = k2
  main = main
INVARIANTS
  SinCasoRaro
CHECK_DEADLOCK FALSE
