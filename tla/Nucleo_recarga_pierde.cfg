SPECIFICATION Spec
CONSTANTS
  Consolas <- UnaConsola
  CPUs <- UnaCPU
  NSem = 1
  NIO = 0
  SEM_INIT <- SemCero
  Unidades = {1}
  Manejadores = {main}
  PCP = PCP
  MAIN = main
  NULO = NULO
  Primitivas = {"341"}
  MaxLlamadas = 1
  MaxRecargas = 1
  ConsolasQueCierran = {}
  CPUsConSenial = {}
  CPUsConInt = {}
  CPUsQueCaen = {}
  c1 = c1
  c2 = c2
  c3 = c3
  k1 = k1
  k2 = k2
  main = main
PROPERTIES
  RecargaEnVacio
CHECK_DEADLOCK FALSE
