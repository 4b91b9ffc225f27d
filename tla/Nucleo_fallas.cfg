SPECIFICATION Spec
CONSTANTS
  Consolas <- DosConsolas
  CPUs <- UnaCPU
  NSem = 1
  NIO = 1
  SEM_INIT <- SemCero
  Unidades = {1}
  Manejadores = {main}
  PCP = PCP
  MAIN = main
  NULO = NULO
  Primitivas = {"341", "343", "350", "351", "360", "380"}
  MaxLlamadas = 1
  MaxRecargas = 0
  ConsolasQueCierran = {c1}
  CPUsConSenial = {k1}
  CPUsConInt = {k1}
  CPUsQueCaen = {k1}
  c1 = c1
  c2 = c2
  c3 = c3
  k1 = k1
  k2 = k2
  main = main
INVARIANTS
  UnSoloLugar
  FinalizadoUnaVez
CHECK_DEADLOCK FALSE
