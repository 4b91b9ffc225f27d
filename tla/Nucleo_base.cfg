SPECIFICATION Spec
CONSTANTS
  Consolas <- TresConsolas
  CPUs <- DosCPUs
  NSem = 1
  NIO = 0
  SEM_INIT <- SemCero
  Unidades = {1}
  Manejadores = {main}
  PCP = PCP
  MAIN = main
  NULO = NULO
  Primitivas = {"341", "343"}
  MaxLlamadas = 1
  MaxRecargas = 0
  ConsolasQueCierran = {}
  CPUsConSenial = {}
  CPUsConInt = {}
  CPUsQueCaen = {}
  c1 = c1
  c2 = c2
  c3 = c3
  k1 = k1
  k2 = k2
  main = main
SYMMETRY SimetriaTotal
INVARIANTS
  TypeOK
  TokensCoinciden
  CPUDisponible
PROPERTIES
  RefinaProcesos
CHECK_DEADLOCK FALSE
