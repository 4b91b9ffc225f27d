SPECIFICATION Spec
CONSTANTS
  tamanioPag = 8
  stack_size = 3
  Indice <- MCIndice
  Etiquetas <- MCEtiquetas
  Permitidas <- MCPermitidas
  Quantums = {1, 5}
  MaxContextos = 4
  LIBRE = LIBRE
  NULO = NULO
  BASURA = BASURA
  SIN_LEER = SIN_LEER
INVARIANTS
  TypeOK
  PilaOrdenada
  FueraSoloAbortado
  IdaYVuelta
  LeerExacta
PROPERTY
  ImplementaPrograma
CHECK_DEADLOCK FALSE
