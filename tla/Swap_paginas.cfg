SPECIFICATION SpecJusta
CONSTANTS
  Pids <- TresPids
  CANTIDAD_PAGINAS = 5
  Codigos <- CodigosCortos
  Valores <- DosValores
  BASURA = BASURA
  NADIE = NADIE
  p1 = p1
  p2 = p2
  p3 = p3
  a = a
  b = b
INVARIANTS
  TypeOK
  Contiguos
PROPERTIES
  ImplementaAlmacen
  CompactacionTermina
