-------------------------------- MODULE Cpu --------------------------------
(***************************************************************************)
(* A CPU (CPU/src) running one program: the bursts of its main loop, the   *)
(* primitives that the AnSISOP parser calls for each instruction, the      *)
(* stack of contexts they keep in the PCB, the pages of the UMC that the   *)
(* variables live in, and the serialization of the PCB, which carries it   *)
(* to the NUCLEO and to the next CPU (Sockets Maggie, estructurasControl). *)
(*                                                                         *)
(* A CPU is one thread and nobody else touches the pages of its process,   *)
(* so an instruction is one step.  Which instruction is codigo[i] is       *)
(* chosen when it is first run: a run of the model covers every program    *)
(* that Permitidas allows.  The parser is a library; what it calls for     *)
(* each instruction is noted at the action.                                *)
(*                                                                         *)
(* The signals and the messages with the NUCLEO are in the module Nucleo,  *)
(* the frames and the SWAP in Umc and Swap; here the UMC keeps what is     *)
(* written to it.                                                          *)
(***************************************************************************)
EXTENDS Integers, Sequences, SequencesExt

CONSTANTS
  tamanioPag,    \* TAMPAG, the size of a page in bytes
  stack_size,    \* STACK_SIZE, pages
  Indice,        \* instrucciones_serializado: <<start, length>> of each instruction
  Etiquetas,     \* the instruction that each label stands for
  Permitidas,    \* what the program may have as each instruction
  Quantums,      \* the values QUANTUM may have at a dispatch
  MaxContextos,  \* calls under way: the code has no limit
  LIBRE,         \* a context that was freed
  NULO,          \* NULL
  BASURA,        \* the value of a variable that was not assigned yet
  SIN_LEER       \* an instruction that was not chosen yet

Posiciones == 0 .. Len(Indice) - 1

\* Variables are words of 4 bytes, which have to fit a whole number of times in
\* a page: see the hazards.
ASSUME PaginaAssumption == tamanioPag \in Nat \ {0} /\ tamanioPag % 4 = 0
ASSUME StackAssumption == stack_size \in Nat \ {0}
ASSUME IndiceAssumption ==
  /\ Indice \in Seq(Nat \X (Nat \ {0})) /\ Indice # <<>>
  /\ \A i \in 1 .. Len(Indice) - 1 : Indice[i + 1][1] = Indice[i][1] + Indice[i][2]
ASSUME EtiquetasAssumption == Etiquetas \in Seq(Posiciones)
ASSUME QuantumAssumption == Quantums \subseteq Nat \ {0}
ASSUME MaxAssumption == MaxContextos \in Nat \ {0}

VARIABLES
  codigo,              \* the program
  estado,              \* where the process is: "nucleo", "cpu", "fin" or "aborto"
  paquete,             \* the serialized PCB while it is not in a CPU
  cpu,                 \* the CPU's pcb and flags, and the pages of the process
  quantum_aux,         \* instructions left in the burst
  programaBloqueado,
  compartida           \* a shared variable of the NUCLEO

vars == <<codigo, estado, paquete, cpu, quantum_aux, programaBloqueado, compartida>>

-----------------------------------------------------------------------------
(* The pages of a process: its code, rounded up, and its stack.             *)

Tamanio == Indice[Len(Indice)][1] + Indice[Len(Indice)][2]
PaginasDeCodigo == (Tamanio + tamanioPag - 1) \div tamanioPag
Paginas == PaginasDeCodigo + stack_size
var_max == tamanioPag * Paginas - 1

\* The words of the stack, where variables may be.
Celdas == {w \in (PaginasDeCodigo .. Paginas - 1) \X (0 .. tamanioPag - 1) : w[2] % 4 = 0}

Direccion(p, o) == [pagina |-> p, offset |-> o, size |-> 4]

convertirDireccionAPuntero(d) == d.pagina * tamanioPag + d.offset

convertirPunteroADireccion(p) ==
  IF tamanioPag > p THEN Direccion(0, p) ELSE Direccion(p \div tamanioPag, p % tamanioPag)

\* ESCRIBIR and LEER.  What is not a word of the stack is code, another frame or
\* nothing; fuera says that it was written.
Escribe(m, d, v) ==
  IF <<d.pagina, d.offset>> \in Celdas THEN [m EXCEPT !.memoria[<<d.pagina, d.offset>>] = v]
  ELSE [m EXCEPT !.fuera = TRUE]

asignar(m, p, v) == Escribe(m, convertirPunteroADireccion(p), v)

dereferenciar(m, p) ==
  LET d == convertirPunteroADireccion(p)
  IN  IF <<d.pagina, d.offset>> \in Celdas THEN m.memoria[<<d.pagina, d.offset>>] ELSE BASURA

-----------------------------------------------------------------------------
(* Fetching an instruction.                                                 *)

\* The requests leer makes for tamanio bytes: one, or those of two halves when
\* they go past the end of the page.
leer[d \in Nat \X (0 .. tamanioPag - 1) \X Nat] ==
  LET pagina == d[1]
      offset == d[2]
      tamanio == d[3]
      cabe == tamanioPag - offset
  IN  IF tamanio + offset <= tamanioPag THEN <<d>>
      ELSE leer[<<pagina, offset, cabe>>] \o leer[<<pagina + 1, 0, tamanio - cabe>>]

\* A mutant: the second half from the same page.
leerMismaPagina[d \in Nat \X (0 .. tamanioPag - 1) \X Nat] ==
  LET pagina == d[1]
      offset == d[2]
      tamanio == d[3]
      cabe == tamanioPag - offset
  IN  IF tamanio + offset <= tamanioPag THEN <<d>>
      ELSE <<<<pagina, offset, cabe>>>> \o leerMismaPagina[<<pagina, 0, tamanio - cabe>>]

\* crearEstructuraParaUMC: where the instruction at the PCB's pc is.
crearEstructuraParaUMC(m) ==
  <<m.indice[2 * m.pc + 1] \div tamanioPag, m.indice[2 * m.pc + 1] % tamanioPag,
    m.indice[2 * m.pc + 2]>>

PedidosMismaPagina(m) == leerMismaPagina[crearEstructuraParaUMC(m)]
Pedidos(m) == leer[crearEstructuraParaUMC(m)]

\* The bytes of the code, by their place in it, that the answers bring.
Bytes(d) == [j \in 1 .. d[3] |-> d[1] * tamanioPag + d[2] + j - 1]
Sentencia(m) == FlattenSeq([k \in DOMAIN Pedidos(m) |-> Bytes(Pedidos(m)[k])])

\* The bytes of the instruction at position i.
Literal(i) == [j \in 1 .. Indice[i + 1][2] |-> Indice[i + 1][1] + j - 1]

-----------------------------------------------------------------------------
(* The stack.  lista is the C list pcb->contextoActual, of pointers: entry  *)
(* n points to ctx[lista[n]].  sizeContextoActual says how many count.      *)

Actual(m) == m.ctx[m.lista[m.size]]

\* To follow NULL or a freed context is undefined: caida ends the model there.
Vivo(m) == Actual(m) # LIBRE
Cae(m) == [m EXCEPT !.caida = TRUE]

\* proximaDireccion and proximaDireccionArg: the word after an address.
Proxima(d) == IF d.offset + 4 >= tamanioPag THEN Direccion(d.pagina + 1, 0)
              ELSE Direccion(d.pagina, d.offset + 4)

\* list_get gives NULL out of range, and the code follows it.
proximaDireccion(variables, i) ==
  IF i \in DOMAIN variables THEN Proxima(variables[i].direccion) ELSE NULO
proximaDireccionArg(args, i) == IF i \in DOMAIN args THEN Proxima(args[i]) ELSE NULO

\* The word after the last variable of the context below.
TrasElAnterior(m) ==
  IF m.size = 1 \/ m.ctx[m.lista[m.size - 1]] = LIBRE THEN NULO
  ELSE LET anterior == m.ctx[m.lista[m.size - 1]]
       IN  proximaDireccion(anterior.vars, Len(anterior.vars))

\* With an argument already there, its number is looked up in the variables.
armarDireccionDeArgumento(m) ==
  IF Actual(m).args = <<>> THEN TrasElAnterior(m)
  ELSE proximaDireccion(Actual(m).vars, Len(Actual(m).args))

\* A mutant: the arguments are forgotten.
armarDirecccionSinArgumentos(m) == TrasElAnterior(m)

armarDirecccionDeFuncion(m) ==
  IF Actual(m).args = <<>> THEN TrasElAnterior(m)
  ELSE proximaDireccionArg(Actual(m).args, Len(Actual(m).args))

armarProximaDireccion(m) == proximaDireccion(Actual(m).vars, Len(Actual(m).vars))

Digito == [x \in {"0", "1"} |-> IF x = "0" THEN 1 ELSE 2]
EsArgumento(x) == x \in DOMAIN Digito

\* What the parser lets through: a declaration is of a letter and not of an
\* argument, a label is one of the program's, and the program does not run past
\* its end.  A call has at most the arguments that Digito names.
ASSUME PermitidasAssumption ==
  /\ DOMAIN Permitidas = 1 .. Len(Indice)
  /\ \A i \in DOMAIN Permitidas : \A ins \in Permitidas[i] :
       /\ ins.op = "variables" => ~EsArgumento(ins.x)
       /\ ins.op \in {"llama", "goto"} => ins.l \in DOMAIN Etiquetas
       /\ ins.op = "llama" => ins.args \in Seq(STRING) /\ Len(ins.args) <= 2
  /\ \A ins \in Permitidas[Len(Indice)] : ins.op \in {"return", "end", "goto"}

\* The branches of definirVariable.
PrimeraDeTodas(m) == m.size = 1 /\ Actual(m).vars = <<>>

NuevaDireccion(m, x) ==
  IF PrimeraDeTodas(m) THEN Direccion(PaginasDeCodigo, 0)
  ELSE IF EsArgumento(x) THEN armarDireccionDeArgumento(m)
  ELSE IF Actual(m).vars = <<>> THEN armarDirecccionDeFuncion(m)
  ELSE armarProximaDireccion(m)

ConVariable(m, x, d) ==
  LET bloque == m.lista[m.size]
  IN  IF EsArgumento(x) /\ ~PrimeraDeTodas(m) THEN [m EXCEPT !.ctx[bloque].args = Append(@, d)]
      ELSE [m EXCEPT !.ctx[bloque].vars = Append(@, [etiqueta |-> x, direccion |-> d])]

\* A mutant: the last byte of the variable is not counted.
NoEntraElPrimero(d) == convertirDireccionAPuntero(d) > var_max + 1

NoEntra(d) == convertirDireccionAPuntero(d) + 3 > var_max

\* The variable is in the context whether or not there is room for it.  What it
\* is initialised with is an uninitialised int.
definirVariable(m, x) ==
  IF m.caida \/ m.programaAbortado THEN m
  ELSE IF ~Vivo(m) \/ NuevaDireccion(m, x) = NULO THEN Cae(m)
  ELSE LET d == NuevaDireccion(m, x)
       IN  IF NoEntra(d) THEN [ConVariable(m, x, d) EXCEPT !.programaAbortado = TRUE]
           ELSE Escribe(ConVariable(m, x, d), d, BASURA)

\* The pointer that definirVariable returns.
PunteroDefinido(m, x) ==
  IF m.programaAbortado \/ NoEntra(NuevaDireccion(m, x)) THEN 1
  ELSE convertirDireccionAPuntero(NuevaDireccion(m, x))

\* A mutant: the search goes up.
LaPrimera(S) == CHOOSE i \in S : \A j \in S : i <= j

\* The search goes down from the last variable.
LaUltima(S) == CHOOSE i \in S : \A j \in S : j <= i

\* obtenerPosicionVariable in context c: of the variables with that name the
\* last one; -1 when there is none.
Posicion(c, x) ==
  IF EsArgumento(x)
  THEN IF Digito[x] \in DOMAIN c.args THEN convertirDireccionAPuntero(c.args[Digito[x]]) ELSE NULO
  ELSE LET suyas == {i \in DOMAIN c.vars : c.vars[i].etiqueta = x}
       IN  IF suyas = {} THEN -1
           ELSE convertirDireccionAPuntero(c.vars[LaUltima(suyas)].direccion)

\* The machine after obtenerPosicionVariable for each name of a set.
obtenerPosicionVariable(m, nombres) ==
  IF m.caida \/ ~Vivo(m) \/ \E x \in nombres : Posicion(Actual(m), x) = NULO THEN Cae(m)
  ELSE IF \E x \in nombres : Posicion(Actual(m), x) = -1
       THEN [m EXCEPT !.programaAbortado = TRUE]
  ELSE m

Valor(m, x) == dereferenciar(m, Posicion(Actual(m), x))

\* A mutant: as if the pc did not go up after the instruction.
irAlLabelJusto(m, l) == [m EXCEPT !.pc = m.etiquetas[l]]

\* metadata_buscar_etiqueta is the library's.  The pc goes up by one after
\* every instruction; it is unsigned, and 0 - 1 + 1 is 0.
irAlLabel(m, l) == [m EXCEPT !.pc = m.etiquetas[l] - 1]

\* list_add appends to the list, which still has the entries of the contexts
\* that retornar freed in this burst, but the context in force is the one at
\* sizeContextoActual.  They are the same memory if malloc gives the new one
\* (reusa) the block that was freed last, which is the one of the entry that
\* is next.  When the entry in force is another one, the call runs on a context
\* that was freed or is its caller's: perdido records it, for the properties.
llamarConRetorno(m, l, p, reusa) ==
  LET nuevo == [pos |-> m.size, args |-> <<>>, vars |-> <<>>, retPos |-> m.pc,
                retVar |-> convertirPunteroADireccion(p)]
      bloque == IF reusa THEN m.lista[m.size + 1] ELSE Len(m.ctx) + 1
      lista == Append(m.lista, bloque)
      n == [m EXCEPT !.lista = lista, !.size = @ + 1,
                     !.ctx = IF reusa THEN [@ EXCEPT ![bloque] = nuevo] ELSE Append(@, nuevo),
                     !.perdido = @ \/ lista[m.size + 1] # bloque]
  IN  irAlLabel(n, l)

\* The context is freed, its entry in the list is not taken out.
retornar(m, v) ==
  [asignar(m, convertirDireccionAPuntero(Actual(m).retVar), v) EXCEPT
     !.pc = Actual(m).retPos,
     !.ctx[m.lista[m.size]] = LIBRE,
     !.size = m.size - 1]

-----------------------------------------------------------------------------
(* The PCB as it travels.  An element of the packet is a struct or an int.  *)

Contextos(m) == [i \in 1 .. m.size |-> m.ctx[m.lista[i]]]

\* An address of a variable goes field by field, in another order than the
\* struct's.
SerializarVariable(v) == <<v.etiqueta, v.direccion.offset, v.direccion.size, v.direccion.pagina>>

SerializarContexto(c) ==
  <<[pos |-> c.pos, retPos |-> c.retPos, retVar |-> c.retVar,
     sizeArgs |-> Len(c.args), sizeVars |-> Len(c.vars)]>>
    \o c.args
    \o FlattenSeq([y \in DOMAIN c.vars |-> SerializarVariable(c.vars[y])])

\* The first loop of serializarPCB, which counts.
sizeTotal(m) ==
  LET hasta[i \in 0 .. m.size] ==
        IF i = 0 THEN 1 + Len(m.indice) + Len(m.etiquetas)
        ELSE LET c == Contextos(m)[i] IN hasta[i - 1] + 1 + Len(c.args) + 4 * Len(c.vars)
  IN  hasta[m.size]

serializarPCB(m) ==
  <<[pc |-> m.pc, sizeContextoActual |-> m.size, sizeIndiceDeCodigo |-> Len(m.indice) \div 2,
     sizeIndiceDeEtiquetas |-> Len(m.etiquetas), sizeTotal |-> sizeTotal(m)]>>
    \o m.indice \o m.etiquetas
    \o FlattenSeq([i \in 1 .. m.size |-> SerializarContexto(Contextos(m)[i])])

\* A mutant: the fields in the order of the struct.
DesserializarEnOrden(b, n) == [pagina |-> b[n + 1], offset |-> b[n + 2], size |-> b[n + 3]]

DesserializarDireccion(b, n) == [offset |-> b[n + 1], size |-> b[n + 2], pagina |-> b[n + 3]]

\* The context that is in packet b from place n on.
DesserializarContexto(b, n) ==
  LET c == b[n]
      enVars(y) == n + c.sizeArgs + 4 * (y - 1) + 1
  IN  [pos |-> c.pos, retPos |-> c.retPos, retVar |-> c.retVar,
       args |-> SubSeq(b, n + 1, n + c.sizeArgs),
       vars |-> [y \in 1 .. c.sizeVars |-> [etiqueta |-> b[enVars(y)],
                                            direccion |-> DesserializarDireccion(b, enVars(y))]]]

\* The part of a machine that is the PCB, rebuilt from packet b with a list of
\* its own.  Each context begins where the one before it ends.
desserializarPCB(m, b) ==
  LET p == b[1]
      tras == 1 + 2 * p.sizeIndiceDeCodigo
      donde[i \in 1 .. p.sizeContextoActual] ==
        IF i = 1 THEN tras + p.sizeIndiceDeEtiquetas + 1
        ELSE LET n == donde[i - 1] IN n + 1 + b[n].sizeArgs + 4 * b[n].sizeVars
  IN  [m EXCEPT !.pc = p.pc,
                !.indice = SubSeq(b, 2, tras),
                !.etiquetas = SubSeq(b, tras + 1, tras + p.sizeIndiceDeEtiquetas),
                !.size = p.sizeContextoActual,
                !.lista = [i \in 1 .. p.sizeContextoActual |-> i],
                !.ctx = [i \in 1 .. p.sizeContextoActual |-> DesserializarContexto(b, donde[i])]]

\* destruirPCB.
SinPCB(m) == [m EXCEPT !.pc = 0, !.indice = <<>>, !.etiquetas = <<>>, !.size = 0,
                       !.lista = <<>>, !.ctx = <<>>]

\* mandarCodigoAUmc: the PCB of a new process and its pages.
PCBInicial ==
  [pc |-> 0,
   indice |-> FlattenSeq(Indice),
   etiquetas |-> Etiquetas,
   size |-> 1,
   lista |-> <<1>>,
   ctx |-> <<[pos |-> 0, args |-> <<>>, vars |-> <<>>, retPos |-> 0, retVar |-> Direccion(0, 0)]>>,
   memoria |-> [w \in Celdas |-> BASURA],
   fuera |-> FALSE,
   programaAbortado |-> FALSE,
   perdido |-> FALSE,
   caida |-> FALSE]

Init == /\ codigo = [i \in Posiciones |-> SIN_LEER]
        /\ estado = "nucleo"
        /\ paquete = serializarPCB(PCBInicial)
        /\ cpu = SinPCB(PCBInicial)
        /\ quantum_aux = 0
        /\ programaBloqueado = FALSE
        /\ compartida = BASURA

-----------------------------------------------------------------------------
(* The main loop.                                                           *)

\* A PCB arrives, with the quantum of the moment.
Recibe ==
  /\ estado = "nucleo"
  /\ cpu' = [desserializarPCB(cpu, paquete) EXCEPT !.programaAbortado = FALSE]
  /\ quantum_aux' \in Quantums
  /\ programaBloqueado' = FALSE
  /\ estado' = "cpu"
  /\ paquete' = <<>>
  /\ UNCHANGED <<codigo, compartida>>

Sigue ==
  /\ estado = "cpu"
  /\ ~cpu.caida
  /\ quantum_aux # 0 /\ ~programaBloqueado /\ ~cpu.programaAbortado

\* The CPU fetches ins and runs it, with n as what its primitives leave.  A
\* program does not return from main, nor run past its end.
Ejecuta(ins, n) ==
  /\ Sigue
  /\ \E i \in Posiciones :
       /\ ins \in Permitidas[i + 1]
       /\ codigo[i] \in {SIN_LEER, ins}
       /\ Literal(i) = Sentencia(cpu)
       /\ codigo' = [codigo EXCEPT ![i] = ins]
  /\ cpu' = [n EXCEPT !.pc = @ + 1]
  /\ quantum_aux' = quantum_aux - 1
  /\ UNCHANGED <<estado, paquete>>

Nada == UNCHANGED <<programaBloqueado, compartida>>

\* variables x.
Variables(ins) ==
  /\ ins.op = "variables"
  /\ Ejecuta(ins, definirVariable(cpu, ins.x))
  /\ Nada

\* x = v, with the position of x; and x = y.
ConAsigna(m, x, v) ==
  LET n == obtenerPosicionVariable(m, {x})
  IN  IF n.caida THEN n ELSE asignar(n, Posicion(Actual(n), x), v)

ConCopia(m, x, y) ==
  LET n == obtenerPosicionVariable(m, {y})
  IN  IF n.caida THEN n ELSE ConAsigna(n, x, Valor(n, y))

\* x = v.
AsignaValor(ins) ==
  /\ ins.op = "valor"
  /\ Ejecuta(ins, ConAsigna(cpu, ins.x, ins.v))
  /\ Nada

\* x = y.
Copia(ins) ==
  /\ ins.op = "copia"
  /\ Ejecuta(ins, ConCopia(cpu, ins.x, ins.y))
  /\ Nada

\* x = !s: obtenerValorCompartida asks the NUCLEO (351) for the value.
LeeCompartida(ins) ==
  /\ ins.op = "lee"
  /\ Ejecuta(ins, ConAsigna(cpu, ins.x, compartida))
  /\ Nada

\* !s = y: asignarValorCompartida sends it (350).
EscribeCompartida(ins) ==
  /\ ins.op = "escribe"
  /\ LET n == obtenerPosicionVariable(cpu, {ins.y})
     IN  /\ Ejecuta(ins, n)
         /\ compartida' = IF n.caida THEN compartida ELSE Valor(n, ins.y)
  /\ UNCHANGED programaBloqueado

\* The argument of number k is defined and gets v.
ConArgumento(m, k, v) ==
  LET x == CHOOSE z \in DOMAIN Digito : Digito[z] = k
      n == definirVariable(m, x)
  IN  IF n.caida THEN n ELSE asignar(n, PunteroDefinido(m, x), v)

\* The parser asks for x and for the values of args, calls llamarConRetorno, and
\* then defines and assigns each argument.
ConLlamada(m, ins, reusa) ==
  LET n == obtenerPosicionVariable(m, {ins.x} \cup ToSet(ins.args))
      funcion == llamarConRetorno(n, ins.l, Posicion(Actual(n), ins.x), reusa)
      con[k \in 0 .. Len(ins.args)] ==
        IF k = 0 THEN funcion ELSE ConArgumento(con[k - 1], k, Valor(n, ins.args[k]))
  IN  IF n.caida THEN n ELSE con[Len(ins.args)]

\* x <- f args.
Llama(ins) ==
  /\ ins.op = "llama"
  /\ cpu.size < MaxContextos
  /\ \E reusa \in BOOLEAN :
       /\ reusa => /\ cpu.size < Len(cpu.lista)
                   /\ cpu.ctx[cpu.lista[cpu.size + 1]] = LIBRE
       /\ Ejecuta(ins, ConLlamada(cpu, ins, reusa))
  /\ Nada

\* return y.
Retorna(ins) ==
  /\ ins.op = "return"
  /\ cpu.size > 1
  /\ LET n == obtenerPosicionVariable(cpu, {ins.y})
     IN  Ejecuta(ins, IF n.caida THEN n ELSE retornar(n, Valor(n, ins.y)))
  /\ Nada

\* goto l.
Salta(ins) ==
  /\ ins.op = "goto"
  /\ Ejecuta(ins, irAlLabel(cpu, ins.l))
  /\ Nada

\* wait_kernel, whose answer says if it blocks, and entradaSalida, which always
\* does.
Espera(ins) ==
  /\ ins.op = "wait"
  /\ Ejecuta(ins, cpu)
  /\ programaBloqueado' \in BOOLEAN
  /\ UNCHANGED compartida

\* end: finalizar frees the context in force and destruirPCB the others.  What
\* the loop does next to the freed PCB nobody reads.
Finaliza(ins) ==
  /\ ins.op = "end"
  /\ Sigue
  /\ \E i \in Posiciones :
       /\ ins \in Permitidas[i + 1]
       /\ codigo[i] \in {SIN_LEER, ins}
       /\ Literal(i) = Sentencia(cpu)
       /\ codigo' = [codigo EXCEPT ![i] = ins]
  /\ cpu' = IF Vivo(cpu) THEN SinPCB(cpu) ELSE Cae(cpu)
  /\ estado' = IF Vivo(cpu) THEN "fin" ELSE estado
  /\ UNCHANGED <<paquete, quantum_aux>>
  /\ Nada

Termino == programaBloqueado \/ cpu.programaAbortado \/ quantum_aux = 0

\* The burst is over: the PCB goes back with a 340, 370 or 304.  Following the
\* entries of the list the CPU may meet a context that was freed.
Entrega ==
  /\ estado = "cpu" /\ ~cpu.caida
  /\ Termino
  /\ \/ /\ \E i \in 1 .. cpu.size : Contextos(cpu)[i] = LIBRE
        /\ cpu' = Cae(cpu)
        /\ UNCHANGED <<estado, paquete>>
     \/ /\ \A i \in 1 .. cpu.size : Contextos(cpu)[i] # LIBRE
        /\ paquete' = SubSeq(serializarPCB(cpu), 1, sizeTotal(cpu))
        /\ estado' = IF cpu.programaAbortado THEN "aborto" ELSE "nucleo"
        /\ cpu' = SinPCB(cpu)
  /\ UNCHANGED <<codigo, quantum_aux, programaBloqueado, compartida>>

Instrucciones == UNION {Permitidas[i] : i \in DOMAIN Permitidas}

Next ==
  \/ Recibe
  \/ \E ins \in Instrucciones :
       \/ Variables(ins) \/ AsignaValor(ins) \/ Copia(ins) \/ LeeCompartida(ins)
       \/ EscribeCompartida(ins) \/ Llama(ins) \/ Retorna(ins) \/ Salta(ins) \/ Espera(ins)
       \/ Finaliza(ins)
  \/ Entrega

Spec == Init /\ [][Next]_vars

-----------------------------------------------------------------------------
(* Properties.                                                              *)

Direcciones == [pagina : 0 .. Paginas, offset : -1 .. tamanioPag - 1, size : {4}]

Letras == {ins.x : ins \in {i \in Instrucciones : i.op = "variables"}}

Contexto == [pos : Nat, args : Seq(Direcciones),
             vars : Seq([etiqueta : Letras, direccion : Direcciones]),
             retPos : Posiciones, retVar : Direcciones]

ASSUME LibreAssumption == LIBRE \notin Contexto

\* The type of the CPU's state: a PCB that is running has its pc in the program,
\* after any jump, call or return, its lists agree with their lengths, and there
\* is a packet exactly while the PCB is out of the CPU.
TypeOK ==
  /\ codigo \in [Posiciones -> Instrucciones \cup {SIN_LEER}]
  /\ estado \in {"nucleo", "cpu", "fin", "aborto"}
  /\ paquete # <<>> <=> estado \in {"nucleo", "aborto"}
  /\ quantum_aux \in Nat /\ \E q \in Quantums \cup {0} : quantum_aux <= q
  /\ programaBloqueado \in BOOLEAN
  /\ cpu.size \in 0 .. MaxContextos /\ cpu.size <= Len(cpu.lista)
  /\ \A n \in DOMAIN cpu.lista : cpu.lista[n] \in DOMAIN cpu.ctx
  /\ cpu.ctx \in Seq(Contexto \cup {LIBRE})
  /\ DOMAIN cpu.memoria = Celdas
  /\ estado = "cpu" /\ ~cpu.caida => cpu.pc \in Posiciones

\* The addresses of a context: of its arguments, then of its variables.
SusDirecciones(c) == c.args \o [y \in DOMAIN c.vars |-> c.vars[y].direccion]

\* Two variables never share a word, in one context or in two of them, not even
\* after calls that returned: from the bottom of the stack up, the addresses only
\* grow, and they stay in the pages of the stack (definirVariable and the
\* functions that give it an address).
PilaOrdenada ==
  estado = "cpu" /\ ~cpu.caida /\ ~cpu.perdido /\ ~cpu.programaAbortado =>
    LET todas == FlattenSeq([i \in 1 .. cpu.size |-> SusDirecciones(Contextos(cpu)[i])])
    IN  /\ \A n \in DOMAIN todas : <<todas[n].pagina, todas[n].offset>> \in Celdas
        /\ \A n \in 1 .. Len(todas) - 1 :
             convertirDireccionAPuntero(todas[n]) < convertirDireccionAPuntero(todas[n + 1])

\* The primitives write through whatever pointer they got, also the -1 of a name
\* that was not declared and the 1 of an argument there was no room for: a
\* process that wrote outside its stack is not run any more.
FueraSoloAbortado == cpu.fuera => estado = "aborto" \/ cpu.programaAbortado \/ cpu.caida

\* A PCB survives its trip: packed when the burst ends at this instruction and
\* unpacked in another CPU it is the same, and it takes the bytes that were
\* counted for it (serializarPCB and desserializarPCB).
IdaYVuelta ==
  estado = "cpu" /\ ~cpu.caida /\ (\A i \in 1 .. cpu.size : Contextos(cpu)[i] # LIBRE) =>
    LET llega == desserializarPCB(SinPCB(cpu), serializarPCB(cpu))
    IN  /\ Contextos(llega) = Contextos(cpu)
        /\ llega.pc = cpu.pc /\ llega.indice = cpu.indice /\ llega.etiquetas = cpu.etiquetas
        /\ Len(serializarPCB(cpu)) = sizeTotal(cpu)

\* What is run is the instruction at pc and no other bytes, also when it goes past
\* the end of one page or of several; and no request to the UMC goes past the end
\* of its page or of the code (leer).
LeerExacta ==
  Sigue =>
    /\ Sentencia(cpu) = Literal(cpu.pc)
    /\ \A k \in DOMAIN Pedidos(cpu) :
         /\ Pedidos(cpu)[k][1] < PaginasDeCodigo
         /\ Pedidos(cpu)[k][2] + Pedidos(cpu)[k][3] <= tamanioPag

=============================================================================
