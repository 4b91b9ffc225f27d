------------------------------ MODULE Programa ------------------------------
(***************************************************************************)
(* What an AnSISOP program means, whatever CPU runs it and wherever it is  *)
(* interrupted: a stack of calls, each with its variables and arguments,   *)
(* and a program counter.  There are no addresses, no pages, no bursts and *)
(* no copies of the PCB here; those are the business of Cpu.               *)
(*                                                                         *)
(* The program is any: codigo[i] is chosen when it is first reached.       *)
(***************************************************************************)
EXTENDS Integers, Sequences

CONSTANTS
  Posiciones,     \* positions of the instructions of the program
  Instrucciones,  \* what may be in them
  Etiquetas,      \* the instruction each label stands for
  Digito,         \* the number of each argument's name ("0" is the first)
  BASURA,         \* the value of what was not assigned yet
  SIN_LEER        \* an instruction not chosen yet

VARIABLES
  codigo,      \* the program
  pila,        \* its calls, the one under way last
  pc,          \* the instruction to run
  estado,      \* "corre", "fin", "aborto" or "caida"
  compartida   \* the shared variable

vars == <<codigo, pila, pc, estado, compartida>>

Llamada(vuelve, destino, args) ==
  [vars |-> [x \in {} |-> BASURA], args |-> args, vuelve |-> vuelve, destino |-> destino]

Init == /\ codigo = [i \in Posiciones |-> SIN_LEER]
        /\ pila = <<Llamada(0, BASURA, <<>>)>>
        /\ pc = 0
        /\ estado = "corre"
        /\ compartida = BASURA

Actual == pila[Len(pila)]
EsArgumento(x) == x \in DOMAIN Digito

Definida(f, x) == IF EsArgumento(x) THEN Digito[x] \in DOMAIN f.args ELSE x \in DOMAIN f.vars
Valor(f, x) == IF EsArgumento(x) THEN f.args[Digito[x]] ELSE f.vars[x]

Pone(f, x, v) ==
  IF EsArgumento(x) THEN [f EXCEPT !.args[Digito[x]] = v]
  ELSE [f EXCEPT !.vars = [z \in DOMAIN f.vars \cup {x} |-> IF z = x THEN v ELSE f.vars[z]]]

EnActual(f) == [pila EXCEPT ![Len(pila)] = f]

\* The instruction at pc is ins.
Sentencia(ins) ==
  /\ estado = "corre"
  /\ codigo[pc] \in {SIN_LEER, ins}
  /\ codigo' = [codigo EXCEPT ![pc] = ins]

\* A declaration, also of a name that already has one.
Variables(ins) ==
  /\ ins.op = "variables"
  /\ pila' = EnActual(Pone(Actual, ins.x, BASURA))
  /\ pc' = pc + 1
  /\ UNCHANGED <<estado, compartida>>

\* x = v, x = y, x = !s.
Asignacion(ins) ==
  /\ ins.op \in {"valor", "copia", "lee"}
  /\ Definida(Actual, ins.x)
  /\ \/ ins.op = "valor" /\ pila' = EnActual(Pone(Actual, ins.x, ins.v))
     \/ /\ ins.op = "copia" /\ Definida(Actual, ins.y)
        /\ pila' = EnActual(Pone(Actual, ins.x, Valor(Actual, ins.y)))
     \/ ins.op = "lee" /\ pila' = EnActual(Pone(Actual, ins.x, compartida))
  /\ pc' = pc + 1
  /\ UNCHANGED <<estado, compartida>>

\* !s = y.
Comparte(ins) ==
  /\ ins.op = "escribe"
  /\ Definida(Actual, ins.y)
  /\ compartida' = Valor(Actual, ins.y)
  /\ pc' = pc + 1
  /\ UNCHANGED <<pila, estado>>

\* x <- f args.
Llama(ins) ==
  /\ ins.op = "llama"
  /\ Definida(Actual, ins.x)
  /\ \A k \in DOMAIN ins.args : Definida(Actual, ins.args[k])
  /\ pila' = Append(pila, Llamada(pc + 1, ins.x,
                                  [k \in DOMAIN ins.args |-> Valor(Actual, ins.args[k])]))
  /\ pc' = Etiquetas[ins.l]
  /\ UNCHANGED <<estado, compartida>>

\* return y: the caller's variable gets the value, and the caller goes on.
Retorna(ins) ==
  /\ ins.op = "return"
  /\ Len(pila) > 1
  /\ Definida(Actual, ins.y)
  /\ LET llamador == pila[Len(pila) - 1]
     IN  pila' = Append(SubSeq(pila, 1, Len(pila) - 2),
                        Pone(llamador, Actual.destino, Valor(Actual, ins.y)))
  /\ pc' = Actual.vuelve
  /\ UNCHANGED <<estado, compartida>>

Salta(ins) ==
  /\ ins.op = "goto"
  /\ pc' = Etiquetas[ins.l]
  /\ UNCHANGED <<pila, estado, compartida>>

\* wait, signal, input and output: nothing of the program's own changes.
Espera(ins) ==
  /\ ins.op = "wait"
  /\ pc' = pc + 1
  /\ UNCHANGED <<pila, estado, compartida>>

Deja(como) == estado' = como /\ pila' = <<>> /\ pc' = 0

Termina(ins) == ins.op = "end" /\ Deja("fin") /\ UNCHANGED compartida

\* The variables an instruction needs.
Usa(ins) ==
  (IF ins.op \in {"valor", "copia", "lee", "llama"} THEN {ins.x} ELSE {})
    \cup (IF ins.op \in {"copia", "escribe", "return"} THEN {ins.y} ELSE {})
    \cup (IF ins.op = "llama" THEN {ins.args[k] : k \in DOMAIN ins.args} ELSE {})

\* A program is aborted for nothing but a variable that it did not declare or a
\* declaration there was no room for.
Aborta(ins) ==
  /\ \/ \E x \in Usa(ins) : ~Definida(Actual, x)
     \/ ins.op = "variables"
     \/ ins.op = "llama" /\ ins.args # <<>>
  /\ Deja("aborto")
  /\ ins.op = "escribe" \/ UNCHANGED compartida

\* The CPU may lose the calls, but never those of a program that makes none.
Cae(ins) ==
  /\ Len(pila) > 1 \/ ins.op = "llama"
  /\ Deja("caida")
  /\ UNCHANGED compartida

\* From then on nothing is promised.
Sigue == estado = "caida" /\ UNCHANGED <<pila, pc, estado>>

Next ==
  \/ \E ins \in Instrucciones :
       /\ Sentencia(ins)
       /\ \/ Variables(ins) \/ Asignacion(ins) \/ Comparte(ins) \/ Llama(ins) \/ Retorna(ins)
          \/ Salta(ins) \/ Espera(ins) \/ Termina(ins) \/ Aborta(ins) \/ Cae(ins)
  \/ Sigue

Spec == Init /\ [][Next]_vars

=============================================================================
