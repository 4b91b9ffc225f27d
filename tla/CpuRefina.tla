----------------------------- MODULE CpuRefina ------------------------------
(***************************************************************************)
(* The CPU, its pages, its bursts and its packets implement what a program *)
(* means (Programa), until a call does not get the context made for it:    *)
(* see llamarConRetorno.                                                   *)
(***************************************************************************)
EXTENDS Cpu

\* The machine of the process, which may be in a packet.
Maquina == IF estado = "nucleo" THEN desserializarPCB(cpu, paquete) ELSE cpu

Como == IF cpu.caida \/ cpu.perdido THEN "caida"
        ELSE IF cpu.programaAbortado \/ estado = "aborto" THEN "aborto"
        ELSE IF estado = "fin" THEN "fin"
        ELSE "corre"

Nombres(c) == {c.vars[y].etiqueta : y \in DOMAIN c.vars}

\* The name that retVar of c is the address of, in its caller's context.
Destino(c, llamador) ==
  CHOOSE x \in Nombres(llamador) \cup {z \in DOMAIN Digito : Digito[z] \in DOMAIN llamador.args} :
    Posicion(llamador, x) = convertirDireccionAPuntero(c.retVar)

LlamadaDe(m, c, vuelve, destino) ==
  [vars |-> [x \in Nombres(c) |-> dereferenciar(m, Posicion(c, x))],
   args |-> [k \in DOMAIN c.args |-> dereferenciar(m, convertirDireccionAPuntero(c.args[k]))],
   vuelve |-> vuelve,
   destino |-> destino]

PilaDe(m) ==
  LET cs == Contextos(m)
  IN  [i \in DOMAIN cs |->
         IF i = 1 THEN LlamadaDe(m, cs[1], 0, BASURA)
         ELSE LlamadaDe(m, cs[i], cs[i].retPos + 1, Destino(cs[i], cs[i - 1]))]

P == INSTANCE Programa WITH
       pila <- IF Como = "corre" THEN PilaDe(Maquina) ELSE <<>>,
       pc <- IF Como = "corre" THEN Maquina.pc ELSE 0,
       estado <- Como

\* Every step of the CPU is a step of the program, or none: however a run is cut
\* in bursts, whatever pages its code and its variables fall in and whatever the
\* calls under way, each name has the value that was given to it last and each
\* call goes back to where it was made.
ImplementaPrograma == P!Spec

=============================================================================
