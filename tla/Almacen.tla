------------------------------ MODULE Almacen ------------------------------
(***************************************************************************)
(* What the SWAP promises to the UMC, with nothing said of holes, first    *)
(* fit or compaction: every process that was admitted has its pages, in    *)
(* order, and a page reads back what was last written to it.  A process is *)
(* admitted exactly when the free pages suffice, wherever they are.        *)
(*                                                                         *)
(* The promise is weaker than one would like in one point, the constant    *)
(* Firmes: only the writes of the pages in Firmes are kept.  swap.c loses  *)
(* those of page 0 (see Escribir in Swap).                                 *)
(***************************************************************************)
EXTENDS Naturals, Sequences, FiniteSets

CONSTANTS Pids,              \* the processes the UMC may ask for
          CANTIDAD_PAGINAS,  \* pages of the swap file
          Codigos,           \* the codes a process may bring, page by page
          Valores,           \* what the UMC may write in a page
          BASURA,            \* the content of memory nobody wrote
          Firmes             \* page numbers whose writes are kept

VARIABLES guardado,          \* the pages of each process, <<>> if it has none
          respuesta          \* the last answer sent to the UMC

vars == <<guardado, respuesta>>

\* The pages that are somebody's, as a process and the place of the page in its
\* sequence.
Entregadas == {x \in Pids \X (1 .. CANTIDAD_PAGINAS) : x[2] \in DOMAIN guardado[x[1]]}

Libres == CANTIDAD_PAGINAS - Cardinality(Entregadas)

Init == /\ guardado = [p \in Pids |-> <<>>]
        /\ respuesta = <<"nada">>

\* The answer to INICIALIZAR depends on the number of free pages alone.
Inicializa(p, codigo) ==
  /\ guardado[p] = <<>>
  /\ IF Len(codigo) <= Libres
     THEN /\ guardado' = [guardado EXCEPT ![p] = codigo]
          /\ respuesta' = <<"EXITO">>
     ELSE /\ respuesta' = <<"NOHAYLUGAR">>
          /\ UNCHANGED guardado

Finaliza(p) == /\ guardado' = [guardado EXCEPT ![p] = <<>>]
               /\ UNCHANGED respuesta

\* Page n of a process is element n + 1 of its sequence.
Escribe(p, n, v) ==
  /\ n + 1 \in DOMAIN guardado[p]
  /\ guardado' = [guardado EXCEPT ![p][n + 1] = IF n \in Firmes THEN v ELSE BASURA]
  /\ UNCHANGED respuesta

Lee(p, n) == /\ n + 1 \in DOMAIN guardado[p]
             /\ respuesta' = <<"pagina", guardado[p][n + 1]>>
             /\ UNCHANGED guardado

Next == \E p \in Pids :
          \/ \E c \in Codigos : Inicializa(p, c)
          \/ Finaliza(p)
          \/ \E n \in 0 .. CANTIDAD_PAGINAS - 1 :
               Lee(p, n) \/ \E v \in Valores : Escribe(p, n, v)

Spec == Init /\ [][Next]_vars
=============================================================================
