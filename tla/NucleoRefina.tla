---------------------------- MODULE NucleoRefina ----------------------------
(* The NUCLEO implements Procesos: a process is in the state of the queue   *)
(* that holds it; in the hands of a thread, in the one it was taken from (a *)
(* thread that wakes one has taken it from its semaphore: it is in "block"). *)
EXTENDS Nucleo

EnManosDeCPU(p, pcs) == \E k \in CPUs : hilo[k].proceso = p /\ hilo[k].pc \in pcs

EstadoDe(p) ==
  CASE ~consola[p].cargada -> "ninguno"
    [] Contains(cola.new, p) -> "new"
    [] Contains(cola.exit, p) -> "exit"
    [] Contains(cola.ready, p) \/ pcp.proceso = p \/ consola[p].pc = "flag" -> "ready"
    [] Contains(cola.exec, p) \/ EnManosDeCPU(p, PCsHilo \ {"343pone", "terminado"}) -> "exec"
    [] OTHER -> "block"

Ciclo == INSTANCE Procesos WITH Procesos <- Consolas, CPUs <- CPUs,
                                estado <- [p \in Consolas |-> EstadoDe(p)]

\* Every step of the NUCLEO moves at most one process, along an arrow of the
\* life cycle, and never runs more processes than there are CPUs, although it
\* only counts tokens.
RefinaProcesos == Ciclo!Spec

=============================================================================
