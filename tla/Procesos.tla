------------------------------ MODULE Procesos ------------------------------
(***************************************************************************)
(* What the NUCLEO promises of the processes it schedules: the life cycle  *)
(* that the names of its queues stand for (cola_new, cola_ready,           *)
(* cola_exec, colas_semaforos and colas_ios, cola_exit), one process at a  *)
(* time, with never more processes running than there are CPUs.            *)
(***************************************************************************)
EXTENDS Integers, FiniteSets

CONSTANTS
  Procesos,  \* processes
  CPUs       \* processors

VARIABLE estado   \* the state of each process

Estados == {"ninguno", "new", "ready", "exec", "block", "exit"}

Ejecutando == {p \in Procesos : estado[p] = "exec"}

Pasa(p, desde, hacia) ==
  /\ estado[p] \in desde
  /\ estado' = [estado EXCEPT ![p] = hacia]

Init == estado = [p \in Procesos |-> "ninguno"]

Crear(p) == Pasa(p, {"ninguno"}, "new")

Admitir(p) == Pasa(p, {"new"}, "ready")

Despachar(p) ==
  /\ Cardinality(Ejecutando) < Cardinality(CPUs)
  /\ Pasa(p, {"ready"}, "exec")

FinDeQuantum(p) == Pasa(p, {"exec"}, "ready")

Bloquear(p) == Pasa(p, {"exec"}, "block")

Despertar(p) == Pasa(p, {"block"}, "ready")

Terminar(p) == Pasa(p, {"ready", "exec", "block"}, "exit")

Next == \E p \in Procesos :
  \/ Crear(p) \/ Admitir(p) \/ Despachar(p) \/ FinDeQuantum(p)
  \/ Bloquear(p) \/ Despertar(p) \/ Terminar(p)

Spec == Init /\ [][Next]_estado

=============================================================================
