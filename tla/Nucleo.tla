------------------------------- MODULE Nucleo -------------------------------
(***************************************************************************)
(* The NUCLEO process of elEstack (src/NUCLEO/src/nucleo.c): the scheduler *)
(* of an operating system spread over five programs that talk over TCP.    *)
(*                                                                         *)
(* Threads of the code and the actions that stand for their steps:         *)
(*   hilo_PLP                 admission, new -> ready          (PLP)       *)
(*   hilo_PCP                 dispatch, ready -> exec          (PCP...)    *)
(*   hilo_CONEXION_CONSOLA    one per console, one program each (Con...)   *)
(*   hilo_CONEXION_CPU        one per connected CPU            (Cpu...)    *)
(*   analizarIO               SIGRTMIN handler: the IO timers  (Senial...) *)
(*                            and the screen's                (Pantalla...)*)
(*   main                     reload of the configuration       (Recarga...)*)
(* The CPU program at the other end of each CPU socket is modelled by what *)
(* src/CPU/src/CPU.c and primitivas.c send (Programa...).                  *)
(*                                                                         *)
(* A thread's step is cut where another thread can observe it.  A leaf     *)
(* mutex (mcola_ready, mcola_exec, mcola_exit, umcm) is taken and released *)
(* inside one step; mutex_config, which is held across several, is a       *)
(* variable.  A sem_wait before, and a sem_post or a send after, a queue   *)
(* operation belong to that operation's step.                              *)
(***************************************************************************)
EXTENDS Integers, Sequences, SequencesExt

CONSTANTS
  Consolas,            \* consoles; each one owns the process of its program
  CPUs,                \* CPU programs that may connect
  NSem, NIO,           \* lengths of SEM_IDS and IO_IDS
  SEM_INIT,            \* initial value of each semaphore
  Unidades,            \* IO units an entradaSalida may ask for
  Manejadores,         \* threads on which SIGRTMIN may run analizarIO
  PCP, MAIN,           \* the dispatcher and main, as owners of mutex_config
  NULO,                \* a NULL pointer, or the socket 0 of an empty queue
  Primitivas,          \* the system calls the programs may use, by their code
  MaxLlamadas,         \* bound: system calls and quanta of one process
  MaxRecargas,         \* bound: changes of the configuration file
  ConsolasQueCierran,  \* consoles that may disconnect at any time
  CPUsConSenial,       \* CPU programs that may receive SIGUSR1
  CPUsConInt,          \* CPU programs that may receive SIGINT
  CPUsQueCaen          \* CPU programs that may die at any time

Semaforos == 1..NSem
IOs == 1..NIO

ASSUME ConstantesNucleo ==
  /\ NSem \in Nat /\ NIO \in Nat
  /\ SEM_INIT \in [Semaforos -> Nat]
  /\ Unidades \subseteq Nat
  /\ PCP \notin CPUs
  /\ MAIN \in Manejadores /\ MAIN \notin CPUs \cup {PCP}
  /\ NULO \notin Consolas \cup CPUs \cup {PCP, MAIN}
  /\ Primitivas \subseteq {"341", "343", "350", "351", "360", "380"}
  /\ MaxLlamadas \in Nat /\ MaxRecargas \in Nat
  /\ ConsolasQueCierran \subseteq Consolas
  /\ CPUsConSenial \subseteq CPUs
  /\ CPUsConInt \subseteq CPUs
  /\ CPUsQueCaen \subseteq CPUs

VARIABLES
  cola,             \* [new, ready, exec, exit, CPU_libres], by console or socket
  colas_semaforos,  \* the processes blocked on each semaphore
  colas_ios,        \* the processes blocked on each IO device
  sem,              \* the counting semaphores [new, ready, cpu]
  flag,             \* turns the PCP must waste
  mutex_config,     \* its owner, or NULO
  VALOR_SEM,        \* value of each semaphore of the programs
  timers,           \* armed expirations of each IO timer, in units
  t_proceso,        \* [socket_CPU, abortado, unidades] of each process
  pcp,              \* hilo_PCP: [pc, sock, proceso]
  hilo,             \* hilo_CONEXION_CPU: [pc, proceso, elPaquete, flag]
  consola,          \* hilo_CONEXION_CONSOLA: [pc, i, cargada]
  manejador,        \* analizarIO: [pc, proceso, io]
  recarga,          \* get_config_nucleo, run by main: [pc, veces]
  viejos,           \* expirations armed for the timers of a former configuration
  buzon,            \* packets in each CPU's socket towards the NUCLEO
  cpu,              \* each CPU program: [estado, pcb, sigusr1, programaAbortado]
  llamadas,         \* system calls and quanta used, for the bound
  finalizados,      \* history: FINALIZAR messages sent to the UMC
  caida             \* how the NUCLEO itself ended, or "no"

programas == <<buzon, cpu, llamadas>>
hilos == <<pcp, hilo, consola, manejador>>
bloqueados == <<colas_semaforos, VALOR_SEM, colas_ios, timers>>
historia == <<finalizados, caida>>
principal == <<recarga, viejos>>
vars == <<cola, sem, flag, mutex_config, bloqueados, t_proceso, hilos,
          programas, historia, principal>>

Paquete(op, i, u) == [op |-> op, i |-> i, u |-> u]
Codigo(op) == Paquete(op, 0, 0)

Init ==
  /\ cola = [new |-> <<>>, ready |-> <<>>, exec |-> <<>>, exit |-> <<>>,
             CPU_libres |-> <<>>]
  /\ colas_semaforos = [s \in Semaforos |-> <<>>]
  /\ colas_ios = [d \in IOs |-> <<>>]
  /\ sem = [new |-> 0, ready |-> 0, cpu |-> 0]
  /\ flag = 0
  /\ mutex_config = NULO
  /\ VALOR_SEM = SEM_INIT
  /\ timers = [d \in IOs |-> <<>>]
  /\ t_proceso = [p \in Consolas |->
                    [socket_CPU |-> NULO, abortado |-> FALSE, unidades |-> 0]]
  /\ pcp = [pc |-> "espera", sock |-> NULO, proceso |-> NULO]
  /\ hilo = [k \in CPUs |-> [pc |-> "accept", proceso |-> NULO,
                             elPaquete |-> Codigo("-1"), flag |-> FALSE]]
  /\ consola = [c \in Consolas |-> [pc |-> "espera103", i |-> 1, cargada |-> FALSE]]
  /\ manejador = [h \in Manejadores |-> [pc |-> "libre", proceso |-> NULO, io |-> 1]]
  /\ recarga = [pc |-> "lee", veces |-> 0]
  /\ viejos = [d \in IOs |-> <<>>]
  /\ buzon = [k \in CPUs |-> <<>>]
  /\ cpu = [k \in CPUs |-> [estado |-> "apagada", pcb |-> NULO, sigusr1 |-> FALSE,
                            programaAbortado |-> FALSE]]
  /\ llamadas = [p \in Consolas |-> 0]
  /\ finalizados = [p \in Consolas |-> 0]
  /\ caida = "no"

-----------------------------------------------------------------------------
(* Pieces shared by several threads.                                        *)

Vacia(q) == q = <<>>

RestoSinSacar(q) == q

\* queue_pop: the head, NULL when there is none
Saca(q) == IF Vacia(q) THEN NULO ELSE Head(q)
Resto(q) == IF Vacia(q) THEN q ELSE Tail(q)

\* A mutant: whatever its condition, the first element.
EsPrimeroSinMirar(q, i, S) == i = 1 /\ q # <<>>

\* i is the position of the first element of q that belongs to S, the one
\* that list_find and list_remove_by_condition choose
EsPrimero(q, i, S) ==
  /\ i \in 1..Len(q)
  /\ q[i] \in S
  /\ \A j \in 1..(i - 1) : q[j] \notin S

EncolaReadySinPost(p) ==
  /\ cola' = [cola EXCEPT !.ready = Append(@, p)]
  /\ sem' = sem

\* queue_push(cola_ready, p); sem_post(&sem_ready)
EncolaReady(p) ==
  /\ cola' = [cola EXCEPT !.ready = Append(@, p)]
  /\ sem' = [sem EXCEPT !.ready = @ + 1]

LiberaCPUSinPost(k) ==
  /\ cola' = [cola EXCEPT !.CPU_libres = Append(@, k)]
  /\ sem' = sem

\* queue_push(cola_CPU_libres, socket); sem_post(&sem_cpu)
LiberaCPU(k) ==
  /\ cola' = [cola EXCEPT !.CPU_libres = Append(@, k)]
  /\ sem' = [sem EXCEPT !.cpu = @ + 1]

FinalizarEnUMC(p) == finalizados' = [finalizados EXCEPT ![p] = @ + 1]

\* the scheduler's side of abortar: into cola_exit, and FINALIZAR to the UMC
Abortar(p) ==
  /\ cola' = [cola EXCEPT !.exit = Append(@, p)]
  /\ FinalizarEnUMC(p)

\* makeTimer always creates one more timer, whatever is already armed
MakeTimer(d, u) == timers' = [timers EXCEPT ![d] = Append(@, u)]

Muere(como) ==
  /\ caida' = como
  /\ UNCHANGED <<cola, sem, flag, mutex_config, bloqueados, t_proceso, hilos,
                 programas, finalizados>>

-----------------------------------------------------------------------------
(* hilo_PLP and hilo_PCP.                                                   *)

PLP ==
  /\ sem.new > 0
  /\ sem' = [sem EXCEPT !.new = @ - 1, !.ready = @ + 1]
  /\ cola' = [cola EXCEPT !.new = Tail(@), !.ready = Append(@, Head(cola.new))]
  /\ UNCHANGED <<flag, mutex_config, bloqueados, t_proceso, hilos, programas, historia>>

PCPEsperaSoloReady ==
  /\ pcp.pc = "espera"
  /\ sem.ready > 0
  /\ sem' = [sem EXCEPT !.ready = @ - 1]
  /\ flag' = 0
  /\ pcp' = [pcp EXCEPT !.pc = IF flag = 0 THEN "toma" ELSE "espera"]
  /\ UNCHANGED <<cola, mutex_config, bloqueados, t_proceso, hilo, consola, manejador,
                 programas, historia>>

\* both sem_wait, then the test of flag, which an abort in ready has raised
PCPEspera ==
  /\ pcp.pc = "espera"
  /\ sem.ready > 0 /\ sem.cpu > 0
  /\ sem' = [sem EXCEPT !.ready = @ - 1, !.cpu = @ - 1]
  /\ flag' = 0
  /\ pcp' = [pcp EXCEPT !.pc = IF flag = 0 THEN "toma" ELSE "espera"]
  /\ UNCHANGED <<cola, mutex_config, bloqueados, t_proceso, hilo, consola, manejador,
                 programas, historia>>

\* the log line after the pop of cola_ready reads proceso->pcb->pid
PCPTomaNada ==
  /\ pcp.pc = "toma" /\ mutex_config = NULO
  /\ Saca(cola.ready) = NULO
  /\ Muere("segv")

PCPToma ==
  /\ pcp.pc = "toma" /\ mutex_config = NULO
  /\ Saca(cola.ready) # NULO
  /\ mutex_config' = PCP
  /\ pcp' = [pc |-> "manda", sock |-> Saca(cola.CPU_libres), proceso |-> Saca(cola.ready)]
  /\ cola' = [cola EXCEPT !.CPU_libres = Resto(@), !.ready = Resto(@)]
  /\ UNCHANGED <<sem, flag, bloqueados, t_proceso, hilo, consola, manejador, programas,
                 historia>>

\* cola_exec, 301 and 303: the CPU program takes the PCB if it is still there
\* and waiting; a NULL taken from cola_CPU_libres is socket 0, nobody's
MandarAEjecutar ==
  /\ pcp.pc = "manda"
  /\ t_proceso' = [t_proceso EXCEPT ![pcp.proceso].socket_CPU = pcp.sock]
  /\ cola' = [cola EXCEPT !.exec = Append(@, pcp.proceso)]
  /\ cpu' = [k \in CPUs |->
               IF k = pcp.sock /\ cpu[k].estado = "espera303"
               THEN [cpu[k] EXCEPT !.estado = "ejecuta", !.pcb = pcp.proceso]
               ELSE cpu[k]]
  /\ mutex_config' = NULO
  /\ pcp' = [pc |-> "espera", sock |-> NULO, proceso |-> NULO]
  /\ UNCHANGED <<sem, flag, bloqueados, hilo, consola, manejador, buzon, llamadas,
                 historia>>

-----------------------------------------------------------------------------
(* hilo_CONEXION_CONSOLA.  A console owns one process, created when it      *)
(* connects; its program text arrives in the 103.  abortarProceso looks for *)
(* the process in cola_exit, ready, exec, the semaphores and the IO queues, *)
(* in that order and one lock at a time.                                    *)

ConPasaA(c, pc, i) == consola' = [consola EXCEPT ![c] = [@ EXCEPT !.pc = pc, !.i = i]]

\* mandarCodigoAUmc, answered 1 by the UMC, then cola_new
ConCargaOk(c) ==
  /\ consola[c].pc = "espera103"
  /\ cola' = [cola EXCEPT !.new = Append(@, c)]
  /\ sem' = [sem EXCEPT !.new = @ + 1]
  /\ consola' = [consola EXCEPT ![c] = [@ EXCEPT !.pc = "lee", !.cargada = TRUE]]
  /\ UNCHANGED <<flag, mutex_config, bloqueados, t_proceso, pcp, hilo, manejador,
                 programas, historia>>

\* answered -1: 163 to the console, FINALIZAR to the UMC, and the thread ends
ConCargaFalla(c) ==
  /\ consola[c].pc = "espera103"
  /\ FinalizarEnUMC(c)
  /\ ConPasaA(c, "fin", 1)
  /\ UNCHANGED <<cola, sem, flag, mutex_config, bloqueados, t_proceso, pcp, hilo,
                 manejador, programas, caida>>

\* recibir answers -1: the console was closed, or ended after its 162 or 164;
\* the search begins in cola_exit
ConDesconecta(c) ==
  /\ \/ consola[c].pc \in {"espera103", "lee"} /\ c \in ConsolasQueCierran
     \/ consola[c].pc = "lee" /\ Contains(cola.exit, c)
  /\ ConPasaA(c, IF Contains(cola.exit, c) THEN "fin" ELSE "ready", 1)
  /\ UNCHANGED <<cola, sem, flag, mutex_config, bloqueados, t_proceso, pcp, hilo,
                 manejador, programas, historia>>

\* esMiConsola dereferences every element it is given, a NULL one included
ConBuscaNulo(c) ==
  /\ consola[c].pc = "ready"
  /\ \E i \in DOMAIN cola.ready :
        EsPrimero(cola.ready, i, {c, NULO}) /\ cola.ready[i] = NULO
  /\ Muere("segv")

ConSacaReady(c) ==
  /\ consola[c].pc = "ready"
  /\ \E i \in DOMAIN cola.ready :
        /\ EsPrimero(cola.ready, i, {c, NULO})
        /\ cola.ready[i] = c
        /\ cola' = [cola EXCEPT !.ready = RemoveAt(@, i)]
  /\ ConPasaA(c, "flag", 1)
  /\ UNCHANGED <<sem, flag, mutex_config, bloqueados, t_proceso, pcp, hilo, manejador,
                 programas, historia>>

\* flag++ and sem_post(&sem_cpu), so that the PCP wastes a turn; abortar
ConSubeFlag(c) ==
  /\ consola[c].pc = "flag"
  /\ flag' = flag + 1
  /\ sem' = [sem EXCEPT !.cpu = @ + 1]
  /\ Abortar(c)
  /\ ConPasaA(c, "fin", 1)
  /\ UNCHANGED <<mutex_config, bloqueados, t_proceso, pcp, hilo, manejador, programas,
                 caida>>

ConNoEstaEnReady(c) ==
  /\ consola[c].pc = "ready"
  /\ ~Contains(cola.ready, c) /\ ~Contains(cola.ready, NULO)
  /\ ConPasaA(c, "exec", 1)
  /\ UNCHANGED <<cola, sem, flag, mutex_config, bloqueados, t_proceso, pcp, hilo,
                 manejador, programas, historia>>

\* list_find in cola_exec under mcola_exec; the mark is set after the unlock
ConBuscaExec(c) ==
  /\ consola[c].pc = "exec"
  /\ ConPasaA(c, IF Contains(cola.exec, c) THEN "marca" ELSE "semaforos", 1)
  /\ UNCHANGED <<cola, sem, flag, mutex_config, bloqueados, t_proceso, pcp, hilo,
                 manejador, programas, historia>>

ConMarcaYFinaliza(c) ==
  /\ consola[c].pc = "marca"
  /\ t_proceso' = [t_proceso EXCEPT ![c].abortado = TRUE]
  /\ FinalizarEnUMC(c)
  /\ ConPasaA(c, "fin", 1)
  /\ UNCHANGED <<cola, sem, flag, mutex_config, bloqueados, pcp, hilo, manejador,
                 programas, caida>>

ConMarca(c) ==
  /\ consola[c].pc = "marca"
  /\ t_proceso' = [t_proceso EXCEPT ![c].abortado = TRUE]
  /\ ConPasaA(c, "fin", 1)
  /\ UNCHANGED <<cola, sem, flag, mutex_config, bloqueados, pcp, hilo, manejador,
                 programas, historia>>

\* the loop over colas_semaforos, which does not hold mutex_config
ConSacaSemaforo(c) ==
  /\ consola[c].pc = "semaforos" /\ consola[c].i \in Semaforos
  /\ LET s == consola[c].i IN
     \E i \in DOMAIN colas_semaforos[s] :
        /\ EsPrimero(colas_semaforos[s], i, {c})
        /\ colas_semaforos' = [colas_semaforos EXCEPT ![s] = RemoveAt(@, i)]
  /\ Abortar(c)
  /\ ConPasaA(c, "fin", 1)
  /\ UNCHANGED <<sem, flag, mutex_config, VALOR_SEM, colas_ios, timers, t_proceso, pcp,
                 hilo, manejador, programas, caida>>

ConSiguienteSemaforo(c) ==
  /\ consola[c].pc = "semaforos"
  /\ \/ /\ consola[c].i \in Semaforos /\ ~Contains(colas_semaforos[consola[c].i], c)
        /\ ConPasaA(c, "semaforos", consola[c].i + 1)
     \/ /\ consola[c].i \notin Semaforos
        /\ ConPasaA(c, "ios", 1)
  /\ UNCHANGED <<cola, sem, flag, mutex_config, bloqueados, t_proceso, pcp, hilo,
                 manejador, programas, historia>>

\* the loop over colas_ios: a head that is this process is looked at ...
ConMiraIO(c) ==
  /\ consola[c].pc = "ios" /\ consola[c].i \in IOs
  /\ ConPasaA(c, IF Saca(colas_ios[consola[c].i]) = c THEN "marcaIO" ELSE "sacaIO",
              consola[c].i)
  /\ UNCHANGED <<cola, sem, flag, mutex_config, bloqueados, t_proceso, pcp, hilo,
                 manejador, programas, historia>>

\* ... then marked, wherever it may have gone ...
ConMarcaIO(c) ==
  /\ consola[c].pc = "marcaIO"
  /\ t_proceso' = [t_proceso EXCEPT ![c].abortado = TRUE]
  /\ ConPasaA(c, "armaIO", consola[c].i)
  /\ UNCHANGED <<cola, sem, flag, mutex_config, bloqueados, pcp, hilo, manejador,
                 programas, historia>>

\* ... and its device is given a second timer, of 1 ms
ConArmaIO(c) ==
  /\ consola[c].pc = "armaIO"
  /\ MakeTimer(consola[c].i, 0)
  /\ ConPasaA(c, "sacaIO", consola[c].i)
  /\ UNCHANGED <<cola, sem, flag, mutex_config, colas_semaforos, VALOR_SEM, colas_ios,
                 t_proceso, pcp, hilo, manejador, programas, historia>>

\* list_remove_by_condition on the same queue, then abortar
ConSacaIO(c) ==
  /\ consola[c].pc = "sacaIO"
  /\ LET d == consola[c].i IN
     \/ /\ ~Contains(colas_ios[d], c)
        /\ UNCHANGED <<cola, colas_ios, finalizados>>
     \/ /\ \E i \in DOMAIN colas_ios[d] :
             /\ EsPrimero(colas_ios[d], i, {c})
             /\ colas_ios' = [colas_ios EXCEPT ![d] = RemoveAt(@, i)]
        /\ Abortar(c)
  /\ ConPasaA(c, "ios", consola[c].i + 1)
  /\ UNCHANGED <<sem, flag, mutex_config, colas_semaforos, VALOR_SEM, timers, t_proceso,
                 pcp, hilo, manejador, programas, caida>>

ConTermina(c) ==
  /\ consola[c].pc = "ios" /\ consola[c].i \notin IOs
  /\ ConPasaA(c, "fin", consola[c].i)
  /\ UNCHANGED <<cola, sem, flag, mutex_config, bloqueados, t_proceso, pcp, hilo,
                 manejador, programas, historia>>

-----------------------------------------------------------------------------
(* hilo_CONEXION_CPU.                                                       *)

CpuPasaA(k, pc) == hilo' = [hilo EXCEPT ![k].pc = pc]
\* the process has left this thread's hands
CpuSuelta(k, pc) == hilo' = [hilo EXCEPT ![k].pc = pc, ![k].proceso = NULO]

\* handshake 301, then the CPU is free
CpuConecta(k) ==
  /\ hilo[k].pc = "accept"
  /\ LiberaCPU(k)
  /\ CpuPasaA(k, "recibe")
  /\ cpu' = [cpu EXCEPT ![k].estado = "espera303"]
  /\ UNCHANGED <<flag, mutex_config, bloqueados, t_proceso, pcp, consola, manejador,
                 buzon, llamadas, historia>>

\* recibir takes a packet; an end of file stays where it is
Recibe(k) ==
  /\ buzon[k] # <<>>
  /\ buzon' = IF Head(buzon[k]).op = "-1" THEN buzon ELSE [buzon EXCEPT ![k] = Tail(@)]

\* the process dameProceso finds for this socket is at position i of cola_exec
EsSuProceso(k, i) ==
  EsPrimero(cola.exec, i, {p \in Consolas : t_proceso[p].socket_CPU = k})

\* the reports that take the process away from cola_exec
EntregasConSignal == {"304", "320", "341", "343", "370", "380"}
Entregas == {"304", "320", "341", "370", "380"}
Consultas == {"343", "350", "351", "360"}

CpuTomaProceso(k) ==
  /\ hilo[k].pc = "recibe"
  /\ Recibe(k) /\ Head(buzon[k]).op \in Entregas
  /\ \E i \in DOMAIN cola.exec :
        /\ EsSuProceso(k, i)
        /\ hilo' = [hilo EXCEPT ![k] = [@ EXCEPT !.pc = Head(buzon[k]).op,
                                                 !.proceso = cola.exec[i],
                                                 !.elPaquete = Head(buzon[k])]]
        /\ cola' = [cola EXCEPT !.exec = RemoveAt(@, i)]
  /\ UNCHANGED <<sem, flag, mutex_config, bloqueados, t_proceso, pcp, consola, manejador,
                 cpu, llamadas, historia>>

\* the others put it back, at the end of cola_exec, under the same lock; 360
\* and 361 then print and are done
CpuTomaYDevuelve(k) ==
  /\ hilo[k].pc = "recibe"
  /\ Recibe(k) /\ Head(buzon[k]).op \in Consultas
  /\ \E i \in DOMAIN cola.exec :
        /\ EsSuProceso(k, i)
        /\ cola' = [cola EXCEPT !.exec = Append(RemoveAt(@, i), cola.exec[i])]
  /\ hilo' = [hilo EXCEPT ![k] = [@ EXCEPT
                !.pc = IF Head(buzon[k]).op = "360" THEN "recibe" ELSE Head(buzon[k]).op,
                !.elPaquete = Head(buzon[k])]]
  /\ UNCHANGED <<sem, flag, mutex_config, bloqueados, t_proceso, pcp, consola, manejador,
                 cpu, llamadas, historia>>

\* dameProceso finds nothing: "NO HAY PROCESO" and exit(0)
CpuSinProceso(k) ==
  /\ hilo[k].pc = "recibe"
  /\ buzon[k] # <<>> /\ Head(buzon[k]).op \in Entregas \cup Consultas
  /\ \A i \in DOMAIN cola.exec : ~EsSuProceso(k, i)
  /\ Muere("exit")

\* 399 sets the thread's own flag; a 340 that nobody expects is dropped
CpuAviso(k) ==
  /\ hilo[k].pc = "recibe"
  /\ Recibe(k) /\ Head(buzon[k]).op \in {"340", "399"}
  /\ hilo' = [hilo EXCEPT ![k].flag = @ \/ Head(buzon[k]).op = "399"]
  /\ UNCHANGED <<cola, sem, flag, mutex_config, bloqueados, t_proceso, pcp, consola,
                 manejador, cpu, llamadas, historia>>

\* 304, end of quantum
Cpu304(k) ==
  /\ hilo[k].pc = "304"
  /\ LET p == hilo[k].proceso IN
     IF t_proceso[p].abortado THEN Abortar(p) /\ UNCHANGED sem
                              ELSE EncolaReady(p) /\ UNCHANGED finalizados
  /\ CpuSuelta(k, "libera")
  /\ UNCHANGED <<flag, mutex_config, bloqueados, t_proceso, pcp, consola, manejador,
                 programas, caida>>

SeLiberaSalvoAborto(k) == ~hilo[k].flag /\ hilo[k].elPaquete.op # "370"

\* the CPU goes back unless it said 399, which a 320 does not look at
SeLibera(k) == ~hilo[k].flag \/ hilo[k].elPaquete.op = "320"

\* the last lines of 304, 380 and of a 341 that blocks (which still holds
\* mutex_config)
CpuLibera(k) ==
  /\ hilo[k].pc \in {"libera", "liberaYSuelta"}
  /\ IF SeLibera(k) THEN LiberaCPU(k) ELSE UNCHANGED <<cola, sem>>
  /\ mutex_config' = IF hilo[k].pc = "libera" THEN mutex_config ELSE NULO
  /\ CpuPasaA(k, "recibe")
  /\ UNCHANGED <<flag, bloqueados, t_proceso, pcp, consola, manejador, programas, historia>>

\* 320 and 370: the program ended, or aborted
Cpu320Y370(k) ==
  /\ hilo[k].pc \in {"320", "370"}
  /\ cola' = [cola EXCEPT !.exit = Append(@, hilo[k].proceso)]
  /\ CpuPasaA(k, "terminado")
  /\ UNCHANGED <<sem, flag, mutex_config, bloqueados, t_proceso, pcp, consola, manejador,
                 programas, historia>>

\* then the CPU goes back, and FINALIZAR to the UMC
CpuTerminado(k) ==
  /\ hilo[k].pc = "terminado"
  /\ IF SeLibera(k) THEN LiberaCPU(k) ELSE UNCHANGED <<cola, sem>>
  /\ FinalizarEnUMC(hilo[k].proceso)
  /\ CpuSuelta(k, "recibe")
  /\ UNCHANGED <<flag, mutex_config, bloqueados, t_proceso, pcp, consola, manejador,
                 programas, caida>>

\* what the program does with an answer, if it is still there to read it
Contesta(k, espera, estado) ==
  cpu' = [cpu EXCEPT ![k].estado = IF @ = espera THEN estado ELSE @]

HayUnidadesDeMas(s) == VALOR_SEM[s] >= 0

HayUnidades(s) == VALOR_SEM[s] > 0

\* 341 on a semaphore that has units left
Cpu341Concede(k) ==
  /\ hilo[k].pc = "341" /\ mutex_config = NULO
  /\ LET s == hilo[k].elPaquete.i IN
     /\ HayUnidades(s)
     /\ VALOR_SEM' = [VALOR_SEM EXCEPT ![s] = @ - 1]
  /\ Contesta(k, "espera342", "ejecuta")
  /\ cola' = [cola EXCEPT !.exec = Append(@, hilo[k].proceso)]
  /\ CpuSuelta(k, "recibe")
  /\ UNCHANGED <<sem, flag, mutex_config, colas_semaforos, colas_ios, timers, t_proceso,
                 pcp, consola, manejador, buzon, llamadas, historia>>

Cpu341BloqueaSinMutex(k) ==
  /\ hilo[k].pc = "341" /\ mutex_config = NULO
  /\ ~HayUnidades(hilo[k].elPaquete.i)
  /\ Contesta(k, "espera342", "bloqueada")
  /\ CpuPasaA(k, "341pcb")
  /\ UNCHANGED <<cola, sem, flag, mutex_config, bloqueados, t_proceso, pcp, consola,
                 manejador, buzon, llamadas, historia>>

\* 341 on one that has none: the CPU is told, and its PCB is awaited with
\* mutex_config held
Cpu341Bloquea(k) ==
  /\ hilo[k].pc = "341" /\ mutex_config = NULO
  /\ ~HayUnidades(hilo[k].elPaquete.i)
  /\ mutex_config' = k
  /\ Contesta(k, "espera342", "bloqueada")
  /\ CpuPasaA(k, "341pcb")
  /\ UNCHANGED <<cola, sem, flag, bloqueados, t_proceso, pcp, consola, manejador, buzon,
                 llamadas, historia>>

\* elPaquete2 is taken for a 340 whatever it is; rebuilding a PCB from
\* anything else reads past its end: garbage, or the end of the NUCLEO
CpuPCBIlegible(k) ==
  /\ hilo[k].pc \in {"341pcb", "380"}
  /\ buzon[k] # <<>> /\ Head(buzon[k]).op # "340"
  /\ Muere("segv")

\* bloqueoSemaforo, or abortar: that branch unlocks but does not free the CPU
Cpu341PCB(k) ==
  /\ hilo[k].pc = "341pcb"
  /\ Recibe(k)
  /\ LET p == hilo[k].proceso
         s == hilo[k].elPaquete.i
     IN IF t_proceso[p].abortado
        THEN /\ Abortar(p)
             /\ mutex_config' = NULO
             /\ CpuSuelta(k, "recibe")
             /\ UNCHANGED colas_semaforos
        ELSE /\ colas_semaforos' = [colas_semaforos EXCEPT ![s] = Append(@, p)]
             /\ CpuSuelta(k, "liberaYSuelta")
             /\ UNCHANGED <<cola, finalizados, mutex_config>>
  /\ UNCHANGED <<sem, flag, VALOR_SEM, colas_ios, timers, t_proceso, pcp, consola,
                 manejador, cpu, llamadas, caida>>

\* 343, liberaSemaforo: nobody waits and the value grows ...
Cpu343Suma(k) ==
  /\ hilo[k].pc = "343" /\ mutex_config = NULO
  /\ LET s == hilo[k].elPaquete.i IN
     /\ Vacia(colas_semaforos[s])
     /\ VALOR_SEM' = [VALOR_SEM EXCEPT ![s] = @ + 1]
  /\ CpuPasaA(k, "recibe")
  /\ UNCHANGED <<cola, sem, flag, mutex_config, colas_semaforos, colas_ios, timers,
                 t_proceso, pcp, consola, manejador, programas, historia>>

\* ... or list_size was not 0 ...
Cpu343HayEspera(k) ==
  /\ hilo[k].pc = "343" /\ mutex_config = NULO
  /\ ~Vacia(colas_semaforos[hilo[k].elPaquete.i])
  /\ mutex_config' = k
  /\ CpuPasaA(k, "343saca")
  /\ UNCHANGED <<cola, sem, flag, bloqueados, t_proceso, pcp, consola, manejador,
                 programas, historia>>

\* ... and queue_pop gives the first, or NULL if an abort came in between
Cpu343Saca(k) ==
  /\ hilo[k].pc = "343saca"
  /\ LET s == hilo[k].elPaquete.i IN
     /\ hilo' = [hilo EXCEPT ![k].pc = "343pone", ![k].proceso = Saca(colas_semaforos[s])]
     /\ colas_semaforos' = [colas_semaforos EXCEPT ![s] = Resto(@)]
  /\ UNCHANGED <<cola, sem, flag, mutex_config, VALOR_SEM, colas_ios, timers, t_proceso,
                 pcp, consola, manejador, programas, historia>>

Cpu343PoneSinSoltar(k) ==
  /\ hilo[k].pc = "343pone"
  /\ EncolaReady(hilo[k].proceso)
  /\ CpuSuelta(k, "recibe")
  /\ UNCHANGED <<flag, mutex_config, bloqueados, t_proceso, pcp, consola, manejador, programas,
                 historia>>

Cpu343Pone(k) ==
  /\ hilo[k].pc = "343pone"
  /\ EncolaReady(hilo[k].proceso)
  /\ mutex_config' = NULO
  /\ CpuSuelta(k, "recibe")
  /\ UNCHANGED <<flag, bloqueados, t_proceso, pcp, consola, manejador, programas, historia>>

\* 350 and 351, a shared variable: the value is not modelled, the wait for
\* mutex_config and the 352 are
Cpu350Y351(k) ==
  /\ hilo[k].pc \in {"350", "351"} /\ mutex_config = NULO
  /\ IF hilo[k].pc = "351" THEN Contesta(k, "espera352", "ejecuta") ELSE UNCHANGED cpu
  /\ CpuPasaA(k, "recibe")
  /\ UNCHANGED <<cola, sem, flag, mutex_config, bloqueados, t_proceso, pcp, consola,
                 manejador, buzon, llamadas, historia>>

\* 380: the PCB follows; an aborted process goes no further
Cpu380Aborta(k) ==
  /\ hilo[k].pc = "380"
  /\ Recibe(k)
  /\ t_proceso[hilo[k].proceso].abortado
  /\ Abortar(hilo[k].proceso)
  /\ CpuSuelta(k, "libera")
  /\ UNCHANGED <<sem, flag, mutex_config, bloqueados, t_proceso, pcp, consola, manejador,
                 cpu, llamadas, caida>>

\* bloqueoIoManager under mutex_config: queue_size is read first ...
Cpu380Mira(k) ==
  /\ hilo[k].pc = "380"
  /\ Recibe(k)
  /\ ~t_proceso[hilo[k].proceso].abortado
  /\ mutex_config = NULO /\ mutex_config' = k
  /\ CpuPasaA(k, IF Vacia(colas_ios[hilo[k].elPaquete.i]) THEN "380vacia" ELSE "380ocupada")
  /\ UNCHANGED <<cola, sem, flag, bloqueados, t_proceso, pcp, consola, manejador, cpu,
                 llamadas, finalizados, caida>>

\* ... then the process is queued, and the timer armed if the queue was empty
Cpu380Encola(k) ==
  /\ hilo[k].pc \in {"380vacia", "380ocupada"}
  /\ LET p == hilo[k].proceso
         d == hilo[k].elPaquete.i
         u == hilo[k].elPaquete.u
     IN /\ colas_ios' = [colas_ios EXCEPT ![d] = Append(@, p)]
        /\ t_proceso' = [t_proceso EXCEPT ![p].unidades = u]
        /\ IF hilo[k].pc = "380vacia" THEN MakeTimer(d, u) ELSE UNCHANGED timers
  /\ mutex_config' = NULO
  /\ CpuSuelta(k, "libera")
  /\ UNCHANGED <<cola, sem, flag, colas_semaforos, VALOR_SEM, pcp, consola, manejador,
                 programas, historia>>

\* recibir answers -1: the CPU program is gone; its process, if it had one,
\* leaves cola_exec ...
CpuCae(k) ==
  /\ hilo[k].pc = "recibe"
  /\ buzon[k] # <<>> /\ Head(buzon[k]).op = "-1"
  /\ \/ /\ \A i \in DOMAIN cola.exec : ~EsSuProceso(k, i)
        /\ CpuPasaA(k, "recorre")
        /\ UNCHANGED cola
     \/ \E i \in DOMAIN cola.exec :
           /\ EsSuProceso(k, i)
           /\ hilo' = [hilo EXCEPT ![k].pc = "aborta", ![k].proceso = cola.exec[i]]
           /\ cola' = [cola EXCEPT !.exec = RemoveAt(@, i)]
  /\ UNCHANGED <<sem, flag, mutex_config, bloqueados, t_proceso, pcp, consola, manejador,
                 programas, historia>>

\* ... and is aborted ...
CpuCaeAborta(k) ==
  /\ hilo[k].pc = "aborta"
  /\ Abortar(hilo[k].proceso)
  /\ CpuSuelta(k, "recorre")
  /\ UNCHANGED <<sem, flag, mutex_config, bloqueados, t_proceso, pcp, consola, manejador,
                 programas, caida>>

\* ... then the socket is looked for in cola_CPU_libres, and the thread ends ...
CpuCaeRecorre(k) ==
  /\ hilo[k].pc = "recorre"
  /\ \/ /\ ~Contains(cola.CPU_libres, k)
        /\ CpuPasaA(k, "fin")
        /\ UNCHANGED cola
     \/ \E i \in DOMAIN cola.CPU_libres :
           /\ EsPrimero(cola.CPU_libres, i, {k})
           /\ cola' = [cola EXCEPT !.CPU_libres = RemoveAt(@, i)]
           /\ CpuPasaA(k, "sem_wait")
  /\ UNCHANGED <<sem, flag, mutex_config, bloqueados, t_proceso, pcp, consola, manejador,
                 programas, historia>>

\* ... after a sem_wait for the token of the CPU it took out
CpuCaeEspera(k) ==
  /\ hilo[k].pc = "sem_wait" /\ sem.cpu > 0
  /\ sem' = [sem EXCEPT !.cpu = @ - 1]
  /\ CpuPasaA(k, "fin")
  /\ UNCHANGED <<cola, flag, mutex_config, bloqueados, t_proceso, pcp, consola, manejador,
                 programas, historia>>

-----------------------------------------------------------------------------
(* analizarIO, run by SIGRTMIN on whatever thread the signal reaches.       *)

\* a timer expires on an empty queue: proceso->abortado of a NULL
SenialNada(h, d) ==
  /\ manejador[h].pc = "libre"
  /\ ~Vacia(timers[d]) /\ Vacia(colas_ios[d])
  /\ Muere("segv")

SenialSaca(h, d) ==
  /\ manejador[h].pc = "libre"
  /\ ~Vacia(colas_ios[d])
  /\ \E i \in DOMAIN timers[d] : timers' = [timers EXCEPT ![d] = RemoveAt(@, i)]
  /\ manejador' = [manejador EXCEPT ![h] = [pc |-> "entrega", io |-> d,
                                            proceso |-> Head(colas_ios[d])]]
  /\ colas_ios' = [colas_ios EXCEPT ![d] = Tail(@)]
  /\ UNCHANGED <<cola, sem, flag, mutex_config, colas_semaforos, VALOR_SEM, t_proceso, pcp,
                 hilo, consola, programas, historia>>

SenialEntrega(h) ==
  /\ manejador[h].pc = "entrega"
  /\ LET p == manejador[h].proceso IN
     IF t_proceso[p].abortado THEN Abortar(p) /\ UNCHANGED sem
                              ELSE EncolaReady(p) /\ UNCHANGED finalizados
  /\ manejador' = [manejador EXCEPT ![h].pc = "rearma", ![h].proceso = NULO]
  /\ UNCHANGED <<flag, mutex_config, bloqueados, t_proceso, pcp, hilo, consola, programas,
                 caida>>

\* the next expiration is computed from the LAST process of the queue
SenialRearma(h) ==
  /\ manejador[h].pc = "rearma"
  /\ LET d == manejador[h].io
         q == colas_ios[d]
     IN IF Vacia(q) THEN UNCHANGED timers ELSE MakeTimer(d, t_proceso[Last(q)].unidades)
  /\ manejador' = [manejador EXCEPT ![h].pc = "libre"]
  /\ UNCHANGED <<cola, sem, flag, mutex_config, colas_semaforos, VALOR_SEM, colas_ios,
                 t_proceso, pcp, hilo, consola, programas, historia>>

\* the screen's timer, every 300 ms: dibujarPantalla, in the same handler, waits
\* for mutex_config; when it is free nothing changes, and there is no step
SenialPantalla(h) ==
  /\ manejador[h].pc = "libre"
  /\ mutex_config # NULO
  /\ manejador' = [manejador EXCEPT ![h].pc = "pantalla"]
  /\ UNCHANGED <<cola, sem, flag, mutex_config, bloqueados, t_proceso, pcp, hilo, consola,
                 programas, historia>>

\* it draws, taking and giving back one queue's mutex at a time, and unlocks
PantallaDibuja(h) ==
  /\ manejador[h].pc = "pantalla" /\ mutex_config = NULO
  /\ manejador' = [manejador EXCEPT ![h].pc = "libre"]
  /\ UNCHANGED <<cola, sem, flag, mutex_config, bloqueados, t_proceso, pcp, hilo, consola,
                 programas, historia>>

-----------------------------------------------------------------------------
(* get_config_nucleo, which main runs when the configuration file changes.  *)
(* The handler of the timers runs on main too: main only goes on between two *)
(* signals, and not at all if it holds the mutex that its handler awaits.   *)

MainLibre == manejador[MAIN].pc = "libre"

RecargaPasaA(pc) == recarga' = [recarga EXCEPT !.pc = pc]

SinBloqueados(colas) == \A x \in DOMAIN colas : Vacia(colas[x])

\* inotify tells that the file was written
RecargaEmpieza ==
  /\ recarga.pc = "lee" /\ MainLibre
  /\ recarga.veces < MaxRecargas
  /\ recarga' = [pc |-> "semaforos", veces |-> recarga.veces + 1]
  /\ UNCHANGED <<cola, sem, flag, mutex_config, bloqueados, t_proceso, hilos, programas,
                 historia, viejos>>

\* while (tengoSem() || tengoIo()) {}, a busy wait with no lock
RecargaMira ==
  /\ MainLibre
  /\ \/ recarga.pc = "semaforos" /\ SinBloqueados(colas_semaforos) /\ RecargaPasaA("ios")
     \/ recarga.pc = "ios" /\ SinBloqueados(colas_ios) /\ RecargaPasaA("cambia")
     \/ recarga.pc = "ios" /\ ~SinBloqueados(colas_ios) /\ RecargaPasaA("semaforos")
  /\ UNCHANGED <<cola, sem, flag, mutex_config, bloqueados, t_proceso, hilos, programas,
                 historia, viejos>>

\* then mutex_config is taken ...
RecargaToma ==
  /\ recarga.pc = "cambia" /\ MainLibre
  /\ mutex_config = NULO /\ mutex_config' = MAIN
  /\ RecargaPasaA("dentro")
  /\ UNCHANGED <<cola, sem, flag, bloqueados, t_proceso, hilos, programas, historia, viejos>>

\* ... values, queues and timers are made anew (what the old queues held is
\* freed, what the old timers had armed still expires) ...
RecargaCambia ==
  /\ recarga.pc = "dentro" /\ MainLibre
  /\ VALOR_SEM' = SEM_INIT
  /\ colas_semaforos' = [s \in Semaforos |-> <<>>]
  /\ colas_ios' = [d \in IOs |-> <<>>]
  /\ timers' = [d \in IOs |-> <<>>]
  /\ viejos' = [d \in IOs |-> viejos[d] \o timers[d]]
  /\ RecargaPasaA("cambiada")
  /\ UNCHANGED <<cola, sem, flag, mutex_config, t_proceso, hilos, programas, historia>>

\* ... and the mutex is given back
RecargaSuelta ==
  /\ recarga.pc = "cambiada" /\ MainLibre
  /\ mutex_config' = NULO
  /\ RecargaPasaA("lee")
  /\ UNCHANGED <<cola, sem, flag, bloqueados, t_proceso, hilos, programas, historia, viejos>>

\* an expiration of an old timer is no device's: analizarIO goes on with an io
\* it never set, which may be any device, or no queue at all
SenialVieja(h) ==
  /\ manejador[h].pc = "libre"
  /\ \E d \in IOs :
       /\ ~Vacia(viejos[d])
       /\ \E i \in DOMAIN viejos[d] : viejos' = [viejos EXCEPT ![d] = RemoveAt(@, i)]
  /\ recarga' = recarga
  /\ \/ Muere("segv")
     \/ \E e \in IOs :
          /\ ~Vacia(colas_ios[e])
          /\ manejador' = [manejador EXCEPT ![h] = [pc |-> "entrega", io |-> e,
                                                    proceso |-> Head(colas_ios[e])]]
          /\ colas_ios' = [colas_ios EXCEPT ![e] = Tail(@)]
          /\ UNCHANGED <<cola, sem, flag, mutex_config, colas_semaforos, VALOR_SEM, timers,
                         t_proceso, pcp, hilo, consola, programas, historia>>

-----------------------------------------------------------------------------
(* The CPU program.                                                         *)

Envia(k, ps) == buzon' = [buzon EXCEPT ![k] = @ \o ps]
FinDeArchivo == Codigo("-1")
\* a signal received during the burst is announced before each report but the 320
ConAviso(k, op) == (IF cpu[k].sigusr1 THEN <<Codigo("399")>> ELSE <<>>) \o <<Codigo(op)>>

Ejecuta(k) == cpu[k].estado = "ejecuta"

GastaLlamada(k) ==
  /\ llamadas[cpu[k].pcb] < MaxLlamadas
  /\ llamadas' = [llamadas EXCEPT ![cpu[k].pcb] = @ + 1]

ProgramaSigue == UNCHANGED <<cola, sem, flag, mutex_config, bloqueados, t_proceso, hilos,
                             historia>>

\* a system call: wait and obtenerValorCompartida await an answer, entradaSalida
\* leaves the PCB to send, the others go on
ProgramaLlama(k, op) ==
  /\ op \in Primitivas
  /\ Ejecuta(k) /\ ~cpu[k].programaAbortado
  /\ GastaLlamada(k)
  /\ \/ /\ op \in {"341", "343"}
        /\ \E s \in Semaforos : Envia(k, <<Paquete(op, s, 0)>>)
     \/ /\ op \in {"350", "351", "360"}
        /\ Envia(k, <<Codigo(op)>>)
     \/ /\ op = "380"
        /\ \E d \in IOs, u \in Unidades : Envia(k, <<Paquete(op, d, u)>>)
  /\ cpu' = [cpu EXCEPT ![k].estado = CASE op = "341" -> "espera342"
                                        [] op = "351" -> "espera352"
                                        [] op = "380" -> "bloqueada"
                                        [] OTHER -> "ejecuta"]
  /\ ProgramaSigue

\* the reports that end a burst; the program awaits another PCB, or closes
TerminaRafaga(k, ps) ==
  /\ Envia(k, ps \o (IF cpu[k].sigusr1 THEN <<FinDeArchivo>> ELSE <<>>))
  /\ cpu' = [cpu EXCEPT ![k] = [@ EXCEPT
               !.estado = IF cpu[k].sigusr1 THEN "muerta" ELSE "espera303",
               !.pcb = NULO]]
  /\ ProgramaSigue

\* blocked by a wait or an entradaSalida: the PCB goes in a 340, and a second
\* time in a 370 if the program has been interrupted
ProgramaPCB(k) ==
  /\ cpu[k].estado = "bloqueada"
  /\ TerminaRafaga(k, ConAviso(k, "340")
                        \o (IF cpu[k].programaAbortado THEN ConAviso(k, "370") ELSE <<>>))
  /\ UNCHANGED llamadas

ProgramaQuantum(k) ==
  /\ Ejecuta(k) /\ ~cpu[k].programaAbortado
  /\ GastaLlamada(k)
  /\ TerminaRafaga(k, ConAviso(k, "304"))

\* the UMC answered that an access is not valid, or a SIGINT came
ProgramaAborta(k) ==
  /\ Ejecuta(k)
  /\ TerminaRafaga(k, ConAviso(k, "370"))
  /\ UNCHANGED llamadas

\* finalizar destroys the PCB after the 320; if the program was interrupted it
\* is serialized all the same, which the build may or may not survive
ProgramaFinaliza(k) ==
  /\ Ejecuta(k)
  /\ \/ TerminaRafaga(k, <<Codigo("320")>>)
     \/ /\ cpu[k].programaAbortado
        /\ TerminaRafaga(k, <<Codigo("320")>> \o ConAviso(k, "370"))
  /\ UNCHANGED llamadas

\* sig_handler (SIGUSR1) and sig_handler2 (SIGINT): an idle program ends at
\* once, a busy one after its burst
ProgramaSenial(k) ==
  /\ \E int \in {FALSE : x \in {k} \cap CPUsConSenial} \cup {TRUE : x \in {k} \cap CPUsConInt} :
     \/ /\ cpu[k].estado = "espera303"
        /\ Envia(k, <<FinDeArchivo>>)
        /\ cpu' = [cpu EXCEPT ![k].estado = "muerta"]
     \/ /\ cpu[k].estado \in {"ejecuta", "espera342", "espera352", "bloqueada"}
        /\ cpu' = [cpu EXCEPT ![k] = [@ EXCEPT !.sigusr1 = TRUE,
                                              !.programaAbortado =
                                                cpu[k].programaAbortado \/ int]]
        /\ UNCHANGED buzon
  /\ UNCHANGED llamadas
  /\ ProgramaSigue

\* the 399 is sent from an address that was never set: the send may kill the
\* program instead
MuereAlAvisar(k) == cpu[k].sigusr1 /\ cpu[k].estado \in {"ejecuta", "bloqueada"}

\* the program dies
ProgramaCae(k) ==
  /\ k \in CPUsQueCaen \/ MuereAlAvisar(k)
  /\ cpu[k].estado \notin {"apagada", "muerta"}
  /\ Envia(k, <<FinDeArchivo>>)
  /\ cpu' = [cpu EXCEPT ![k].estado = "muerta", ![k].pcb = NULO]
  /\ UNCHANGED llamadas
  /\ ProgramaSigue

-----------------------------------------------------------------------------
HiloPCP == PCPEspera \/ PCPTomaNada \/ PCPToma \/ MandarAEjecutar

HiloConsola(c) ==
  \/ ConCargaOk(c) \/ ConCargaFalla(c) \/ ConDesconecta(c)
  \/ ConBuscaNulo(c) \/ ConSacaReady(c) \/ ConSubeFlag(c) \/ ConNoEstaEnReady(c)
  \/ ConBuscaExec(c) \/ ConMarca(c) \/ ConSacaSemaforo(c) \/ ConSiguienteSemaforo(c)
  \/ ConMiraIO(c) \/ ConMarcaIO(c) \/ ConArmaIO(c) \/ ConSacaIO(c) \/ ConTermina(c)

HiloCPU(k) ==
  \/ CpuTomaProceso(k) \/ CpuTomaYDevuelve(k) \/ CpuSinProceso(k) \/ CpuAviso(k)
  \/ Cpu304(k) \/ CpuLibera(k) \/ Cpu320Y370(k) \/ CpuTerminado(k)
  \/ Cpu341Concede(k) \/ Cpu341Bloquea(k) \/ CpuPCBIlegible(k) \/ Cpu341PCB(k)
  \/ Cpu343Suma(k) \/ Cpu343HayEspera(k) \/ Cpu343Saca(k) \/ Cpu343Pone(k)
  \/ Cpu350Y351(k)
  \/ Cpu380Aborta(k) \/ Cpu380Mira(k) \/ Cpu380Encola(k)
  \/ CpuCae(k) \/ CpuCaeAborta(k) \/ CpuCaeRecorre(k) \/ CpuCaeEspera(k)

AtiendeIO(h) ==
  \/ \E d \in IOs : SenialNada(h, d) \/ SenialSaca(h, d)
  \/ SenialEntrega(h) \/ SenialRearma(h)

AnalizarIO(h) == AtiendeIO(h) \/ SenialPantalla(h) \/ PantallaDibuja(h)

Programa(k) ==
  \/ \E op \in Primitivas : ProgramaLlama(k, op)
  \/ ProgramaPCB(k) \/ ProgramaQuantum(k) \/ ProgramaAborta(k) \/ ProgramaFinaliza(k)

Recarga == RecargaMira \/ RecargaToma \/ RecargaCambia \/ RecargaSuelta

Principal ==
  \/ RecargaEmpieza \/ Recarga
  \/ \E h \in Manejadores : SenialVieja(h)

Hilos ==
  \/ PLP
  \/ HiloPCP
  \/ \E c \in Consolas : HiloConsola(c)
  \/ \E k \in CPUs : \/ CpuConecta(k) \/ HiloCPU(k) \/ Programa(k)
                     \/ ProgramaSenial(k) \/ ProgramaCae(k)
  \/ \E h \in Manejadores : AnalizarIO(h)

\* nothing runs once the NUCLEO has ended, and only main reloads
Sigue(A) == caida = "no" /\ A /\ UNCHANGED principal

Next == Sigue(Hilos) \/ (caida = "no" /\ Principal)

Spec == Init /\ [][Next]_vars

\* the kernel schedules every thread, every IO timer expires and every connected
\* program goes on; nothing obliges a console to close, a CPU program to get a
\* signal or to die, the screen to be drawn or the configuration to change
SpecJusta ==
  /\ Spec
  /\ WF_vars(Sigue(PLP))
  /\ WF_vars(Sigue(HiloPCP))
  /\ \A c \in Consolas : WF_vars(Sigue(ConCargaOk(c) \/ ConCargaFalla(c)))
  /\ \A k \in CPUs : /\ WF_vars(Sigue(CpuConecta(k)))
                     /\ WF_vars(Sigue(HiloCPU(k)))
                     /\ WF_vars(Sigue(Programa(k)))
  /\ \A h \in Manejadores : /\ WF_vars(Sigue(AtiendeIO(h)))
                            /\ WF_vars(Sigue(PantallaDibuja(h)))
  /\ WF_vars(caida = "no" /\ Recarga)

-----------------------------------------------------------------------------
(* Properties.                                                              *)

Paquetes ==
  [op : {"341", "343"}, i : Semaforos, u : {0}] \cup [op : {"380"}, i : IOs, u : Nat]
  \cup [op : {"-1", "304", "320", "340", "350", "351", "360", "370", "399"}, i : {0}, u : {0}]

PCsHilo == {"accept", "recibe", "304", "320", "341", "343", "350", "351", "370", "380",
            "libera", "liberaYSuelta", "terminado", "341pcb", "343saca", "343pone",
            "380vacia", "380ocupada", "aborta", "recorre", "sem_wait", "fin"}

PCsConsola == {"espera103", "lee", "ready", "flag", "exec", "marca", "semaforos", "ios",
               "marcaIO", "armaIO", "sacaIO", "fin"}

EstadosCPU == {"apagada", "espera303", "ejecuta", "espera342", "espera352", "bloqueada",
               "muerta"}

Colas == [new : Seq(Consolas), ready : Seq(Consolas \cup {NULO}), exec : Seq(Consolas),
          exit : Seq(Consolas), CPU_libres : Seq(CPUs)]
Contadores == [new : Nat, ready : Nat, cpu : Nat]

TipoColas ==
  /\ cola \in Colas
  /\ sem \in Contadores
  /\ flag \in Nat
  /\ mutex_config \in CPUs \cup {PCP, MAIN, NULO}

DatosDeProceso == [socket_CPU : CPUs \cup {NULO}, abortado : BOOLEAN, unidades : Nat]

TipoBloqueados ==
  /\ colas_semaforos \in [Semaforos -> Seq(Consolas)]
  /\ VALOR_SEM \in [Semaforos -> Nat]
  /\ colas_ios \in [IOs -> Seq(Consolas)]
  /\ timers \in [IOs -> Seq(Nat)]
  /\ t_proceso \in [Consolas -> DatosDeProceso]

EstadosPCP == [pc : {"espera", "toma", "manda"}, sock : CPUs \cup {NULO},
               proceso : Consolas \cup {NULO}]
EstadosHilo == [pc : PCsHilo, proceso : Consolas \cup {NULO}, elPaquete : Paquetes,
                flag : BOOLEAN]
EstadosConsola == [pc : PCsConsola, i : Nat, cargada : BOOLEAN]
EstadosManejador == [pc : {"libre", "entrega", "rearma", "pantalla"},
                     proceso : Consolas \cup {NULO}, io : Nat]

TipoHilos ==
  /\ pcp \in EstadosPCP
  /\ hilo \in [CPUs -> EstadosHilo]
  /\ consola \in [Consolas -> EstadosConsola]
  /\ manejador \in [Manejadores -> EstadosManejador]

EstadosPrograma == [estado : EstadosCPU, pcb : Consolas \cup {NULO}, sigusr1 : BOOLEAN,
                    programaAbortado : BOOLEAN]

TipoProgramas ==
  /\ buzon \in [CPUs -> Seq(Paquetes)]
  /\ cpu \in [CPUs -> EstadosPrograma]
  /\ llamadas \in [Consolas -> 0..MaxLlamadas]

TipoHistoria ==
  /\ finalizados \in [Consolas -> Nat]
  /\ caida \in {"no", "exit", "segv"}

TiposDeHilos == TipoColas /\ TipoBloqueados /\ TipoHilos /\ TipoProgramas /\ TipoHistoria

TipoPrincipal ==
  /\ recarga \in [pc : {"lee", "semaforos", "ios", "cambia", "dentro", "cambiada"},
                  veces : 0..MaxRecargas]
  /\ viejos \in [IOs -> Seq(Nat)]

\* The type of every variable: queues of processes (of sockets, in
\* cola_CPU_libres), counters that never go below zero, a mutex owned by a
\* thread that can take it.
TypeOK == TiposDeHilos /\ TipoPrincipal

\* where a process can be: a position of a queue, or the hands of a thread
En(nombre, q, p) == {<<nombre, i>> : i \in {j \in DOMAIN q : q[j] = p}}

Lugares(p) ==
  (UNION {En(nombre, cola[nombre], p) : nombre \in {"new", "ready", "exec", "exit"}})
  \cup (UNION {En(<<"semaforo", s>>, colas_semaforos[s], p) : s \in Semaforos})
  \cup (UNION {En(<<"io", d>>, colas_ios[d], p) : d \in IOs})
  \cup {<<"PCP", 0>> : x \in {y \in {pcp} : y.proceso = p}}
  \cup {<<"CPU", k>> : k \in {x \in CPUs : hilo[x].proceso = p /\ hilo[x].pc # "terminado"}}
  \cup {<<"SIGRTMIN", h>> : h \in {x \in Manejadores : manejador[x].proceso = p}}
  \cup {<<"consola", c>> : c \in {x \in {p} : consola[x].pc = "flag"}}

\* A process that has been loaded is always in exactly one place, whatever
\* the consoles, the CPUs and the timers do: no step loses it between two
\* queues and none leaves it in two, where two CPUs could run it.
UnSoloLugar ==
  \A p \in Consolas : consola[p].cargada => \E l \in Lugares(p) : Lugares(p) = {l}

\* The UMC is told to free the pages of a process at most once, and only of
\* one that has left the scheduler, whichever of the abort paths (console, CPU
\* death, end of burst, IO) gets there first.
FinalizadoUnaVez ==
  \A p \in Consolas :
    /\ finalizados[p] <= 1
    /\ finalizados[p] = 1 => Lugares(p) \subseteq {<<"exit", i>> : i \in DOMAIN cola.exit}

\* A semaphore with units left has nobody blocked on it: no process sleeps
\* through the signal that was meant for it, even when it queues itself after
\* its PCB arrives in a second message.
SinSenialPerdida ==
  \A s \in Semaforos : ~Vacia(colas_semaforos[s]) => VALOR_SEM[s] = 0

\* Two CPU programs never hold the PCB of one process, and the process that a
\* CPU program runs is the one that cola_exec, or the thread that serves the
\* CPU, has for its socket.
NoDosCPUs ==
  \A k \in CPUs : LET p == cpu[k].pcb IN p # NULO =>
    /\ \A j \in CPUs \ {k} : cpu[j].pcb # p
    /\ t_proceso[p].socket_CPU = k
    /\ p \in {hilo[k].proceso} \cup {cola.exec[i] : i \in DOMAIN cola.exec}

\* dameProceso always finds the process a CPU reports on, whatever CPUs end on a
\* SIGUSR1 or die: its exit(0) is out of reach as long as none gets a SIGINT.
NuncaSinProceso == caida # "exit"

\* Each counting semaphore counts the elements of its queue: the sem_post of
\* a producer and the sem_wait of the PCP, which takes both tokens before it
\* takes the elements, never drift apart.
TokensCoinciden ==
  LET tomados == IF pcp.pc = "toma" THEN 1 ELSE 0 IN
  /\ sem.new = Len(cola.new)
  /\ sem.ready + tomados = Len(cola.ready)
  /\ sem.cpu + tomados = Len(cola.CPU_libres)

\* A CPU program that waits for a PCB is one the PCP can find: no report path
\* forgets to return the CPU to cola_CPU_libres.
CPUDisponible ==
  \A k \in CPUs :
    cpu[k].estado = "espera303" /\ buzon[k] = <<>> /\ hilo[k].pc = "recibe"
      => Contains(cola.CPU_libres, k) \/ pcp.sock = k

\* The screen's timer has interrupted main inside a reload: the handler waits
\* for the mutex that main holds and will never give back.
Trabado == mutex_config = MAIN /\ manejador[MAIN].pc = "pantalla"
Detenido == Trabado \/ caida # "no"

\* Every process that reaches ready is dispatched: with CPUs that stay and
\* programs that go on, nothing in ready waits for ever, except behind a main
\* that its own screen has locked, or when the NUCLEO has ended.
DespachoEventual ==
  \A p \in Consolas : Contains(cola.ready, p) ~> Contains(cola.exec, p) \/ Detenido

\* mutex_config is given back by every thread that takes it (the PCP, a CPU's
\* thread that awaits a PCB with the mutex held, the reload), with one
\* exception: a main that the screen interrupts inside the reload.
MutexSeSuelta == mutex_config # NULO ~> mutex_config = NULO \/ Detenido

-----------------------------------------------------------------------------
(* What a comment or a log line of the code says and the code does not do.  *)

\* nucleo.c:774, "este caso no se podria dar": an abort that has looked
\* everywhere has found the process.
SinCasoRaro ==
  \A c \in Consolas :
    consola[c].pc = "fin" /\ consola[c].cargada
      => t_proceso[c].abortado \/ Contains(cola.exit, c)

\* nucleo.c:732, "Abortado x consola, en exec, espero que termine de trabajar":
\* a process marked while it runs ends when it stops running.
AbortoSeCumple ==
  \A p \in Consolas : t_proceso[p].abortado ~> Contains(cola.exit, p)

\* nucleo.c:1471, "no se puede cambiar la configuracion hasta que las colas de
\* IO y Semaforos se encuentren vacias": no reload throws a blocked process away.
RecargaEnVacio ==
  [][RecargaCambia => SinBloqueados(colas_semaforos) /\ SinBloqueados(colas_ios)]_vars

=============================================================================
