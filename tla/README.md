# elEstack in TLA+

elEstack is an operating system spread over five programs that talk over TCP. This
directory models its scheduler, its CPU, its memory server and its swap server in TLA+,
model-checks them with TLC on small instances and proves theorems about them with TLAPS
for every size. Names of operators follow the names of the C functions and variables;
`PROJECT.json` maps each definition to the lines it stands for.

## 1. Inventory

| Component | Source | State it keeps | Operations |
|---|---|---|---|
| NUCLEO | `src/NUCLEO/src/nucleo.c` | `cola_new`, `cola_ready`, `cola_exec`, `cola_exit`, `cola_CPU_libres`; a queue for each semaphore and IO device; three counting semaphores, `flag`, `mutex_config`; the mark `abortado` of each process | admit, dispatch, end of quantum, wait, signal, IO, shared variables, end, abort, reload of the configuration |
| CPU | `src/CPU/src/CPU.c`, `primitivas.c` | the PCB it runs with its stack of contexts, what is left of the burst, the flags of the two signals, the marks that a primitive leaves | run a burst of instructions: variables, assignments, calls, returns, jumps, system calls; ask the NUCLEO and the UMC, report |
| UMC | `src/UMC/src` | page table, frames and their availability, TLB, the mutexes | read and write by process and page, start and end a process, flush |
| SWAP | `src/SWAP/src/swap.c` | the array of pages and the mapped file | INICIALIZAR, FINALIZAR, LEER, ESCRIBIR, compaction |
| CONSOLA | `src/CONSOLA/src/consola.c` | none | send a program, print what comes, close |
| PCB | `src/Sockets Maggie/src/estructurasControl.c` | none | serialize, deserialize and free a PCB |
| Sockets | `src/Sockets Maggie/src/socketLibrary.c` | none | framing, handshake |

**How they interact.** A CONSOLA sends a program to the NUCLEO, which asks the UMC for its
pages, which asks the SWAP. The NUCLEO sends the PCB of a ready process to a free CPU;
the CPU tells the UMC which process it runs and reads and writes its pages, sends the
system calls to the NUCLEO and at the end of the burst gives the PCB back. In the NUCLEO
there is a thread per console and per CPU, the admission thread `hilo_PLP`, the
dispatcher `hilo_PCP`, the SIGRTMIN handler of the IO timers and of the screen, and `main`, which
reloads the configuration; they share the queues. In the UMC there is a thread per CPU, one for the
NUCLEO and one for the operator's console. The SWAP has one thread and one client.

**What is hard.** Processes are between two queues while a thread has them in its hands,
and a console may close, a CPU die or a signal arrive just then. The counting semaphores,
the mutexes and the queues are separate objects that code on many paths must keep in
step. Some messages come in two halves and one thread holds `mutex_config` while it waits
for the second. The screen's handler waits for that mutex on whatever thread it interrupts. In the
UMC the frame to take is tested, chosen and marked in three steps
and not every path holds the mutex: the end of a process frees its frames without it, twice. In the SWAP a long history of arrivals and ends
leaves holes that compaction closes page by page. In the CPU the address of a variable is
computed from its neighbour's in the list of contexts, over page borders and after calls
that returned, and the whole stack is packed and unpacked between any two bursts.

**What makes each one correct.** NUCLEO: no process is lost or in two places, no PCB runs
on two CPUs, no signal is lost, what is ready is dispatched, the UMC is told to free a
process once. UMC: a frame holds one page, what is written is read back whatever is
replaced meanwhile, no reference outlives what it refers to. SWAP: each process's pages
are its own, in order and together. CPU: a program computes the same wherever its bursts
and pages end. `PROJECT.json` lists, under "hazards", the line of
code where each of these could go wrong and the property that would tell.

## 2. Modules

| Module | What it is |
|---|---|
| `Procesos` | abstract: the life cycle of a process, one state each, at most as many running as there are CPUs |
| `Nucleo` | the NUCLEO's threads, with the CPU programs, the consoles and the timers as its environment |
| `NucleoRefina` | the refinement mapping from `Nucleo` to `Procesos` |
| `MCNucleo` | values for TLC |
| `NucleoPruebas` | theorems about `Nucleo`: its types, its mutex, the signal of a semaphore |
| `NucleoLugares` | theorems about `Nucleo`: where the processes are |
| `NucleoProtocolo` | theorems about `Nucleo`: what each CPU program and its thread owe each other |
| `NucleoImplementa` | theorems about `Nucleo` when nothing fails: tokens, idle CPUs; `Nucleo` implements `Procesos` |
| `Almacen` | abstract: a store of the pages of each process |
| `Swap` | the SWAP, compaction one page at a time |
| `SwapRefina` | the refinement mapping from `Swap` to `Almacen` |
| `MCSwap` | values for TLC |
| `SwapPruebas` | theorems: the pages of a process are together; `Swap` implements `Almacen` |
| `Umc` | the UMC's threads, the clock, the TLB; the SWAP as `Almacen` describes it |
| `MCUmc` | values for TLC |
| `UmcPruebas` | theorems about `Umc`: the mutex, the clocks, the TLB and the types; the frames and, on top of them, the bytes |
| `Programa` | abstract: what an AnSISOP program means, with names and values and no addresses |
| `Cpu` | a CPU running one program: bursts, primitives, stack of contexts, addresses, PCB packets |
| `CpuRefina` | the refinement mapping from `Cpu` to `Programa` |
| `MCCpu` | a family of programs for TLC |
| `CpuPruebas` | theorems about `Cpu`: the packets of the PCB, the fetch, the stack |
| `Minimos` | lemmas the proofs of `Swap`, `Umc` and `Cpu` use: a set of naturals that is not empty has a least element, and induction on a set of naturals |

An operator introduced by "a mutant" in a comment is a wrong version of the definition
near it (a dropped reset, a missing unlock). The specification does not use it; each one
shows that some property would notice the error.

### Nucleo

The variables are those of the code: `cola` holds the five queues, `colas_semaforos` and
`colas_ios` the blocked processes, `sem` the semaphores `sem_new`, `sem_ready` and
`sem_cpu`. Each thread has a record with its position `pc` and what it has in its hands;
`buzon` holds the packets on their way from each CPU. Actions are named for their thread:
`PLP`, `PCP...`, `Con...` (console), `Cpu...` (the thread of a CPU, followed by the code
of the message), `Senial...` and `Pantalla...` (the handler), `Recarga...`, and `Programa...` for the CPU
program at the other end.

*Where the steps are cut.* A thread's code is one step as far as no other thread can
tell: taking a mutex or a semaphore commutes to the right with the steps of the others,
giving it back, posting and sending commute to the left, so a critical section with the
post or the send after it is one action. `mutex_config` is a variable because it is held
across a `recibir`, and by a reload, which the handler may interrupt. Everything that the code
reads without a lock and uses later is cut: `mandarAEjecutar`, `liberaSemaforo`, the passes of
`abortarProceso` (the look at a device's head, the mark and the timer are three steps),
`bloqueoIoManager`, `analizarIO`. A reload takes the mutex, replaces everything and gives the mutex
back in three steps; the replacement is one, because only `abortarProceso` and
`analizarIO` touch those queues without `mutex_config`, and what they
would meet half-way is a freed list, which C does not define.

*Choices.* `Manejadores` are the threads that handle SIGRTMIN and `MAIN` is the one that reloads.
In the runs `MAIN` is the only one, because Linux offers a process's signal to the main thread
first; the proofs allow any number. It is also an assumption: while the handler runs on `main` the
signal is masked there, and one that comes then may go to another thread. `main` takes no step
while its handler runs. The screen's timer expires every 300 ms and `dibujarPantalla` waits for
`mutex_config` inside the handler: `SenialPantalla` is the wait when somebody holds the mutex,
`PantallaDibuja` the end of it; when the mutex is free nothing that is modelled changes. If it
interrupts `main` inside a reload, `main` awaits itself and the mutex is never given back
(`Trabado`). A packet with
code -1 stays in the box of a dead CPU, because `recv` at end of file goes on returning
0. Of the shared variables only the wait for `mutex_config` and the 352 are kept. Lists
read or written by two threads with no common mutex (`cola_new`, `cola_CPU_libres`) have
no defined outcome in C: the model keeps their operations atomic, and so does it with what
`analizarIO`, `dibujarPantalla` and `abortarProceso` read of the queues of devices and semaphores
without a lock. When the NUCLEO follows a null pointer or calls `exit`, `caida` says how.

### Swap

`paginasSWAP` and `disco` are the array and the mapped file. A request is one action,
except INICIALIZAR when there is no hole: then `compactacion` moves one page per step and
`Reintenta` searches again and answers. The three searches are written as what they
return (first fit, first free page, first occupied page after a free one), `liberarProceso`
as what its loop frees: as many pages from the first one on as the process has. LEER and ESCRIBIR
do not test that the page is the process's; that it is (the guard n < pages) is a restriction of the
environment, which the UMC meets because it looks the page up in its table first. A page's
bytes are one value. ESCRIBIR of page 0 stores garbage, as the code does (see finding 5),
and `Almacen` therefore promises to keep only the writes of the other pages (`Firmes`).

### Umc

A thread's request goes through `Busca`, `Acierto` or `Fallo`, `TomaMarcos`, `HayMarcos`, `Revisa`,
then `Reemplaza` or `Elige`, `Asigna` and `Llena`, then `Accede`: one action for each stretch
between two operations on a mutex or two looks at `control_de_marcos`. The entries, frames
and swap pages of a process are touched only by the thread of the CPU that runs it, so
what is done to them goes with the look before. `semaforo_mutex_tabla_de_paginas` is taken for one
look at a time by everybody but the end of a process, so what the model keeps of it is whether an
end has it (`TablaLibre`).

The end of a process makes its frames available in `eliminar_proceso_tabla_de_paginas`, in the
condition that it passes to `remove_and_destroy_all_such_that`: once for each entry while it counts
(`CuentaEntrada`) and again while it removes (`QuitaEntrada`), with the mutex of the table and
without `semaforo_mutex_marcos`. `faltan` holds the pages a pass has still to reach. Between the two
passes a fault that has made its test may take such a frame, and the removal makes it available over
its new owner: `remarcado` records that this has happened, and no guard reads it. The removed entries leave
the table in one step at the end, because nobody can look at it before.

The clock is written as what it chooses:
the list of `lista_circular_clock` is the order of the distance around the clock from the
puntero's frame (`Distancia`), `list_find` is the least of a set in that order, and the
entries whose `uso` it clears on the way are the ones before. The page table entry of an
absent page keeps no frame and no `uso`, which the code does not read before it sets them.
`tlb` is in LRU order, so the dates are not needed. The UMC's requests to the SWAP hold
`semaforo_mutex_swap` from the send to the answer, so each is one step, and the SWAP is
the store of `Almacen`, which is what `SwapRefina` shows of it.

`Accesos` says what the programs do, `Flusheables` which processes the operator flushes.
`FallasSolapadas = FALSE` restricts the environment: a write fault is then served while
no other request is. It has to, because of finding 4: without it a frame has two pages
and nothing else about frames is true. Reads, read faults, write hits, ends and flushes
overlap freely in both cases.

### Cpu

`cpu` is what the CPU has in memory: the fields of its PCB, the list `contextoActual`
(`lista`, of pointers to the contexts in `ctx`, with `sizeContextoActual` apart as in the
code), the pages of the process as the UMC keeps them, and `programaAbortado`. `paquete` is
the serialized PCB while it is not in a CPU. An instruction is one step: the CPU is one
thread, and the pages of a process are touched by nobody else. What the parser calls for
each instruction is noted at its action; the parser itself is a library. A primitive is an
operator on the state of the machine, and the operators compose as the calls do. The
branches of `definirVariable`, which differ in the neighbour they take the address from,
are `NuevaDireccion`. `leer` keeps the recursion of the code, which splits a fetch at the
border of a page. `serializarPCB` and `desserializarPCB` pack and unpack element by element,
in the order of the code, with the size that the first loop of `serializarPCB` counts.

The program is not fixed: what instruction `codigo[i]` is gets chosen from `Permitidas` the
first time it runs, so one run covers every program of the family.

`perdido` and `caida` say where C leaves the model. `retornar` frees a context and leaves
its entry in the list; a call that follows in the same burst is appended after that
entry while `sizeContextoActual` points to it, so it runs on freed memory unless `malloc`
gives the block back (`reusa`, which the model chooses). `perdido` marks the runs where it
did not. `caida` is the step that follows NULL or a freed context: a second argument (its
number is looked up in the list of variables, line 447) or a call from a function that
has no variables or, when the entry below its own is the one that a return freed, has its
first one to define (line 378 takes that context's last variable). The properties hold up to
there and say that nothing else breaks a
stack. The restrictions are `PaginaAssumption` (pages of a whole number of words; the
hazards say what other sizes do), `PermitidasAssumption`, that labels are declared, what is
declared is not an argument, a call has at most two arguments and the last
instruction returns, ends or jumps, which is what the parser lets through, and that a program
does not return from `main`.

`Programa` has a pile of calls with names and values. `CpuRefina` reads it off the
addresses: a name's value is what the word at its address holds, and the variable that
awaits a call's result is the one whose address is `retVar`.

## 3. Runs

| Run | Instance | What it shows |
|---|---|---|
| `nucleo_base` | 3 consoles, 2 CPUs, 1 semaphore at 0, calls 341 and 343, no failures | the three semaphores count their queues (`TokensCoinciden`), a CPU that waits is on offer (`CPUDisponible`), `Procesos` is implemented |
| `nucleo_fallas` | 2 consoles of which one may close, 1 CPU with SIGUSR1, SIGINT and death, 1 IO device, every call | no process is lost or in two places (`UnSoloLugar`), FINALIZAR is sent at most once (`FinalizadoUnaVez`) |
| `nucleo_cpus` | 2 consoles, 2 CPUs of which one leaves or dies, 1 IO device, one reload | no PCB on two CPUs, `dameProceso` always finds its process, no signal is lost |
| `nucleo_vivo` | 2 consoles, 2 CPUs, a semaphore, one reload, the screen's timer, fairness | what is ready is dispatched and `mutex_config` is given back, unless the screen interrupts the reload |
| `nucleo_caso_raro`, `nucleo_aborto_perdido`, `nucleo_recarga_pierde` | the smallest instance of each | findings 1 to 3 |
| `swap_paginas` | 3 processes of 1 or 2 pages in a file of 5, 2 values | `Almacen` is implemented, pages are together, compaction ends |
| `umc_paginas` | 2 CPUs, 2 processes of 3 pages of which one may be flushed, 2 frames, TLB of 1, both algorithms | one owner to a frame and no write lost until an end re-marks a frame taken since its count; the clock well formed, no dangling TLB entry, the mutex given back |
| `cpu_programa` | the programs of nine instructions that `MCCpu` allows, pages of 2 words, a stack of 3 pages, bursts of 1 and 5 | `Programa` is implemented however a run is cut; no two variables share a word; a PCB survives its trip; what is fetched is the instruction |
| `umc_marco_repetido`, `umc_flush_codigo` | the same, with overlapping faults; with one CPU | findings 4 and 5 |

*Bounds.* `MaxLlamadas` limits the system calls and quanta of a process (two in
`nucleo_caso_raro`, one elsewhere) and `MaxRecargas` the reloads. Two processes that each may
block, signal, do IO and be preempted already meet in every pair of queues, and three of
them (`nucleo_base`) make a semaphore queue of two behind a running one. With two CPUs a report and a
dispatch, or a death and a signal, interleave. A single CPU is enough in `nucleo_fallas`, where the
races are among the console threads, the handler and one CPU's thread. In the SWAP five
pages in the hands of three processes of one or two leave holes of every size between
them: a request that fits only when they are joined, and a move onto pages that the
moved process still holds. In the UMC two frames for two processes of three pages make every
outcome happen: no frame at all, one's own victim, a victim that is modified, an entry
pushed out of the TLB between its two locks. What two frames cannot show is a clock with
three hands to choose from; the proofs do not depend on the number. In the CPU the nine
instructions start at every offset and take up one to three pages of 8 bytes; the program
may call with and without arguments, recurse, loop, redeclare a name or use one that was
not declared; recursion fills the six words of the stack, and `MaxContextos` = 4 lets that
happen before it stops a call; bursts of 1 serialize at every instruction, those of 5 let
a return and the next call share one.

*Deadlock* is not checked where the system may stop: in `Nucleo` all programs end or the
process dies, in `Umc` it may follow a null pointer, in `Cpu` the program ends. It is checked in `swap_paginas`.

*Fairness.* `Nucleo!SpecJusta` is weakly fair for each thread, whose steps the kernel
schedules, for the IO handler and the reload once it has begun, and for the CPU programs, which go on
with their burst. Nothing is assumed of the consoles, of failures, of signals, of when the configuration changes or of
when the screen's timer expires: it may do so at any moment or never. It is enough because a thread's enabled
step is not taken away by another: the mutex it awaits is given back by threads that are
themselves fair, but for `main` when its own screen awaits that mutex (`Trabado`), the one exception
in `DespachoEventual` and `MutexSeSuelta` besides the end of the NUCLEO. `Swap!SpecJusta` is weakly fair for the compaction under way, which is the
body of a loop of the only thread.

## 4. Findings

1. `nucleo_caso_raro`: `abortarProceso` looks in one queue after the other, never in
   `cola_new`, and not in a thread's hands. Line 774 says that not finding the process
   could not happen; the run finds it, and the process goes on with no console.
2. `nucleo_aborto_perdido`: an abort of a running process sets `abortado` after it gave
   `mcola_exec` back (733). The CPU's thread may have read the mark already and queue the
   process on a semaphore, where nobody looks at the mark; it never ends.
3. `nucleo_recarga_pierde`: a reload tests that the queues are empty with no lock (1472)
   and replaces them afterwards; a process queued in between is lost.
4. `umc_marco_repetido`: `escribir_una_pagina` calls `marco_nuevo` without
   `semaforo_mutex_marcos`; two faults get one frame.
5. `umc_flush_codigo`: the SWAP's ESCRIBIR multiplies the page number by the page size
   where one page was meant; for page 0 it writes an empty buffer. The programs do not
   write to page 0, but the operator's `flush memory` marks every page as modified, and the
   next replacement of page 0 loses the code.

The runs of `Nucleo` also reach null pointers that nothing in the repository promises
away (an abort that empties `cola_ready` after the PCP took its token, a second timer
armed by an abort, a semaphore's queue emptied between its test and its pop); those of
`Umc` one more, the write fault of a process with no page when no frame is left. They are
steps of the model and are listed as hazards. So are the two of the CPU (`perdido` and
`caida`, above).

Two more things go wrong in the code, and the properties they would refute name them as their exception.
*The screen inside a reload* (nucleo.c:581 in the handler, 1485-1583 in `main`): without
`\/ Detenido`, `MutexSeSuelta` fails in `nucleo_vivo` in a trace of 12 states and `DespachoEventual` in one of
13, each followed by stuttering. *A frame freed twice* (tabla_de_paginas.c:55-60 under commonsV2.c:13
and 18): without `~remarcado =>`, `UnaPaginaPorMarco` fails in `umc_paginas` in 26 states and
`NadaSePierde` in 37. A read fault whose test found a frame available chooses the first one that is,
which may by then be one that the count of another process's end has just
freed, and the removal frees it again. With the exceptions, the properties say that nothing else does either harm.

## 5. Proofs

All hold for any number of processes, CPUs, pages and frames, under the named assumptions
on the constants in each module, which TLC evaluates too.

**`NucleoPruebas`.** `TypeOK` is not inductive: whether `Append(cola.ready, p)` is a
sequence of processes depends on what the thread has in its hands when it gets there.
`Tipos` adds that, thread by thread: a CPU's thread has a process at the steps that use one
and a packet of the right code at those that read its fields, so does the dispatcher, and
the token count of `cola_new` says that `hilo_PLP` never pops an empty queue. From
`TiposSiempre` follow `TypeOKSiempre` and, with a second invariant on top,
`SinSenialPerdidaSiempre`. That one needs to know that a wait which found the semaphore at
zero still finds it so when the PCB arrives in the second message and the process queues
itself: `EsperaConCero`, which holds because the thread has had `mutex_config` all along,
which is `MutexConDuenio` (`MutexConDuenioSiempre`): a CPU's thread, the PCP or `main` inside a reload has it. One lemma per group of actions shows
who may change a semaphore and that they hold the mutex.

**`NucleoLugares`.** `UnSoloLugar` and `FinalizadoUnaVez` speak of one process and seven kinds
of place, and a step that takes a process from one of them is right only if it is in none of the others. The
invariant `ILugares` says that there is a function `donde` from the processes to the places such
that every queue holds, once each, exactly the processes that `donde` puts there (`Vive`), and
every thread has in its hands the one that `donde` gives it. A step that moves a process moves one
value of `donde`: the lemmas `Sale`, `Entra` and `Mueve` say what that does to one queue, and each action cites
them for the queue it takes from and the one it puts into, while the rest stay by `Fuera`. Three more parts are
needed. `ManosVacias`: a thread about to take a process has none, or it would lose it.
`Cargas`: a process that the UMC has not accepted is nowhere, so it enters `cola_new` once. And `Finales`: a process
that was ended is in `cola_exit` or was never admitted, and the thread of a dead CPU is the only
one that still owes its FINALIZAR. `UnSoloLugarSiempre` assumes `MaxRecargas` = 0, as
`nucleo_fallas` does: a reload may free the queue of a semaphore with a process in it
(finding 3), and that process is nowhere. `FinalizadoUnaVezSiempre` assumes nothing.

**`NucleoProtocolo`.** `NoDosCPUs` compares what a CPU program holds with what the NUCLEO
believes, and between the two there are packets in a socket. The invariant `IProtocolo` is an
agreement for each CPU (`Acuerdo`) in three parts. `Turno`: the socket is in
`cola_CPU_libres` or with the PCP, or one process of `cola_exec` has it (`Suyos`), or the
thread is serving a report (`ConTurno`), never two of these. `Estado`: what each state of the
program implies for its own fields and its thread. `Conversa`: what may be left in the socket;
while the program runs, only requests that leave the process in `cola_exec`; while it awaits the
answer to a wait, the 341 as the last packet, or nothing and the thread at work on that very
process; after the burst, the report as the last packet, or the 380 and its 340, and nothing once
the CPU is free again. A program that got a signal dies after its burst, and of what a dead one
left `Conversa` says nothing, because one that got a SIGINT reports twice.
`Atendible` is what survives the death of a program that got no SIGINT: a packet that needs the
process finds it, and nothing is asked after a report. The lemmas on one agreement (`Toma`, `Lee`,
`Concede`, `Termina`, ...) speak of records and sequences only, with no state; each action
cites one, and `PasoDeUna`, `PasoDelHilo` or `PasoAjeno` say that it leaves the other CPUs alone. That
what `dameProceso` finds is the only one comes from `ILugares`, which also says that the process
that the PCP or a thread puts into `cola_exec` was not there. `NoDosCPUsSiempre` assumes
nothing; `NuncaSinProcesoSiempre` assumes `CPUsConInt` = {}, as the property says.

**`NucleoImplementa`.** What holds only while nothing fails. Its theorems assume `SinFallas`: no
console closes before its program ends and no CPU dies or gets a signal, as in `nucleo_base`;
reloads are allowed. Without it they are false of the code: two aborts in ready leave a token
too many, and a process aborted at its 341 takes its CPU with it (hazards at `nucleo.c:717` and
1090). `INormal` says that nobody is aborted (`Sanos`); that each semaphore, with the token the
PCP may have taken, counts its queue (`Fichas`); that what is in `cola_exec` has a socket
(`ConSocket`); and that a program which awaits a PCB is free, or its thread has the turn, or its
report is still in the socket (`Disponible`). The first three make `TokensCoincidenSiempre`, the
last `CPUDisponibleSiempre`. It rests on `IProtocolo`: that the report is the last packet says
that nothing follows what the thread has just read.

`RefinaProcesosSiempre`: `Nucleo` implements `Procesos`. The state of a process is read off its
place (`SitiosBien`, from `ILugares`), so a step that moves one value of `donde` moves one
process, and each action is an arrow of the life cycle (`Paso`) or changes no state. The arrow
into `exec` has a guard, that fewer processes run than there are CPUs, while the code only counts
tokens. The proof maps each process that runs to the CPU whose turn it has: by `Turno` no two
map to one, and none to the socket that the PCP has just taken, so there is an injection into the
CPUs without that one. It needs a finite set of CPUs.

**`SwapPruebas`.** `Contiguos` speaks of the moments when a request is taken and is false in
the middle of a compaction, when a process may have a hole in it. What holds always is
`SinIntrusos`: nobody else's page is between two of its own. Moving the first occupied
page after a hole to the first free page preserves it, because all pages before the
moved one are occupied up to the hole and free from there on. When the loop breaks, no
occupied page follows a free one, and with `SinIntrusos` that gives `Contiguos`. `IInv` is
`TypeOK`, both of these, and that the process which waits for the compaction has no page
(`PedidoNuevo`). That the search finds a border whenever a free page comes before an
occupied one is `HayBorde`, from the least element of a set of naturals (`Minimos`).

**The page store (`SwapPruebas`).** The list of a process's pages is `disco` along the enumeration of the
pages it owns, in ascending order. `Enumera` says that an increasing list of all the
elements of a set is its enumeration, so each step has only to give such a list: an interval when
a process is installed or, by `Contiguos`, when a request is served; the old list with the
moved page in its new place when compaction moves one, which is increasing because all the
pages between the two places are free (`LugaresDeMueve`). `LibresSonHuecos` counts the free pages
on both sides by a bijection from the occupied pages to the elements of the lists. When
compaction has nothing left to move, the free pages are the last ones, so a code that fits
nowhere has more pages than are free (`SiNoCabe`), which is when `Almacen` refuses it.

**`UmcPruebas`.** `MarcosSeSueltan` is inductive with the types of the threads' records.
The theorem does not restrict how requests overlap: the mutex is never left taken, even when
`marco_nuevo` gives back one that it never took.

**The clocks (`UmcPruebas`).** `RelojBienArmado` for any overlap of requests. `IReloj` adds what the entries
are (`EntradasOK`), the stages of a process and of its end (`Etapas`), that exactly one page has the puntero when any is present (`Reloj`), that
no two threads run one process (`Distintos`), and what each thread may rely on at each place
(`HiloBien`: a thread that is serving a fault has a page that is absent; one that replaces has
some present). The lemmas about the replacement (`VictimaPresente`, `NuevoPunteroEsta`,
`ReemplazoHace`) hold for either algorithm and any order of the frames around the clock.

**The TLB and the types (`UmcPruebas`).** `TLBSinColgados` needs to know that a thread which
missed a page adds one that is still not in the TLB when it gets to it (`FalloBien`: only that
thread runs the process, by `Distintos`), and that no reference is left when the table is
freed, so the references are to processes that are `"vivo"` or `"sinSwap"`, the stages before the table's. What
`remove_and_destroy_all_such_that` leaves (`Sin`) is a recursive function over the list;
`SinHace` proves, by induction on the elements visited, that it keeps the elements not
removed, no more than there were and each once. The library's induction theorems cannot be
instantiated, so `Induccion` (`Minimos`) states induction for a set of naturals, from the least
element of its complement, and a recursive function is shown to exist in the same way.
`TypeOK` adds to `IReloj` that a page which is absent has no frame (`Ausentes`) and what the
frames and the SWAP hold (`DatosOK`).

**The frames (`UmcPruebas`).** `UnaPaginaPorMarco`, under `~FallasSolapadas`, without which finding 4
refutes it. A frame's owners are the pages present that an end has not counted, and the pages for which a thread
has taken it and has not yet noted it (`EnTablaDe`, `Tomado`). One invariant is about the end: there is one at a time, and the pages it has still to
count are present (`IFin`). The other is who may look at `control_de_marcos`: a read only with the mutex
(`ConMutex`), a write fault only when nobody else has a request (`Aparte`); so a frame is still
available when it is taken after the test (`MarcoLibre`), because an end only makes more of them available. As long as nothing is `remarcado`, the bits of
`disponible` are the frames of nobody and the others have one owner (`MarcosBien`): counting an entry takes its page from the
owners and sets the bit, and removing one then finds the bit set, or somebody has taken the frame and the step is the one
that sets `remarcado`. `DuenosQuedan` and `MarcosQuietos` cover the steps that touch no frame.

**The bytes (`UmcPruebas`).** `NadaSePierde` on top of it, under the same condition. The strengthening is `Limpia`: a page that is
not marked as modified is in the SWAP as it is in memory, which is why a victim that is not
marked may be dropped; and a thread that accesses a page finds it present
(`AccedePresente`). What a thread writes in its frame is in no other page's, because a frame has one owner (`OtroMarco`).

**The packets (`CpuPruebas`).** `serializarPCB` walks lists whose lengths it counts apart, and
`desserializarPCB` trusts the counts. `PCBVuelve` says that what is unpacked is what was packed, for any
number of contexts, arguments and variables, but for the entries of freed contexts above
`sizeContextoActual`, which do not travel. A sequence of sequences laid end to end is described by
the sums of their lengths (`Suma`, `Aplanada`), both recursive functions of the model are shown to
be those sums, and so a context begins where the one before it ends (`EnSuLugar`). `IdaYVuelta` follows, and so
does what the invariant needs: the machine that a CPU unpacks is the one that another packed.

**The fetch (`CpuPruebas`).** `leer` splits a fetch by recursion. `Trozos` lists the requests it
makes in closed form, the first up to the border, whole pages, and the rest;
`LeeLaDelPc` says that their bytes one after the other are those of the instruction, which is
`LeerExacta` wherever an instruction begins and however many pages it crosses. By
`LiteralUnico`, from `IndiceAssumption` (instructions follow each other with no gap), those bytes
are of no other instruction, so what the CPU runs is what the program has at its pc: the
invariant needs it to know where a jump or the end may leave the pc.

**The stack (`CpuPruebas`).** `PilaOrdenada` and `TypeOK` are not inductive: what the next primitive
does depends on the list of contexts and on a program's letters, and outside a CPU
the machine is a packet. `Inv` says that the machine is `Buena` while it is in a CPU and that
the packet unpacks to one that is, while it is out. `Buena` has two parts. `Entera` holds
always: the list names blocks, the first is the context of `main` and nobody else's, a return goes
to an instruction of the program (`retPos + 1`), and while the program is not aborted each
address, and the one that waits for what a call returns, is a word of the stack. `Apilada` holds until
the program is aborted or C leaves the model (`Sana`): the contexts of the list
are distinct and not freed, and addresses grow inside a context and from each to those above it. It is
stated by pairs and not on the flattened list, so a variable that is defined has only to be above all
others (`EsPosterior`): the word after the greatest address (`EsLaMayor`), wherever
`definirVariable` looks for that one: among the context's variables, its arguments, or the
variables of the context below. One lemma says what each primitive does to a machine that is `Buena`,
with no state and no step (`Definida`, `Apila`, `Desapila`, ...), and each action composes
those it calls: a call pushes a context and then defines its
arguments one by one, so `ConLlamadaBien` follows the machine through each (at most two, by
`PermitidasAssumption`). All these theorems assume only the named assumptions of `Cpu`.

**What the proofs changed in the model.** The proof of `PilaOrdenada` would not close for a function with no
arguments that defines its first variable when the entry below its own is of a freed context, which takes
more calls after a return than a run of TLC makes: the model read that context, for which it has no
value. It is a use after free as the other two, and `TrasElAnterior` now ends that run in `caida`.

**Only model-checked.** The liveness properties, which are out of the proof system's
reach, and that `Cpu` implements `Programa`: a step of the abstract program is found from
addresses, through `CHOOSE` of the variable that has one, and its values through memory, which needs
an invariant on what every word holds.

## 6. Not modelled

The framing and handshake of the sockets, the parser of the programs, what `dibujarPantalla`
prints and the UMC's reports. Memory that is never freed. Pages whose size is not a multiple of
4. No liveness is stated of `Cpu`: a burst ends because each instruction takes one of the quantum, and a program
with a loop need not.

*Names.* The NUCLEO ends with `exit(0)` when a program names a semaphore, a shared variable or a device that is not in
its configuration (nucleo.c:382, 398, 411, 429, 468, 485 and 511). The model's programs only name those that are.
`NuncaSinProceso` is about the `exit` of `dameProceso` only.

*Signals.* A SIGRTMIN that another thread takes, because `main` is in its handler, could make that thread wait
for a mutex it holds: `mutex_config` in the screen's branch, or the mutex of a queue that the
handler locks. And so could one that reaches `main` between `makeTimer` and the end of `conectarUmc` (144-146, 193-202), at start-up,
while `main` holds `mutex_config`: `Init` is after it.

*Undefined in C.* Lists used by two threads with no common mutex (`cola_new`, `cola_CPU_libres`, the queues of the devices and semaphores when
`abortarProceso`, `analizarIO` or `dibujarPantalla` reads them), the UMC's list of frames when an end writes it and a fault reads it,
and the lists that a reload replaces under a reader: the model makes each operation on them atomic and says
nothing of what a torn one does. Reads of freed memory (a CPU that dies in the middle of a
request to the UMC while the NUCLEO ends its process) and of uninitialised memory
after a failed `recv` are in the hazards. A PCB that cannot be read (`CpuPCBIlegible`) always ends the NUCLEO in the model; the code may also
go on with garbage (hazard at nucleo.c:1033).

## 7. Plan

The order was: the scheduler, because everything concurrent meets there; the SWAP, small
and closed, with the store it promises; the UMC between both; the CPU on top; then the proofs of the
SWAP's and the UMC's promises. Next:

1. The list of the clock as `lista_circular_clock` and `circular_list_starting_with`
   build it, compared with the closed form in `Umc` over every state of the entries with
   three and four frames.
2. The proof that `Cpu` implements `Programa`, on top of `CpuPruebas`: by `PilaOrdenada` an
   address names one variable, so the choice in `CpuRefina` is unique and a write changes one value.
