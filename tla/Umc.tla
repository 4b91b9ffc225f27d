-------------------------------- MODULE Umc --------------------------------
(***************************************************************************)
(* The UMC (UMC/src): the memory the CPUs read and write by process and    *)
(* page.  Frames are few; each process has at most cantidad_maxima_marcos  *)
(* of them and replaces its own pages by CLOCK or modified CLOCK; the      *)
(* victim goes to the SWAP if it was modified.  A TLB of references to the *)
(* page table's entries saves the slow search.                             *)
(*                                                                         *)
(* One thread per CPU (atender_cpu), one for the NUCLEO (atender_nucleo)   *)
(* and the console's.  A thread's steps are cut where another thread can   *)
(* tell: taking the mutexes, and each look at control_de_marcos, which     *)
(* semaforo_mutex_marcos guards only in leer_una_pagina.  The entries, the *)
(* frames and the swap's pages of a process are touched by the thread of   *)
(* the CPU that runs it and by nobody else, so what it does with them is   *)
(* one step with the look that precedes it.  semaforo_mutex_tabla_de_paginas *)
(* is kept for more than a look by the end of a process only, which does    *)
(* not take semaforo_mutex_marcos and marks the frames one by one, twice.   *)
(*                                                                         *)
(* A page's bytes are one value: which process and page they are of and    *)
(* a version, 0 for the code the process came with, that each write flips. *)
(* ultima_vez_usado is the order of the sequence tlb.  The SWAP is what    *)
(* Almacen says: pages of each process, of which page 0 loses what is      *)
(* written to it.                                                          *)
(***************************************************************************)
EXTENDS Integers, Sequences, FiniteSets

CONSTANTS CPUs, Pids,
          CantidadPaginas,          \* pages of each process
          cantidad_marcos, cantidad_maxima_marcos, entradas_TLB,
          Algoritmos,               \* the values ALGORITMO may have
          Accesos,                  \* <<op, pid, page>>: what the programs do
          Flusheables,              \* processes the operator gives to flush memory
          FallasSolapadas,          \* may a write fault meet another request?
          NADIE, BASURA

Paginas == 0 .. CantidadPaginas - 1

ASSUME MarcosAssumption ==
  /\ cantidad_marcos \in Nat \ {0}
  /\ cantidad_maxima_marcos \in Nat \ {0}
  /\ entradas_TLB \in Nat
  /\ CantidadPaginas \in Nat \ {0}
ASSUME AlgoritmoAssumption == Algoritmos \subseteq {"CLOCK", "MODIFICADO"}
ASSUME AccesosAssumption == Accesos \subseteq {"leer", "escribir"} \X Pids \X Paginas
ASSUME FlusheablesAssumption == Flusheables \subseteq Pids
ASSUME NadieAssumption == NADIE \notin Pids \cup CPUs

VARIABLES
  tabla,        \* tabla_de_paginas: the entries of each process
  disponible,   \* control_de_marcos
  memoria,      \* what each frame holds
  tlb,          \* the entries in the TLB, the least recently used first
  mutexMarcos,  \* semaforo_mutex_marcos: NADIE, or the CPU whose thread took it
  hilo,         \* the threads of the CPUs
  proceso,      \* what the NUCLEO's thread has done with each process
  faltan,       \* pages that the pass over the process that ends has not reached
  swap,         \* the pages of each process in the SWAP
  version,      \* the version last written to each page
  algoritmo,    \* what UMC.config said of it
  caida,        \* the UMC followed a null pointer
  remarcado     \* an end has made a frame available that was another's by then;
                \* no guard reads it

vars == <<tabla, disponible, memoria, tlb, mutexMarcos, hilo, proceso, faltan, swap, version,
          algoritmo, caida, remarcado>>

Marcos == 0 .. cantidad_marcos - 1
Codigo(p) == [g \in Paginas |-> <<p, g, 0>>]

\* crear_nueva_entrada.  Marco and uso are not read while presencia is false
\* and are set when it becomes true, so a page that loses its frame is Nueva.
Nueva == [marco |-> -1, presencia |-> FALSE, modificado |-> FALSE,
          puntero |-> FALSE, uso |-> TRUE]

Ocioso == [pc |-> "espera", pid |-> NADIE, op |-> "leer", pagina |-> 0, marco |-> -1]

Init == /\ tabla = [p \in Pids |-> [g \in Paginas |-> Nueva]]
        /\ disponible = [m \in Marcos |-> TRUE]
        /\ memoria = [m \in Marcos |-> BASURA]
        /\ tlb = <<>>
        /\ mutexMarcos = NADIE
        /\ hilo = [k \in CPUs |-> Ocioso]
        /\ proceso = [p \in Pids |-> "nuevo"]
        /\ swap = [p \in Pids |-> Codigo(p)]
        /\ version = [p \in Pids |-> [g \in Paginas |-> 0]]
        /\ algoritmo \in Algoritmos
        /\ caida = FALSE
        /\ faltan = {}
        /\ remarcado = FALSE

-----------------------------------------------------------------------------
(* The clock of a process, on its entries e.  The list that                *)
(* lista_circular_clock builds, by frame and from the puntero on, is the    *)
(* order of the distance from the puntero's frame around the clock.  Two of  *)
(* its pages are in one frame only once remarcado, and either is taken then. *)

Presentes(e) == {g \in Paginas : e[g].presencia}
Puntero(e) == CHOOSE g \in Presentes(e) : e[g].puntero
Distancia(e, desde, g) == (e[g].marco - e[desde].marco) % cantidad_marcos

\* list_find over that list.
Primera(e, S) == CHOOSE g \in S : \A h \in S :
                   Distancia(e, Puntero(e), g) <= Distancia(e, Puntero(e), h)

Antes(e, v) == {g \in Presentes(e) : Distancia(e, Puntero(e), g) < Distancia(e, Puntero(e), v)}

\* The victim and the pages whose uso is cleared on the way to it.  In CLOCK
\* the first without uso; if all have it the list is walked twice.
VictimaClock(e) ==
  LET sinUso == {g \in Presentes(e) : ~e[g].uso}
  IN  IF sinUso # {} THEN [pagina |-> Primera(e, sinUso),
                           pierdenUso |-> Antes(e, Primera(e, sinUso))]
                     ELSE [pagina |-> Puntero(e), pierdenUso |-> Presentes(e)]

\* In modified CLOCK (uso, modificado) = (0,0), then (0,1) clearing uso, and
\* both again.
VictimaModificado(e) ==
  LET sinUso == {g \in Presentes(e) : ~e[g].uso}
      limpias == {g \in Presentes(e) : ~e[g].modificado}
  IN  CASE sinUso \cap limpias # {} ->
             [pagina |-> Primera(e, sinUso \cap limpias), pierdenUso |-> {}]
        [] sinUso # {} /\ sinUso \cap limpias = {} ->
             [pagina |-> Primera(e, sinUso), pierdenUso |-> Antes(e, Primera(e, sinUso))]
        [] sinUso = {} /\ limpias # {} ->
             [pagina |-> Primera(e, limpias), pierdenUso |-> Presentes(e)]
        [] OTHER ->
             [pagina |-> Puntero(e), pierdenUso |-> Presentes(e)]

Victima(e) == IF algoritmo = "CLOCK" THEN VictimaClock(e) ELSE VictimaModificado(e)

\* avanzar_victima: the puntero goes to the page after the victim; if the
\* victim is the only one, to the page that takes its frame.
NuevoPuntero(e, v, nueva) ==
  LET otras == Presentes(e) \ {v}
  IN  IF otras = {} THEN nueva
      ELSE CHOOSE g \in otras : \A h \in otras : Distancia(e, v, g) <= Distancia(e, v, h)

\* A mutant: the frame is not noted in the new entry.
ReemplazoSinMarco(e, nueva) ==
  LET v == Victima(e).pagina
      puntero == NuevoPuntero(e, v, nueva)
  IN  [g \in Paginas |->
         IF g = nueva THEN [e[g] EXCEPT !.uso = TRUE, !.presencia = TRUE, !.puntero = g = puntero]
         ELSE IF g = v THEN Nueva ELSE [e[g] EXCEPT !.puntero = g = puntero]]

\* The entries after algoritmo_remplazo gives the victim's frame to nueva.
Reemplazo(e, nueva) ==
  LET v == Victima(e).pagina
      puntero == NuevoPuntero(e, v, nueva)
      sigue(g) == [e[g] EXCEPT !.uso = e[g].uso /\ g \notin Victima(e).pierdenUso,
                               !.puntero = g = puntero]
  IN  [g \in Paginas |->
         IF g = nueva
         THEN [e[g] EXCEPT !.marco = e[v].marco, !.uso = TRUE, !.presencia = TRUE,
                           !.puntero = g = puntero]
         ELSE IF g = v THEN Nueva ELSE sigue(g)]

-----------------------------------------------------------------------------
(* The threads of the CPUs.                                                 *)

Entrada(k) == tabla[hilo[k].pid][hilo[k].pagina]
EsDe(k, pc) == ~caida /\ hilo[k].pc = pc
Pasa(k, pc) == hilo' = [hilo EXCEPT ![k].pc = pc]

\* semaforo_mutex_tabla_de_paginas is free.
TablaLibre == \A p \in Pids : proceso[p] \notin {"contando", "quitando"}

\* CAMBIAR_PROCESO, which the CPU sends before anything else when it gets a
\* PCB (CPU.c:79).  The NUCLEO gives a process to one CPU at a time.
CambiarProceso(k, p) ==
  /\ EsDe(k, "espera")
  /\ hilo[k].pid = NADIE
  /\ proceso[p] = "vivo"
  /\ \A j \in CPUs : hilo[j].pid # p
  /\ hilo' = [hilo EXCEPT ![k].pid = p]
  /\ UNCHANGED <<tabla, disponible, memoria, tlb, mutexMarcos, proceso, swap, version, caida>>

\* The CPU gives the process back to the NUCLEO.  pid_actual keeps its value
\* and is not used again before the next CAMBIAR_PROCESO.
Deja(k) ==
  /\ EsDe(k, "espera")
  /\ hilo[k].pid # NADIE
  /\ hilo' = [hilo EXCEPT ![k] = Ocioso]
  /\ UNCHANGED <<tabla, disponible, memoria, tlb, mutexMarcos, proceso, swap, version, caida>>

\* A write to a page without a frame, which escribir_una_pagina serves without
\* taking semaforo_mutex_marcos.
FallaDeEscritura(op, p, g) == op = "escribir" /\ ~tabla[p][g].presencia

\* A LEER or an ESCRIBIR arrives.  Unless FallasSolapadas a write fault is
\* served alone, and control_de_marcos can be trusted; see MarcoParaUno.
Pide(k, op, g) ==
  /\ EsDe(k, "espera")
  /\ hilo[k].pid # NADIE
  /\ <<op, hilo[k].pid, g>> \in Accesos
  /\ ~FallasSolapadas => \A j \in CPUs \ {k} :
       hilo[j].pc # "espera" =>
         /\ ~FallaDeEscritura(op, hilo[k].pid, g)
         /\ ~FallaDeEscritura(hilo[j].op, hilo[j].pid, hilo[j].pagina)
  /\ hilo' = [hilo EXCEPT ![k].pc = "busca", ![k].op = op, ![k].pagina = g]
  /\ UNCHANGED <<tabla, disponible, memoria, tlb, mutexMarcos, proceso, swap, version, caida>>

Refe(k) == <<hilo[k].pid, hilo[k].pagina>>

\* remove_and_destroy_all_such_that: s without the references of X.  It is a
\* SelectSeq, written as a function that the proofs can open.
Sin(X, s) ==
  LET quedan[i \in 0 .. Len(s)] ==
        IF i = 0 THEN <<>>
        ELSE IF s[i] \in X THEN quedan[i - 1] ELSE Append(quedan[i - 1], s[i])
  IN  quedan[Len(s)]

EnTLB(x) == x \in {tlb[i] : i \in DOMAIN tlb}

\* Where leer_una_pagina and escribir_una_pagina go with the entry they found.
Encontrada(k) == IF Entrada(k).presencia THEN "accede"
                 ELSE IF hilo[k].op = "leer" THEN "marcos" ELSE "revisa"

\* buscar_tlb up to its first unlock, or the search in the table when the TLB
\* is off.
Busca(k) ==
  /\ EsDe(k, "busca")
  /\ entradas_TLB = 0 => TablaLibre
  /\ Pasa(k, IF entradas_TLB = 0 THEN Encontrada(k)
             ELSE IF EnTLB(Refe(k)) THEN "acierto" ELSE "fallo")
  /\ UNCHANGED <<tabla, disponible, memoria, tlb, mutexMarcos, proceso, swap, version, caida>>

\* A hit: the entry is now the last used.  If another thread's miss pushed it
\* out in between, it has a newer date and is not in the TLB.
Acierto(k) ==
  /\ EsDe(k, "acierto")
  /\ tlb' = IF EnTLB(Refe(k)) THEN Append(Sin({Refe(k)}, tlb), Refe(k)) ELSE tlb
  /\ Pasa(k, Encontrada(k))
  /\ UNCHANGED <<tabla, disponible, memoria, mutexMarcos, proceso, swap, version, caida>>

\* A miss: agregar_entrada_tlb, with remplazo_lru when the TLB is full.
Fallo(k) ==
  /\ EsDe(k, "fallo")
  /\ TablaLibre
  /\ tlb' = Append(IF Len(tlb) < entradas_TLB THEN tlb ELSE Tail(tlb), Refe(k))
  /\ Pasa(k, Encontrada(k))
  /\ UNCHANGED <<tabla, disponible, memoria, mutexMarcos, proceso, swap, version, caida>>

Tiene(p) == Presentes(tabla[p])
Libres == {m \in Marcos : disponible[m]}

\* leer_una_pagina takes semaforo_mutex_marcos and asks no_tiene_ni_hay_marcos:
\* first if the process has a page present,
TomaMarcos(k) ==
  /\ EsDe(k, "marcos")
  /\ mutexMarcos = NADIE
  /\ TablaLibre
  /\ mutexMarcos' = k
  /\ Pasa(k, IF Tiene(hilo[k].pid) = {} THEN "hayMarcos" ELSE "revisa")
  /\ UNCHANGED <<tabla, disponible, memoria, tlb, proceso, swap, version, caida>>

\* (a mutant: the early return of leer_una_pagina leaves the mutex taken)
HayMarcosSinSoltar(k) ==
  /\ EsDe(k, "hayMarcos")
  /\ Pasa(k, IF Libres = {} THEN "espera" ELSE "revisa")
  /\ UNCHANGED <<tabla, disponible, memoria, tlb, mutexMarcos, proceso, swap, version, caida>>

\* and if not, without semaforo_mutex_tabla_de_paginas, if a frame is available.
\* If none is it unlocks and returns a text that atender_cpu does not recognise
\* (it compares with one with colours), and the CPU gets the text as the page.
HayMarcos(k) ==
  /\ EsDe(k, "hayMarcos")
  /\ \/ /\ Libres = {}
        /\ mutexMarcos' = NADIE
        /\ Pasa(k, "espera")
     \/ /\ Libres # {}
        /\ Pasa(k, "revisa")
        /\ UNCHANGED mutexMarcos
  /\ UNCHANGED <<tabla, disponible, memoria, tlb, proceso, swap, version, caida>>

\* A mutant: marco_nuevo unlocks after its test, whatever the answer.
RevisaYSuelta(k) ==
  /\ EsDe(k, "revisa")
  /\ TablaLibre
  /\ mutexMarcos' = NADIE
  /\ Pasa(k, IF Cardinality(Tiene(hilo[k].pid)) = cantidad_maxima_marcos \/ Libres = {}
             THEN "reemplaza" ELSE "elige")
  /\ UNCHANGED <<tabla, disponible, memoria, tlb, proceso, swap, version, caida>>

\* swap_leer and the test of marco_nuevo, which escribir_una_pagina reaches
\* without the mutex.  Before replacing, marco_nuevo unlocks it, whoever has it.
Revisa(k) ==
  /\ EsDe(k, "revisa")
  /\ TablaLibre
  /\ \/ /\ Cardinality(Tiene(hilo[k].pid)) = cantidad_maxima_marcos \/ Libres = {}
        /\ mutexMarcos' = NADIE
        /\ Pasa(k, "reemplaza")
     \/ /\ Cardinality(Tiene(hilo[k].pid)) # cantidad_maxima_marcos /\ Libres # {}
        /\ Pasa(k, "elige")
        /\ UNCHANGED mutexMarcos
  /\ UNCHANGED <<tabla, disponible, memoria, tlb, proceso, swap, version, caida>>

\* What the SWAP keeps of a page written to it (ESCRIBIR of swap.c).
Guardado(g, contenido) == IF g = 0 THEN BASURA ELSE contenido

\* algoritmo_remplazo and escribir_marco with the page that swap_leer brought:
\* the victim is written to the SWAP if it was modified and its frame taken.
Reemplaza(k) ==
  LET p == hilo[k].pid
      e == tabla[p]
      v == Victima(e).pagina
  IN  /\ EsDe(k, "reemplaza")
      /\ TablaLibre
      /\ Presentes(e) # {}
      /\ swap' = IF e[v].modificado
                 THEN [swap EXCEPT ![p][v] = Guardado(v, memoria[e[v].marco])]
                 ELSE swap
      /\ tabla' = [tabla EXCEPT ![p] = Reemplazo(e, hilo[k].pagina)]
      /\ memoria' = [memoria EXCEPT ![e[v].marco] = swap[p][hilo[k].pagina]]
      /\ Pasa(k, "accede")
      /\ UNCHANGED <<disponible, tlb, mutexMarcos, proceso, version, caida>>

\* A process with no page in memory has no victim: algoritmo_remplazo follows
\* the null pointer that list_find returned.
ReemplazaNulo(k) ==
  /\ EsDe(k, "reemplaza")
  /\ TablaLibre
  /\ Tiene(hilo[k].pid) = {}
  /\ caida' = TRUE
  /\ UNCHANGED <<tabla, disponible, memoria, tlb, mutexMarcos, hilo, proceso, swap, version>>

\* marco_nuevo finds the first available frame.  If its test was made without
\* the mutex there may be none left, and it follows the null pointer.
Elige(k) ==
  /\ EsDe(k, "elige")
  /\ hilo' = [hilo EXCEPT ![k].pc = "asigna",
                          ![k].marco = IF Libres = {} THEN -1
                                       ELSE CHOOSE m \in Libres : \A n \in Libres : m <= n]
  /\ caida' = (Libres = {})
  /\ UNCHANGED <<tabla, disponible, memoria, tlb, mutexMarcos, proceso, swap, version>>

\* The frame is taken and the mutex unlocked.
Asigna(k) ==
  /\ EsDe(k, "asigna")
  /\ disponible' = [disponible EXCEPT ![hilo[k].marco] = FALSE]
  /\ mutexMarcos' = NADIE
  /\ Pasa(k, "llena")
  /\ UNCHANGED <<tabla, memoria, tlb, proceso, swap, version, caida>>

\* A mutant: crear_nueva_entrada puts the puntero up.
LlenaConPuntero(k) ==
  LET p == hilo[k].pid
      g == hilo[k].pagina
      m == hilo[k].marco
  IN  /\ EsDe(k, "llena")
      /\ TablaLibre
      /\ tabla' = [tabla EXCEPT ![p][g] = [@ EXCEPT !.presencia = TRUE, !.marco = m,
                                                   !.puntero = TRUE]]
      /\ memoria' = [memoria EXCEPT ![m] = swap[p][g]]
      /\ hilo' = [hilo EXCEPT ![k].pc = "accede", ![k].marco = -1]
      /\ UNCHANGED <<disponible, tlb, mutexMarcos, proceso, swap, version, caida>>

\* The page is in the frame, with the puntero if it is the process's first, and
\* escribir_marco puts there what the SWAP had.
Llena(k) ==
  LET p == hilo[k].pid
      g == hilo[k].pagina
      m == hilo[k].marco
  IN  /\ EsDe(k, "llena")
      /\ TablaLibre
      /\ tabla' = [tabla EXCEPT ![p][g] =
                     [@ EXCEPT !.presencia = TRUE, !.marco = m,
                               !.puntero = Entrada(k).puntero \/ Tiene(p) = {}]]
      /\ memoria' = [memoria EXCEPT ![m] = swap[p][g]]
      /\ hilo' = [hilo EXCEPT ![k].pc = "accede", ![k].marco = -1]
      /\ UNCHANGED <<disponible, tlb, mutexMarcos, proceso, swap, version, caida>>

\* A mutant: a write does not mark the page as modified.
AccedeSinMarcar(k) ==
  LET p == hilo[k].pid
      g == hilo[k].pagina
      nueva == 1 - version[p][g]
      escribe == hilo[k].op = "escribir"
  IN  /\ EsDe(k, "accede")
      /\ memoria' = IF escribe THEN [memoria EXCEPT ![Entrada(k).marco] = <<p, g, nueva>>]
                               ELSE memoria
      /\ version' = IF escribe THEN [version EXCEPT ![p][g] = nueva] ELSE version
      /\ tabla' = [tabla EXCEPT ![p][g].uso = TRUE]
      /\ hilo' = [hilo EXCEPT ![k] = [Ocioso EXCEPT !.pid = p]]
      /\ UNCHANGED <<disponible, tlb, mutexMarcos, proceso, swap, caida>>

\* The access and its answer.
Accede(k) ==
  LET p == hilo[k].pid
      g == hilo[k].pagina
      nueva == 1 - version[p][g]
  IN  /\ EsDe(k, "accede")
      /\ \/ /\ hilo[k].op = "leer"
            /\ tabla' = [tabla EXCEPT ![p][g].uso = TRUE]
            /\ UNCHANGED <<memoria, version>>
         \/ /\ hilo[k].op = "escribir"
            /\ memoria' = [memoria EXCEPT ![Entrada(k).marco] = <<p, g, nueva>>]
            /\ version' = [version EXCEPT ![p][g] = nueva]
            /\ tabla' = [tabla EXCEPT ![p][g].uso = TRUE, ![p][g].modificado = TRUE]
      /\ hilo' = [hilo EXCEPT ![k] = [Ocioso EXCEPT !.pid = p]]
      /\ UNCHANGED <<disponible, tlb, mutexMarcos, proceso, swap, caida>>

PasoDeCPU(k) == \/ \E p \in Pids : CambiarProceso(k, p)
                \/ \E g \in Paginas : Pide(k, "leer", g) \/ Pide(k, "escribir", g)
                \/ Deja(k) \/ Busca(k) \/ Acierto(k) \/ Fallo(k) \/ TomaMarcos(k)
                \/ HayMarcos(k) \/ Revisa(k) \/ Reemplaza(k) \/ ReemplazaNulo(k)
                \/ Elige(k) \/ Asigna(k) \/ Llena(k) \/ Accede(k)

HiloCPU(k) == PasoDeCPU(k) /\ UNCHANGED <<faltan, remarcado>>

-----------------------------------------------------------------------------
(* The thread of the NUCLEO: one request at a time.                         *)

NucleoLibre == ~caida /\ \A p \in Pids : proceso[p] \notin {"sinSwap", "sinTLB", "contando", "quitando"}

\* INICIALIZAR: the process is created if the SWAP has room for it.  Its pages
\* are in the SWAP with the code.
Inicializa(p) ==
  /\ NucleoLibre
  /\ proceso[p] = "nuevo"
  /\ \E donde \in {"vivo", "rechazado"} : proceso' = [proceso EXCEPT ![p] = donde]
  /\ UNCHANGED <<tabla, disponible, memoria, tlb, mutexMarcos, hilo, swap, version, caida,
                 faltan, remarcado>>

\* FINALIZAR, of a process that no CPU is running: its pages leave the SWAP,
FinalizaSwap(p) ==
  /\ NucleoLibre
  /\ proceso[p] = "vivo"
  /\ \A k \in CPUs : hilo[k].pid # p
  /\ proceso' = [proceso EXCEPT ![p] = "sinSwap"]
  /\ swap' = [swap EXCEPT ![p] = [g \in Paginas |-> BASURA]]
  /\ UNCHANGED <<tabla, disponible, memoria, tlb, mutexMarcos, hilo, version, caida,
                 faltan, remarcado>>

\* (a mutant: eliminar_proceso_tlb is not called)
FinalizaSinTLB(p) ==
  /\ ~caida
  /\ proceso[p] = "sinSwap"
  /\ proceso' = [proceso EXCEPT ![p] = "sinTLB"]
  /\ UNCHANGED <<tabla, disponible, memoria, tlb, mutexMarcos, hilo, swap, version, caida,
                 faltan, remarcado>>

\* its entries leave the TLB (eliminar_proceso_tlb),
FinalizaTLB(p) ==
  /\ ~caida
  /\ proceso[p] = "sinSwap"
  /\ proceso' = [proceso EXCEPT ![p] = "sinTLB"]
  /\ tlb' = Sin({p} \X Paginas, tlb)
  /\ UNCHANGED <<tabla, disponible, memoria, mutexMarcos, hilo, swap, version, caida,
                 faltan, remarcado>>

\* and the table: eliminar_proceso_tabla_de_paginas, with
\* semaforo_mutex_tabla_de_paginas and without semaforo_mutex_marcos.
TomaTabla(p) ==
  /\ ~caida
  /\ proceso[p] = "sinTLB"
  /\ proceso' = [proceso EXCEPT ![p] = "contando"]
  /\ faltan' = Tiene(p)
  /\ UNCHANGED <<tabla, disponible, memoria, tlb, mutexMarcos, hilo, swap, version, caida,
                 remarcado>>

\* The present page of the process that the pass finds next.
Sigue(g) == g \in faltan /\ \A h \in faltan : g <= h

\* remove_and_destroy_all_such_that counts the entries of the process, with a
\* condition that makes the frames of those present available,
CuentaEntrada(p, g) ==
  /\ ~caida
  /\ proceso[p] = "contando"
  /\ Sigue(g)
  /\ faltan' = faltan \ {g}
  /\ disponible' = [disponible EXCEPT ![tabla[p][g].marco] = TRUE]
  /\ UNCHANGED <<tabla, memoria, tlb, mutexMarcos, hilo, proceso, swap, version, caida, remarcado>>

\* and then removes as many as it counted,
EmpiezaAQuitar(p) ==
  /\ ~caida
  /\ proceso[p] = "contando"
  /\ faltan = {}
  /\ proceso' = [proceso EXCEPT ![p] = "quitando"]
  /\ faltan' = Tiene(p)
  /\ UNCHANGED <<tabla, disponible, memoria, tlb, mutexMarcos, hilo, swap, version, caida,
                 remarcado>>

\* finding each with the same condition, which makes its frame available again:
\* another page may have it since the count.
QuitaEntrada(p, g) ==
  /\ ~caida
  /\ proceso[p] = "quitando"
  /\ Sigue(g)
  /\ faltan' = faltan \ {g}
  /\ disponible' = [disponible EXCEPT ![tabla[p][g].marco] = TRUE]
  /\ remarcado' = (remarcado \/ ~disponible[tabla[p][g].marco])
  /\ UNCHANGED <<tabla, memoria, tlb, mutexMarcos, hilo, proceso, swap, version, caida>>

\* The entries, which nobody looks at any more, leave the table in one step.
FinalizaTabla(p) ==
  /\ ~caida
  /\ proceso[p] = "quitando"
  /\ faltan = {}
  /\ proceso' = [proceso EXCEPT ![p] = "terminado"]
  /\ tabla' = [tabla EXCEPT ![p] = [g \in Paginas |-> Nueva]]
  /\ version' = [version EXCEPT ![p] = [g \in Paginas |-> 0]]
  /\ UNCHANGED <<disponible, memoria, tlb, mutexMarcos, hilo, faltan, swap, caida, remarcado>>

HiloNucleo(p) == \/ Inicializa(p) \/ FinalizaSwap(p) \/ FinalizaTLB(p) \/ TomaTabla(p)
                 \/ \E g \in Paginas : CuentaEntrada(p, g) \/ QuitaEntrada(p, g)
                 \/ EmpiezaAQuitar(p) \/ FinalizaTabla(p)

-----------------------------------------------------------------------------
(* The console's commands that change something: flush tlb and flush memory. *)

EnTabla(p) == proceso[p] \in {"vivo", "sinSwap", "sinTLB"}

FlushTLB ==
  /\ ~caida
  /\ tlb # <<>>
  /\ tlb' = <<>>
  /\ UNCHANGED <<tabla, disponible, memoria, mutexMarcos, hilo, proceso, faltan, swap, version,
                 caida, remarcado>>

\* flush_memory marks every entry of the process, present or not.
FlushMemory(p) ==
  /\ ~caida
  /\ TablaLibre
  /\ p \in Flusheables /\ EnTabla(p)
  /\ tabla' = [tabla EXCEPT ![p] = [g \in Paginas |-> [@[g] EXCEPT !.modificado = TRUE]]]
  /\ UNCHANGED <<disponible, memoria, tlb, mutexMarcos, hilo, proceso, faltan, swap, version, caida,
                 remarcado>>

Hilos == \/ \E k \in CPUs : HiloCPU(k)
         \/ \E p \in Pids : HiloNucleo(p) \/ FlushMemory(p)
         \/ FlushTLB

Next == Hilos /\ UNCHANGED algoritmo

Spec == Init /\ [][Next]_vars

-----------------------------------------------------------------------------
Entradas == [marco : Marcos \cup {-1}, presencia : BOOLEAN, modificado : BOOLEAN,
             puntero : BOOLEAN, uso : BOOLEAN]
Contenidos == (Pids \X Paginas \X {0, 1}) \cup {BASURA}

\* The types of the variables; an entry has a frame exactly when it is present.
TypeOK ==
  /\ tabla \in [Pids -> [Paginas -> Entradas]]
  /\ \A p \in Pids, g \in Paginas : tabla[p][g].presencia <=> tabla[p][g].marco # -1
  /\ disponible \in [Marcos -> BOOLEAN]
  /\ memoria \in [Marcos -> Contenidos]
  /\ tlb \in Seq(Pids \X Paginas)
  /\ mutexMarcos \in CPUs \cup {NADIE}
  /\ hilo \in [CPUs -> [pc : {"espera", "busca", "acierto", "fallo", "marcos",
                              "hayMarcos", "revisa", "reemplaza", "elige", "asigna", "llena",
                              "accede"},
                        pid : Pids \cup {NADIE}, op : {"leer", "escribir"},
                        pagina : Paginas, marco : Marcos \cup {-1}]]
  /\ proceso \in [Pids -> {"nuevo", "vivo", "rechazado", "sinSwap", "sinTLB", "contando",
                           "quitando", "terminado"}]
  /\ faltan \subseteq Paginas
  /\ swap \in [Pids -> [Paginas -> Contenidos]]
  /\ version \in [Pids -> [Paginas -> {0, 1}]]
  /\ algoritmo \in Algoritmos
  /\ caida \in BOOLEAN /\ remarcado \in BOOLEAN

\* The pages that have a frame: those that are present, until the end of their
\* process counts them, and those for which a thread has taken it.
Devuelta(p, g) == proceso[p] = "quitando" \/ (proceso[p] = "contando" /\ g \notin faltan)
Duenios(m) ==
  {x \in Pids \X Paginas : /\ tabla[x[1]][x[2]].presencia
                           /\ tabla[x[1]][x[2]].marco = m
                           /\ ~Devuelta(x[1], x[2])}
    \cup {Refe(k) : k \in {j \in CPUs : hilo[j].pc = "llena" /\ hilo[j].marco = m}}

\* control_de_marcos tells the truth until an end makes available, as it removes
\* an entry, a frame that was taken after it had counted it: a frame is available
\* or has exactly one owner, whatever ends and faults meet, and an end gives every
\* frame back.
UnaPaginaPorMarco ==
  ~remarcado => \A m \in Marcos : Cardinality(Duenios(m)) = IF disponible[m] THEN 0 ELSE 1

\* A process with pages in memory has one puntero, on one of them, as
\* lista_circular_clock assumes (it would follow a null pointer).
RelojBienArmado ==
  \A p \in Pids :
    /\ Cardinality({g \in Paginas : tabla[p][g].puntero}) = IF Tiene(p) = {} THEN 0 ELSE 1
    /\ \A g \in Paginas : tabla[p][g].puntero => tabla[p][g].presencia

\* What a read of the page would return.
Valor(p, g) == IF tabla[p][g].presencia THEN memoria[tabla[p][g].marco] ELSE swap[p][g]

\* However often a page goes to the SWAP and comes back, whatever other
\* processes do meanwhile, it holds what was last written to it, as long as no
\* end has made its frame available over it.  Page 0 is the subject of
\* CodigoIntacto.
NadaSePierde ==
  ~remarcado => \A p \in Pids, g \in Paginas \ {0} :
    proceso[p] = "vivo" => Valor(p, g) = <<p, g, version[p][g]>>

\* The programs do not write on their code, so it is always what the NUCLEO
\* sent.
CodigoIntacto ==
  \A p \in Pids : (proceso[p] = "vivo" /\ <<"escribir", p, 0>> \notin Accesos) => Valor(p, 0) = <<p, 0, 0>>

\* The TLB refers once to a page, and only to entries that are in the table:
\* eliminar_proceso_tabla_de_paginas frees the others.
TLBSinColgados ==
  /\ Len(tlb) <= entradas_TLB
  /\ \A i, j \in DOMAIN tlb : tlb[i] = tlb[j] => i = j
  /\ \A i \in DOMAIN tlb : EnTabla(tlb[i][1])

\* semaforo_mutex_marcos is held only by a thread that is asking for a frame:
\* every way out of leer_una_pagina and of marco_nuevo unlocks it.
MarcosSeSueltan ==
  mutexMarcos # NADIE => hilo[mutexMarcos].pc \in {"hayMarcos", "revisa", "elige", "asigna"}

\* A frame that is available is given to one page: marco_nuevo is called with
\* semaforo_mutex_marcos taken.
MarcoParaUno ==
  \A m \in Marcos : Cardinality(Duenios(m)) <= 1
=============================================================================
