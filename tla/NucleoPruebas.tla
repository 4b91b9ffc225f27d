--------------------------- MODULE NucleoPruebas ---------------------------
(* Theorems about Nucleo, for any number of consoles, CPUs, semaphores and  *)
(* IO devices, any calls of the programs and any failures.                  *)
EXTENDS Nucleo, SequenceTheorems, TLAPS

(* The strengthening of TypeOK: what is in a thread's hands at each of its  *)
(* steps.                                                                   *)

ConProceso == {"304", "320", "341", "370", "380", "341pcb", "380vacia", "380ocupada",
               "aborta", "terminado"}

ManosDeHilos ==
  \A k \in CPUs :
    /\ hilo[k].pc \in ConProceso => hilo[k].proceso \in Consolas
    /\ hilo[k].pc \in {"341", "341pcb"} => hilo[k].elPaquete.op = "341"
    /\ hilo[k].pc \in {"343", "343saca"} => hilo[k].elPaquete.op = "343"
    /\ hilo[k].pc \in {"380", "380vacia", "380ocupada"} => hilo[k].elPaquete.op = "380"

ManosDeConsolas ==
  \A c \in Consolas : consola[c].pc \in {"marcaIO", "armaIO", "sacaIO"} => consola[c].i \in IOs

ManosDeOtros ==
  /\ pcp.pc = "manda" => pcp.proceso \in Consolas
  /\ \A h \in Manejadores :
       /\ manejador[h].pc = "entrega" => manejador[h].proceso \in Consolas
       /\ manejador[h].pc \in {"entrega", "rearma"} => manejador[h].io \in IOs

EnRafaga == {"ejecuta", "espera342", "espera352", "bloqueada"}

ManosDeProgramas ==
  \A k \in CPUs : cpu[k].estado \in EnRafaga => cpu[k].pcb \in Consolas

Admision == sem.new = Len(cola.new)

Tipos == /\ TiposDeHilos
         /\ ManosDeHilos /\ ManosDeConsolas /\ ManosDeOtros /\ ManosDeProgramas
         /\ Admision

-----------------------------------------------------------------------------
(* Facts about the operators on queues.                                     *)

\* Taking an element out of a queue leaves a queue, one shorter.
LEMMA RemoveAtTipo ==
  ASSUME NEW S, NEW q \in Seq(S), NEW i \in 1..Len(q)
  PROVE  RemoveAt(q, i) \in Seq(S) /\ Len(RemoveAt(q, i)) = Len(q) - 1
<1> DEFINE a == SubSeq(q, 1, i - 1)
           b == SubSeq(q, i + 1, Len(q))
<1>1. a \in Seq(S) /\ Len(a) = i - 1
  BY SubSeqProperties
<1>2. b \in Seq(S) /\ Len(b) = Len(q) - i
  BY SubSeqProperties
<1>3. RemoveAt(q, i) = a \o b
  BY DEF RemoveAt
<1> HIDE DEF a, b
<1>4. a \o b \in Seq(S) /\ Len(a \o b) = Len(a) + Len(b)
  BY <1>1, <1>2, ConcatProperties
<1> QED
  BY <1>1, <1>2, <1>3, <1>4

\* queue_pop of a queue of S: NULO or an element of S, and a queue of S.
LEMMA SacaTipo ==
  ASSUME NEW S, NEW q \in Seq(S)
  PROVE  /\ Saca(q) \in S \cup {NULO}
         /\ Resto(q) \in Seq(S)
         /\ ~Vacia(q) => Saca(q) \in S /\ Saca(q) = Head(q) /\ Resto(q) = Tail(q)
  BY DEF Saca, Resto, Vacia

LEMMA LastTipo ==
  ASSUME NEW S, NEW q \in Seq(S), ~Vacia(q)
  PROVE  Last(q) \in S
  BY DEF Last, Vacia

\* What a process, or a CPU, put in a queue with its sem_post leaves as it was.
LEMMA EncolaReadyTipo ==
  ASSUME NEW p \in Consolas \cup {NULO}, EncolaReady(p), TipoColas, Admision,
         UNCHANGED flag, mutex_config' \in CPUs \cup {PCP, MAIN, NULO}
  PROVE  TipoColas' /\ Admision'
<1>1. Append(cola.ready, p) \in Seq(Consolas \cup {NULO})
  BY DEF TipoColas, Colas
<1>2. sem.ready + 1 \in Nat
  BY DEF TipoColas, Contadores
<1>3. cola' \in Colas /\ cola'.new = cola.new
  BY <1>1 DEF EncolaReady, TipoColas, Colas
<1>4. sem' \in Contadores /\ sem'.new = sem.new
  BY <1>2 DEF EncolaReady, TipoColas, Contadores
<1> QED
  BY <1>3, <1>4 DEF TipoColas, Admision

LEMMA LiberaCPUTipo ==
  ASSUME NEW k \in CPUs, LiberaCPU(k), TipoColas, Admision,
         UNCHANGED flag, mutex_config' \in CPUs \cup {PCP, MAIN, NULO}
  PROVE  TipoColas' /\ Admision'
<1>1. Append(cola.CPU_libres, k) \in Seq(CPUs)
  BY DEF TipoColas, Colas
<1>2. sem.cpu + 1 \in Nat
  BY DEF TipoColas, Contadores
<1>3. cola' \in Colas /\ cola'.new = cola.new
  BY <1>1 DEF LiberaCPU, TipoColas, Colas
<1>4. sem' \in Contadores /\ sem'.new = sem.new
  BY <1>2 DEF LiberaCPU, TipoColas, Contadores
<1> QED
  BY <1>3, <1>4 DEF TipoColas, Admision

LEMMA FinalizarTipo ==
  ASSUME NEW p \in Consolas, FinalizarEnUMC(p), finalizados \in [Consolas -> Nat]
  PROVE  finalizados' \in [Consolas -> Nat]
<1>1. finalizados[p] + 1 \in Nat
  OBVIOUS
<1> QED
  BY <1>1 DEF FinalizarEnUMC

LEMMA AbortarTipo ==
  ASSUME NEW p \in Consolas, Abortar(p), TipoColas, TipoHistoria, Admision
  PROVE  /\ cola' \in Colas /\ cola'.new = cola.new
         /\ finalizados' \in [Consolas -> Nat]
<1>1. Append(cola.exit, p) \in Seq(Consolas)
  BY DEF TipoColas, Colas
<1>2. cola' \in Colas /\ cola'.new = cola.new
  BY <1>1 DEF Abortar, TipoColas, Colas
<1> QED
  BY <1>2, FinalizarTipo DEF Abortar, TipoHistoria

LEMMA MakeTimerTipo ==
  ASSUME NEW d \in IOs, NEW u \in Nat, MakeTimer(d, u), TipoBloqueados
  PROVE  timers' \in [IOs -> Seq(Nat)]
<1>1. Append(timers[d], u) \in Seq(Nat)
  BY DEF TipoBloqueados
<1> QED
  BY <1>1 DEF MakeTimer, TipoBloqueados

\* Which steps of a thread keep its record well typed.
LEMMA ConPasaATipo ==
  ASSUME NEW c \in Consolas, NEW pc \in PCsConsola, NEW i \in Nat, ConPasaA(c, pc, i),
         TipoHilos, ManosDeConsolas, pc \in {"marcaIO", "armaIO", "sacaIO"} => i \in IOs
  PROVE  consola' \in [Consolas -> EstadosConsola] /\ ManosDeConsolas'
  BY DEF ConPasaA, TipoHilos, EstadosConsola, ManosDeConsolas

LEMMA CpuPasaATipo ==
  ASSUME NEW k \in CPUs, NEW pc \in PCsHilo, CpuPasaA(k, pc), TipoHilos, ManosDeHilos,
         pc \in ConProceso => hilo[k].proceso \in Consolas,
         pc \in {"341", "341pcb"} => hilo[k].elPaquete.op = "341",
         pc \in {"343", "343saca"} => hilo[k].elPaquete.op = "343",
         pc \in {"380", "380vacia", "380ocupada"} => hilo[k].elPaquete.op = "380"
  PROVE  hilo' \in [CPUs -> EstadosHilo] /\ ManosDeHilos'
<1>1. hilo' \in [CPUs -> EstadosHilo]
  BY DEF CpuPasaA, TipoHilos, EstadosHilo
<1>2. ManosDeHilos'
  BY DEF CpuPasaA, TipoHilos, EstadosHilo, ManosDeHilos
<1> QED
  BY <1>1, <1>2

LEMMA CpuSueltaTipo ==
  ASSUME NEW k \in CPUs, NEW pc \in {"recibe", "libera", "liberaYSuelta", "recorre"},
         CpuSuelta(k, pc), TipoHilos, ManosDeHilos
  PROVE  hilo' \in [CPUs -> EstadosHilo] /\ ManosDeHilos'
<1>1. hilo' = [hilo EXCEPT ![k] = [hilo[k] EXCEPT !.pc = pc, !.proceso = NULO]]
  BY DEF CpuSuelta, TipoHilos, EstadosHilo
<1>2. [hilo[k] EXCEPT !.pc = pc, !.proceso = NULO] \in EstadosHilo
  BY DEF TipoHilos, EstadosHilo, PCsHilo
<1>3. hilo' \in [CPUs -> EstadosHilo]
  BY <1>1, <1>2 DEF TipoHilos
<1>4. ManosDeHilos'
  BY <1>1 DEF TipoHilos, EstadosHilo, ManosDeHilos, ConProceso
<1> QED
  BY <1>3, <1>4

-----------------------------------------------------------------------------

LEMMA InitTipos == Init => Tipos
  BY ConstantesNucleo DEF Init, Tipos, TiposDeHilos, TipoColas, TipoBloqueados, TipoHilos, TipoProgramas,
     TipoHistoria, ManosDeHilos, ManosDeConsolas, ManosDeOtros, ManosDeProgramas, Admision,
     ConProceso, EnRafaga, Colas, Contadores, DatosDeProceso, EstadosPCP, EstadosHilo,
     EstadosConsola, EstadosManejador, EstadosPrograma, Paquetes, PCsHilo, PCsConsola,
     EstadosCPU, Codigo, Paquete, Semaforos, IOs

\* The end of the NUCLEO changes nothing else.
LEMMA MuereTipos ==
  ASSUME Tipos, NEW como \in {"exit", "segv"}, Muere(como)
  PROVE  Tipos'
  BY DEF Muere, Tipos, TiposDeHilos, TipoColas, TipoBloqueados, TipoHilos, TipoProgramas,
     TipoHistoria, ManosDeHilos, ManosDeConsolas, ManosDeOtros, ManosDeProgramas, Admision,
     bloqueados, hilos, programas

LEMMA PLPTipos == Tipos /\ PLP => Tipos'
<1> SUFFICES ASSUME Tipos, PLP PROVE Tipos'
  OBVIOUS
<1> USE DEF Tipos, TiposDeHilos
<1>1. /\ cola.new # <<>> /\ Head(cola.new) \in Consolas
      /\ Tail(cola.new) \in Seq(Consolas)
      /\ Len(Tail(cola.new)) = Len(cola.new) - 1
  BY DEF PLP, TipoColas, Colas, Admision
<1>2. /\ Append(cola.ready, Head(cola.new)) \in Seq(Consolas \cup {NULO})
      /\ sem.new - 1 \in Nat /\ sem.ready + 1 \in Nat
  BY <1>1 DEF PLP, TipoColas, Colas, Contadores
<1>3. cola' \in Colas /\ cola'.new = Tail(cola.new)
  BY <1>1, <1>2 DEF PLP, TipoColas, Colas
<1>4. sem' \in Contadores /\ sem'.new = sem.new - 1
  BY <1>2 DEF PLP, TipoColas, Contadores
<1>5. TipoColas' /\ Admision'
  BY <1>1, <1>3, <1>4 DEF PLP, TipoColas, Admision
<1> QED
  BY <1>5 DEF PLP, TipoBloqueados, TipoHilos, TipoProgramas, TipoHistoria, ManosDeHilos,
     ManosDeConsolas, ManosDeOtros, ManosDeProgramas, bloqueados, hilos, programas, historia

LEMMA HiloPCPTipos == Tipos /\ HiloPCP => Tipos'
<1> SUFFICES ASSUME Tipos, HiloPCP PROVE Tipos'
  OBVIOUS
<1> USE DEF Tipos, TiposDeHilos
<1>1. CASE PCPEspera
  <2>1. sem.ready - 1 \in Nat /\ sem.cpu - 1 \in Nat
    BY <1>1 DEF PCPEspera, TipoColas, Contadores
  <2>2. sem' \in Contadores /\ sem'.new = sem.new
    BY <1>1, <2>1 DEF PCPEspera, TipoColas, Contadores
  <2>3. TipoColas' /\ Admision'
    BY <1>1, <2>2 DEF PCPEspera, TipoColas, Admision
  <2>4. pcp' \in EstadosPCP /\ pcp'.pc # "manda"
    BY <1>1 DEF PCPEspera, TipoHilos, EstadosPCP
  <2> QED
    BY <1>1, <2>3, <2>4 DEF PCPEspera, TipoBloqueados, TipoHilos, TipoProgramas, TipoHistoria,
       ManosDeHilos, ManosDeConsolas, ManosDeOtros, ManosDeProgramas, bloqueados, programas,
       historia
<1>2. CASE PCPTomaNada
  BY <1>2, MuereTipos DEF PCPTomaNada
<1>3. CASE PCPToma
  <2>1. /\ Saca(cola.ready) \in Consolas
        /\ Resto(cola.ready) \in Seq(Consolas \cup {NULO})
    BY <1>3, SacaTipo DEF PCPToma, TipoColas, Colas
  <2>2. /\ Saca(cola.CPU_libres) \in CPUs \cup {NULO}
        /\ Resto(cola.CPU_libres) \in Seq(CPUs)
    BY SacaTipo DEF TipoColas, Colas
  <2>3. cola' \in Colas /\ cola'.new = cola.new
    BY <1>3, <2>1, <2>2 DEF PCPToma, TipoColas, Colas
  <2>4. TipoColas' /\ Admision'
    BY <1>3, <2>3 DEF PCPToma, TipoColas, Admision
  <2>5. pcp' \in EstadosPCP /\ pcp'.proceso \in Consolas
    BY <1>3, <2>1, <2>2 DEF PCPToma, EstadosPCP
  <2> QED
    BY <1>3, <2>4, <2>5 DEF PCPToma, TipoBloqueados, TipoHilos, TipoProgramas, TipoHistoria,
       ManosDeHilos, ManosDeConsolas, ManosDeOtros, ManosDeProgramas, bloqueados, programas,
       historia
<1>4. CASE MandarAEjecutar
  <2>1. pcp.proceso \in Consolas /\ pcp.sock \in CPUs \cup {NULO}
    BY <1>4 DEF MandarAEjecutar, ManosDeOtros, TipoHilos, EstadosPCP
  <2>2. Append(cola.exec, pcp.proceso) \in Seq(Consolas)
    BY <2>1 DEF TipoColas, Colas
  <2>3. cola' \in Colas /\ cola'.new = cola.new
    BY <1>4, <2>2 DEF MandarAEjecutar, TipoColas, Colas
  <2>4. TipoColas' /\ Admision'
    BY <1>4, <2>3 DEF MandarAEjecutar, TipoColas, Admision
  <2>5. pcp' \in EstadosPCP /\ pcp'.pc # "manda"
    BY <1>4 DEF MandarAEjecutar, EstadosPCP
  <2>6. t_proceso' \in [Consolas -> DatosDeProceso]
    BY <1>4, <2>1 DEF MandarAEjecutar, TipoBloqueados, DatosDeProceso
  <2>7. cpu' \in [CPUs -> EstadosPrograma] /\ ManosDeProgramas'
    BY <1>4, <2>1 DEF MandarAEjecutar, TipoProgramas, EstadosPrograma, EstadosCPU,
       ManosDeProgramas, EnRafaga
  <2> QED
    BY <1>4, <2>4, <2>5, <2>6, <2>7 DEF MandarAEjecutar, TipoBloqueados, TipoHilos,
       TipoProgramas, TipoHistoria, ManosDeHilos, ManosDeConsolas, ManosDeOtros, bloqueados,
       historia
<1> QED
  BY <1>1, <1>2, <1>3, <1>4 DEF HiloPCP

LEMMA HiloConsolaTipos ==
  ASSUME Tipos, NEW c \in Consolas, HiloConsola(c)
  PROVE  Tipos'
<1> USE DEF Tipos, TiposDeHilos
<1>1. CASE ConCargaOk(c)
  <2>1. Append(cola.new, c) \in Seq(Consolas) /\ Len(Append(cola.new, c)) = Len(cola.new) + 1
    BY DEF TipoColas, Colas
  <2>2. cola' \in Colas /\ cola'.new = Append(cola.new, c)
    BY <1>1, <2>1 DEF ConCargaOk, TipoColas, Colas
  <2>3. sem.new + 1 \in Nat
    BY DEF TipoColas, Contadores
  <2>4. sem' \in Contadores /\ sem'.new = sem.new + 1
    BY <1>1, <2>3 DEF ConCargaOk, TipoColas, Contadores
  <2>5. TipoColas' /\ Admision'
    BY <1>1, <2>1, <2>2, <2>4 DEF ConCargaOk, TipoColas, Admision
  <2>6. consola' \in [Consolas -> EstadosConsola] /\ ManosDeConsolas'
    BY <1>1 DEF ConCargaOk, TipoHilos, EstadosConsola, PCsConsola, ManosDeConsolas
  <2> QED
    BY <1>1, <2>5, <2>6 DEF ConCargaOk, TipoBloqueados, TipoHilos, TipoProgramas, TipoHistoria,
       ManosDeHilos, ManosDeOtros, ManosDeProgramas, bloqueados, programas, historia
<1>2. CASE ConCargaFalla(c)
  <2>1. consola' \in [Consolas -> EstadosConsola] /\ ManosDeConsolas'
    BY <1>2, ConPasaATipo DEF ConCargaFalla, PCsConsola
  <2>2. finalizados' \in [Consolas -> Nat]
    BY <1>2, FinalizarTipo DEF ConCargaFalla, TipoHistoria
  <2> QED
    BY <1>2, <2>1, <2>2 DEF ConCargaFalla, TipoColas, TipoBloqueados, TipoHilos,
       TipoProgramas, TipoHistoria, Admision, ManosDeHilos, ManosDeOtros, ManosDeProgramas,
       bloqueados, programas, historia
<1>3. CASE ConDesconecta(c)
  <2>1. consola' \in [Consolas -> EstadosConsola] /\ ManosDeConsolas'
    BY <1>3, ConPasaATipo DEF ConDesconecta, PCsConsola, TipoHilos, EstadosConsola
  <2> QED
    BY <1>3, <2>1 DEF ConDesconecta, TipoColas, TipoBloqueados, TipoHilos,
       TipoProgramas, TipoHistoria, Admision, ManosDeHilos, ManosDeOtros, ManosDeProgramas,
       bloqueados, programas, historia
<1>4. CASE ConBuscaNulo(c)
  BY <1>4, MuereTipos DEF ConBuscaNulo
<1>5. CASE ConSacaReady(c)
  <2>1. PICK i \in 1..Len(cola.ready) : cola' = [cola EXCEPT !.ready = RemoveAt(@, i)]
    BY <1>5 DEF ConSacaReady, EsPrimero
  <2>2. RemoveAt(cola.ready, i) \in Seq(Consolas \cup {NULO})
    BY RemoveAtTipo DEF TipoColas, Colas
  <2>3. cola' \in Colas /\ cola'.new = cola.new
    BY <2>1, <2>2 DEF TipoColas, Colas
  <2>4. consola' \in [Consolas -> EstadosConsola] /\ ManosDeConsolas'
    BY <1>5, ConPasaATipo DEF ConSacaReady, PCsConsola
  <2> QED
    BY <1>5, <2>3, <2>4 DEF ConSacaReady, TipoColas, TipoBloqueados, TipoHilos,
       TipoProgramas, TipoHistoria, Admision, ManosDeHilos, ManosDeOtros, ManosDeProgramas,
       bloqueados, programas, historia
<1>6. CASE ConSubeFlag(c)
  <2>1. cola' \in Colas /\ cola'.new = cola.new /\ finalizados' \in [Consolas -> Nat]
    BY <1>6, AbortarTipo DEF ConSubeFlag
  <2>2. sem.cpu + 1 \in Nat
    BY DEF TipoColas, Contadores
  <2>3. sem' \in Contadores /\ sem'.new = sem.new
    BY <1>6, <2>2 DEF ConSubeFlag, TipoColas, Contadores
  <2>4. consola' \in [Consolas -> EstadosConsola] /\ ManosDeConsolas'
    BY <1>6, ConPasaATipo DEF ConSubeFlag, PCsConsola
  <2>5. TipoColas' /\ Admision'
    BY <1>6, <2>1, <2>3 DEF ConSubeFlag, TipoColas, Admision
  <2> QED
    BY <1>6, <2>1, <2>4, <2>5 DEF ConSubeFlag, TipoBloqueados, TipoHilos, TipoProgramas,
       TipoHistoria, ManosDeHilos, ManosDeOtros, ManosDeProgramas, bloqueados, programas
<1>7. CASE ConNoEstaEnReady(c)
  <2>1. consola' \in [Consolas -> EstadosConsola] /\ ManosDeConsolas'
    BY <1>7, ConPasaATipo DEF ConNoEstaEnReady, PCsConsola, TipoHilos, EstadosConsola
  <2> QED
    BY <1>7, <2>1 DEF ConNoEstaEnReady, TipoColas, TipoBloqueados, TipoHilos,
       TipoProgramas, TipoHistoria, Admision, ManosDeHilos, ManosDeOtros, ManosDeProgramas,
       bloqueados, programas, historia
<1>8. CASE ConBuscaExec(c)
  <2>1. consola' \in [Consolas -> EstadosConsola] /\ ManosDeConsolas'
    BY <1>8, ConPasaATipo DEF ConBuscaExec, PCsConsola, TipoHilos, EstadosConsola
  <2> QED
    BY <1>8, <2>1 DEF ConBuscaExec, TipoColas, TipoBloqueados, TipoHilos,
       TipoProgramas, TipoHistoria, Admision, ManosDeHilos, ManosDeOtros, ManosDeProgramas,
       bloqueados, programas, historia
<1>9. CASE ConMarca(c)
  <2>1. consola' \in [Consolas -> EstadosConsola] /\ ManosDeConsolas'
    BY <1>9, ConPasaATipo DEF ConMarca, PCsConsola
  <2>2. t_proceso' \in [Consolas -> DatosDeProceso]
    BY <1>9 DEF ConMarca, TipoBloqueados, DatosDeProceso
  <2> QED
    BY <1>9, <2>1, <2>2 DEF ConMarca, TipoColas, TipoBloqueados, TipoHilos,
       TipoProgramas, TipoHistoria, Admision, ManosDeHilos, ManosDeOtros, ManosDeProgramas,
       bloqueados, programas, historia
<1>10. CASE ConSacaSemaforo(c)
  <2>1. consola' \in [Consolas -> EstadosConsola] /\ ManosDeConsolas'
    BY <1>10, ConPasaATipo DEF ConSacaSemaforo, PCsConsola
  <2>2. cola' \in Colas /\ cola'.new = cola.new /\ finalizados' \in [Consolas -> Nat]
    BY <1>10, AbortarTipo DEF ConSacaSemaforo
  <2> DEFINE s == consola[c].i
  <2>3. PICK i \in 1..Len(colas_semaforos[s]) :
          colas_semaforos' = [colas_semaforos EXCEPT ![s] = RemoveAt(@, i)]
    BY <1>10 DEF ConSacaSemaforo, EsPrimero
  <2>4. s \in Semaforos => RemoveAt(colas_semaforos[s], i) \in Seq(Consolas)
    BY RemoveAtTipo DEF TipoBloqueados
  <2>5. colas_semaforos' \in [Semaforos -> Seq(Consolas)]
    BY <2>3, <2>4 DEF TipoBloqueados
  <2> QED
    BY <1>10, <2>1, <2>2, <2>5 DEF ConSacaSemaforo, TipoColas, TipoBloqueados, TipoHilos,
       TipoProgramas, TipoHistoria, Admision, ManosDeHilos, ManosDeOtros, ManosDeProgramas,
       bloqueados, programas, historia
<1>11. CASE ConSiguienteSemaforo(c)
  <2>1. consola' \in [Consolas -> EstadosConsola] /\ ManosDeConsolas'
    BY <1>11, ConPasaATipo DEF ConSiguienteSemaforo, PCsConsola, TipoHilos, EstadosConsola
  <2> QED
    BY <1>11, <2>1 DEF ConSiguienteSemaforo, TipoColas, TipoBloqueados, TipoHilos,
       TipoProgramas, TipoHistoria, Admision, ManosDeHilos, ManosDeOtros, ManosDeProgramas,
       bloqueados, programas, historia
<1>12. CASE ConMiraIO(c)
  <2>1. consola' \in [Consolas -> EstadosConsola] /\ ManosDeConsolas'
    BY <1>12, ConPasaATipo DEF ConMiraIO, PCsConsola, TipoHilos, EstadosConsola
  <2> QED
    BY <1>12, <2>1 DEF ConMiraIO, TipoColas, TipoBloqueados, TipoHilos, TipoProgramas,
       TipoHistoria, Admision, ManosDeHilos, ManosDeOtros, ManosDeProgramas, bloqueados,
       programas, historia
<1>13. CASE ConMarcaIO(c)
  <2>0. consola[c].i \in IOs /\ consola[c].i \in Nat
    BY <1>13 DEF ConMarcaIO, ManosDeConsolas, TipoHilos, EstadosConsola
  <2>1. consola' \in [Consolas -> EstadosConsola] /\ ManosDeConsolas'
    BY <1>13, <2>0, ConPasaATipo DEF ConMarcaIO, PCsConsola
  <2>2. t_proceso' \in [Consolas -> DatosDeProceso]
    BY <1>13 DEF ConMarcaIO, TipoBloqueados, DatosDeProceso
  <2> QED
    BY <1>13, <2>1, <2>2 DEF ConMarcaIO, TipoColas, TipoBloqueados, TipoHilos,
       TipoProgramas, TipoHistoria, Admision, ManosDeHilos, ManosDeOtros, ManosDeProgramas,
       bloqueados, programas, historia
<1>14. CASE ConArmaIO(c)
  <2>0. consola[c].i \in IOs /\ consola[c].i \in Nat
    BY <1>14 DEF ConArmaIO, ManosDeConsolas, TipoHilos, EstadosConsola
  <2>1. consola' \in [Consolas -> EstadosConsola] /\ ManosDeConsolas'
    BY <1>14, <2>0, ConPasaATipo DEF ConArmaIO, PCsConsola
  <2>2. timers' \in [IOs -> Seq(Nat)]
    BY <1>14, <2>0, MakeTimerTipo DEF ConArmaIO, TipoBloqueados
  <2> QED
    BY <1>14, <2>1, <2>2 DEF ConArmaIO, TipoColas, TipoBloqueados, TipoHilos, TipoProgramas,
       TipoHistoria, Admision, ManosDeHilos, ManosDeOtros, ManosDeProgramas, programas, historia
<1>15. CASE ConSacaIO(c)
  <2> DEFINE d == consola[c].i
  <2>1. d \in IOs /\ d \in Nat
    BY <1>15 DEF ConSacaIO, ManosDeConsolas, TipoHilos, EstadosConsola
  <2>2. consola' \in [Consolas -> EstadosConsola] /\ ManosDeConsolas'
    BY <1>15, <2>1, ConPasaATipo DEF ConSacaIO, PCsConsola
  <2>3. /\ cola' \in Colas /\ cola'.new = cola.new
        /\ finalizados' \in [Consolas -> Nat]
        /\ colas_ios' \in [IOs -> Seq(Consolas)]
    <3>1. CASE UNCHANGED <<cola, colas_ios, finalizados>>
      BY <3>1 DEF TipoColas, TipoHistoria, TipoBloqueados
    <3>2. CASE /\ \E i \in DOMAIN colas_ios[d] :
                    /\ EsPrimero(colas_ios[d], i, {c})
                    /\ colas_ios' = [colas_ios EXCEPT ![d] = RemoveAt(@, i)]
               /\ Abortar(c)
      <4>1. cola' \in Colas /\ cola'.new = cola.new /\ finalizados' \in [Consolas -> Nat]
        BY <3>2, AbortarTipo
      <4>2. PICK i \in 1..Len(colas_ios[d]) :
              colas_ios' = [colas_ios EXCEPT ![d] = RemoveAt(@, i)]
        BY <3>2 DEF EsPrimero
      <4>3. RemoveAt(colas_ios[d], i) \in Seq(Consolas)
        BY <2>1, RemoveAtTipo DEF TipoBloqueados
      <4> QED
        BY <4>1, <4>2, <4>3 DEF TipoBloqueados
    <3> QED
      BY <1>15, <3>1, <3>2 DEF ConSacaIO
  <2> QED
    BY <1>15, <2>2, <2>3 DEF ConSacaIO, TipoColas, TipoBloqueados, TipoHilos,
       TipoProgramas, TipoHistoria, Admision, ManosDeHilos, ManosDeOtros, ManosDeProgramas,
       bloqueados, programas, historia
<1>16. CASE ConTermina(c)
  <2>1. consola' \in [Consolas -> EstadosConsola] /\ ManosDeConsolas'
    BY <1>16, ConPasaATipo DEF ConTermina, PCsConsola, TipoHilos, EstadosConsola
  <2> QED
    BY <1>16, <2>1 DEF ConTermina, TipoColas, TipoBloqueados, TipoHilos,
       TipoProgramas, TipoHistoria, Admision, ManosDeHilos, ManosDeOtros, ManosDeProgramas,
       bloqueados, programas, historia
<1> QED
  BY <1>1, <1>2, <1>3, <1>4, <1>5, <1>6, <1>7, <1>8, <1>9, <1>10, <1>11, <1>12, <1>13, <1>14,
     <1>15, <1>16 DEF HiloConsola

\* The packets of each kind, and what receiving one leaves.
LEMMA PaqueteTipo ==
  ASSUME NEW m \in Paquetes
  PROVE  /\ m.op \in {"341", "343"} => m.i \in Semaforos
         /\ m.op = "380" => m.i \in IOs /\ m.u \in Nat
  BY DEF Paquetes

LEMMA RecibeTipo ==
  ASSUME NEW k \in CPUs, Recibe(k), TipoProgramas
  PROVE  Head(buzon[k]) \in Paquetes /\ buzon' \in [CPUs -> Seq(Paquetes)]
<1>1. buzon[k] \in Seq(Paquetes) /\ buzon[k] # <<>>
  BY DEF Recibe, TipoProgramas
<1>2. Head(buzon[k]) \in Paquetes /\ Tail(buzon[k]) \in Seq(Paquetes)
  BY <1>1
<1> QED
  BY <1>2 DEF Recibe, TipoProgramas

LEMMA ContestaTipo ==
  ASSUME NEW k \in CPUs, NEW e \in EnRafaga, NEW f \in EnRafaga, Contesta(k, e, f),
         TipoProgramas, ManosDeProgramas
  PROVE  cpu' \in [CPUs -> EstadosPrograma] /\ ManosDeProgramas'
  BY DEF Contesta, TipoProgramas, EstadosPrograma, EstadosCPU, ManosDeProgramas, EnRafaga

\* The process is handed on at the end of a burst: to ready, or aborted.
LEMMA EntregaTipo ==
  ASSUME Tipos, NEW p \in Consolas,
         IF t_proceso[p].abortado THEN Abortar(p) /\ UNCHANGED sem
                                  ELSE EncolaReady(p) /\ UNCHANGED finalizados,
         UNCHANGED <<flag, mutex_config>>
  PROVE  TipoColas' /\ Admision' /\ finalizados' \in [Consolas -> Nat]
<1> USE DEF Tipos, TiposDeHilos
<1>1. CASE t_proceso[p].abortado
  BY <1>1, AbortarTipo DEF TipoColas, Admision
<1>2. CASE ~t_proceso[p].abortado
  BY <1>2, EncolaReadyTipo DEF TipoColas, TipoHistoria
<1> QED
  BY <1>1, <1>2

LEMMA RecepcionTipos ==
  ASSUME Tipos, NEW k \in CPUs,
         CpuTomaProceso(k) \/ CpuTomaYDevuelve(k) \/ CpuSinProceso(k) \/ CpuAviso(k)
  PROVE  Tipos'
<1> USE DEF Tipos, TiposDeHilos
<1>1. CASE CpuTomaProceso(k)
  <2>1. Head(buzon[k]) \in Paquetes /\ buzon' \in [CPUs -> Seq(Paquetes)]
    BY <1>1, RecibeTipo DEF CpuTomaProceso
  <2>2. PICK i \in 1..Len(cola.exec) :
          /\ hilo' = [hilo EXCEPT ![k] = [@ EXCEPT !.pc = Head(buzon[k]).op,
                                                  !.proceso = cola.exec[i],
                                                  !.elPaquete = Head(buzon[k])]]
          /\ cola' = [cola EXCEPT !.exec = RemoveAt(@, i)]
    BY <1>1 DEF CpuTomaProceso, EsSuProceso, EsPrimero
  <2>3. cola.exec[i] \in Consolas /\ RemoveAt(cola.exec, i) \in Seq(Consolas)
    BY RemoveAtTipo DEF TipoColas, Colas
  <2>4. cola' \in Colas /\ cola'.new = cola.new
    BY <2>2, <2>3 DEF TipoColas, Colas
  <2>5. Head(buzon[k]).op \in Entregas
    BY <1>1 DEF CpuTomaProceso
  <2>6. [hilo[k] EXCEPT !.pc = Head(buzon[k]).op, !.proceso = cola.exec[i],
                        !.elPaquete = Head(buzon[k])] \in EstadosHilo
    BY <2>1, <2>3, <2>5 DEF TipoHilos, EstadosHilo, Entregas, PCsHilo
  <2>7. hilo' \in [CPUs -> EstadosHilo]
    BY <2>2, <2>6 DEF TipoHilos
  <2>8. /\ hilo'[k].pc = Head(buzon[k]).op /\ hilo'[k].elPaquete = Head(buzon[k])
        /\ hilo'[k].proceso \in Consolas
        /\ \A j \in CPUs \ {k} : hilo'[j] = hilo[j]
    BY <2>2, <2>3 DEF TipoHilos, EstadosHilo
  <2>9. ManosDeHilos'
    BY <2>5, <2>8 DEF ManosDeHilos, Entregas
  <2> QED
    BY <1>1, <2>1, <2>4, <2>7, <2>9 DEF CpuTomaProceso, TipoColas, TipoBloqueados, TipoHilos,
       TipoProgramas, TipoHistoria, Admision, ManosDeConsolas, ManosDeOtros, ManosDeProgramas,
       bloqueados, programas, historia
<1>2. CASE CpuTomaYDevuelve(k)
  <2>1. Head(buzon[k]) \in Paquetes /\ buzon' \in [CPUs -> Seq(Paquetes)]
    BY <1>2, RecibeTipo DEF CpuTomaYDevuelve
  <2>2. PICK i \in 1..Len(cola.exec) :
          cola' = [cola EXCEPT !.exec = Append(RemoveAt(@, i), cola.exec[i])]
    BY <1>2 DEF CpuTomaYDevuelve, EsSuProceso, EsPrimero
  <2>3. cola.exec[i] \in Consolas /\ RemoveAt(cola.exec, i) \in Seq(Consolas)
    BY RemoveAtTipo DEF TipoColas, Colas
  <2>4. Append(RemoveAt(cola.exec, i), cola.exec[i]) \in Seq(Consolas)
    BY <2>3
  <2>5. cola' \in Colas /\ cola'.new = cola.new
    BY <2>2, <2>4 DEF TipoColas, Colas
  <2> DEFINE pc == IF Head(buzon[k]).op = "360" THEN "recibe" ELSE Head(buzon[k]).op
  <2>6. pc \in {"recibe", "343", "350", "351"} /\ (pc = "343" => Head(buzon[k]).op = "343")
    BY <1>2 DEF CpuTomaYDevuelve, Consultas
  <2>7. hilo' = [hilo EXCEPT ![k] = [@ EXCEPT !.pc = pc, !.elPaquete = Head(buzon[k])]]
    BY <1>2 DEF CpuTomaYDevuelve
  <2> HIDE DEF pc
  <2>8. [hilo[k] EXCEPT !.pc = pc, !.elPaquete = Head(buzon[k])] \in EstadosHilo
    BY <2>1, <2>6 DEF TipoHilos, EstadosHilo, PCsHilo
  <2>9. hilo' \in [CPUs -> EstadosHilo]
    BY <2>7, <2>8 DEF TipoHilos
  <2>10. /\ hilo'[k].pc = pc /\ hilo'[k].elPaquete = Head(buzon[k])
         /\ \A j \in CPUs \ {k} : hilo'[j] = hilo[j]
    BY <2>7 DEF TipoHilos, EstadosHilo
  <2>11. ManosDeHilos'
    BY <2>6, <2>10 DEF ManosDeHilos, ConProceso
  <2> QED
    BY <1>2, <2>1, <2>5, <2>9, <2>11 DEF CpuTomaYDevuelve, TipoColas, TipoBloqueados, TipoHilos,
       TipoProgramas, TipoHistoria, Admision, ManosDeConsolas, ManosDeOtros, ManosDeProgramas,
       bloqueados, programas, historia
<1>3. CASE CpuSinProceso(k)
  BY <1>3, MuereTipos DEF CpuSinProceso
<1>4. CASE CpuAviso(k)
  <2>1. buzon' \in [CPUs -> Seq(Paquetes)]
    BY <1>4, RecibeTipo DEF CpuAviso
  <2> DEFINE f == hilo[k].flag \/ Head(buzon[k]).op = "399"
  <2>2. hilo' = [hilo EXCEPT ![k].flag = f]
    BY <1>4 DEF CpuAviso
  <2>3. f \in BOOLEAN
    OBVIOUS
  <2> HIDE DEF f
  <2>4. hilo' \in [CPUs -> EstadosHilo] /\ ManosDeHilos'
    BY <2>2, <2>3 DEF TipoHilos, EstadosHilo, ManosDeHilos
  <2> QED
    BY <1>4, <2>1, <2>4 DEF CpuAviso, TipoColas, TipoBloqueados, TipoHilos,
       TipoProgramas, TipoHistoria, Admision, ManosDeConsolas, ManosDeOtros, ManosDeProgramas,
       bloqueados, programas, historia
<1> QED
  BY <1>1, <1>2, <1>3, <1>4

LEMMA FinDeRafagaTipos ==
  ASSUME Tipos, NEW k \in CPUs,
         Cpu304(k) \/ CpuLibera(k) \/ Cpu320Y370(k) \/ CpuTerminado(k)
  PROVE  Tipos'
<1> USE DEF Tipos, TiposDeHilos
<1>1. CASE Cpu304(k)
  <2>1. hilo[k].proceso \in Consolas
    BY <1>1 DEF Cpu304, ManosDeHilos, ConProceso
  <2>2. TipoColas' /\ Admision' /\ finalizados' \in [Consolas -> Nat]
    BY <1>1, <2>1, EntregaTipo DEF Cpu304
  <2>3. hilo' \in [CPUs -> EstadosHilo] /\ ManosDeHilos'
    BY <1>1, CpuSueltaTipo DEF Cpu304
  <2> QED
    BY <1>1, <2>2, <2>3 DEF Cpu304, TipoColas, TipoBloqueados, TipoHilos,
       TipoProgramas, TipoHistoria, Admision, ManosDeConsolas, ManosDeOtros, ManosDeProgramas,
       bloqueados, programas, historia
<1>2. CASE CpuLibera(k)
  <2>1. mutex_config' \in CPUs \cup {PCP, MAIN, NULO}
    BY <1>2 DEF CpuLibera, TipoColas
  <2>2. TipoColas' /\ Admision'
    BY <1>2, <2>1, LiberaCPUTipo DEF CpuLibera, TipoColas, Admision
  <2>3. hilo' \in [CPUs -> EstadosHilo] /\ ManosDeHilos'
    BY <1>2, CpuPasaATipo DEF CpuLibera, PCsHilo, ConProceso
  <2> QED
    BY <1>2, <2>2, <2>3 DEF CpuLibera, TipoColas, TipoBloqueados, TipoHilos,
       TipoProgramas, TipoHistoria, Admision, ManosDeConsolas, ManosDeOtros, ManosDeProgramas,
       bloqueados, programas, historia
<1>3. CASE Cpu320Y370(k)
  <2>1. hilo[k].proceso \in Consolas
    BY <1>3 DEF Cpu320Y370, ManosDeHilos, ConProceso
  <2>2. Append(cola.exit, hilo[k].proceso) \in Seq(Consolas)
    BY <2>1 DEF TipoColas, Colas
  <2>3. cola' \in Colas /\ cola'.new = cola.new
    BY <1>3, <2>2 DEF Cpu320Y370, TipoColas, Colas
  <2>4. hilo' \in [CPUs -> EstadosHilo] /\ ManosDeHilos'
    BY <1>3, <2>1, CpuPasaATipo DEF Cpu320Y370, PCsHilo
  <2> QED
    BY <1>3, <2>3, <2>4 DEF Cpu320Y370, TipoColas, TipoBloqueados, TipoHilos,
       TipoProgramas, TipoHistoria, Admision, ManosDeConsolas, ManosDeOtros, ManosDeProgramas,
       bloqueados, programas, historia
<1>4. CASE CpuTerminado(k)
  <2>1. hilo[k].proceso \in Consolas
    BY <1>4 DEF CpuTerminado, ManosDeHilos, ConProceso
  <2>2. TipoColas' /\ Admision'
    BY <1>4, LiberaCPUTipo DEF CpuTerminado, TipoColas, Admision
  <2>3. finalizados' \in [Consolas -> Nat]
    BY <1>4, <2>1, FinalizarTipo DEF CpuTerminado, TipoHistoria
  <2>4. hilo' \in [CPUs -> EstadosHilo] /\ ManosDeHilos'
    BY <1>4, CpuSueltaTipo DEF CpuTerminado
  <2> QED
    BY <1>4, <2>2, <2>3, <2>4 DEF CpuTerminado, TipoColas, TipoBloqueados, TipoHilos,
       TipoProgramas, TipoHistoria, Admision, ManosDeConsolas, ManosDeOtros, ManosDeProgramas,
       bloqueados, programas, historia
<1> QED
  BY <1>1, <1>2, <1>3, <1>4

LEMMA SemaforosTipos ==
  ASSUME Tipos, NEW k \in CPUs,
         \/ Cpu341Concede(k) \/ Cpu341Bloquea(k) \/ CpuPCBIlegible(k) \/ Cpu341PCB(k)
         \/ Cpu343Suma(k) \/ Cpu343HayEspera(k) \/ Cpu343Saca(k) \/ Cpu343Pone(k)
         \/ Cpu350Y351(k)
  PROVE  Tipos'
<1> USE DEF Tipos, TiposDeHilos
<1> DEFINE s == hilo[k].elPaquete.i
<1>0. /\ hilo[k].pc \in {"341", "341pcb", "343", "343saca"} => s \in Semaforos
      /\ hilo[k].pc \in {"341", "341pcb"} => hilo[k].proceso \in Consolas
  <2>1. hilo[k].elPaquete \in Paquetes
    BY DEF TipoHilos, EstadosHilo
  <2> QED
    BY <2>1, PaqueteTipo DEF ManosDeHilos, ConProceso
<1>1. CASE Cpu341Concede(k)
  <2>1. s \in Semaforos /\ hilo[k].proceso \in Consolas
    BY <1>0, <1>1 DEF Cpu341Concede
  <2>2. Append(cola.exec, hilo[k].proceso) \in Seq(Consolas)
    BY <2>1 DEF TipoColas, Colas
  <2>3. cola' \in Colas /\ cola'.new = cola.new
    BY <1>1, <2>2 DEF Cpu341Concede, TipoColas, Colas
  <2>4. VALOR_SEM[s] - 1 \in Nat
    BY <1>1, <2>1 DEF Cpu341Concede, HayUnidades, TipoBloqueados
  <2>5. VALOR_SEM' \in [Semaforos -> Nat]
    BY <1>1, <2>4 DEF Cpu341Concede, TipoBloqueados
  <2>6. hilo' \in [CPUs -> EstadosHilo] /\ ManosDeHilos'
    BY <1>1, CpuSueltaTipo DEF Cpu341Concede
  <2>7. cpu' \in [CPUs -> EstadosPrograma] /\ ManosDeProgramas'
    BY <1>1, ContestaTipo DEF Cpu341Concede, EnRafaga
  <2> QED
    BY <1>1, <2>3, <2>5, <2>6, <2>7 DEF Cpu341Concede, TipoColas, TipoBloqueados, TipoHilos,
       TipoProgramas, TipoHistoria, Admision, ManosDeConsolas, ManosDeOtros, ManosDeProgramas,
       bloqueados, programas, historia
<1>2. CASE Cpu341Bloquea(k)
  <2>1. hilo[k].proceso \in Consolas /\ hilo[k].elPaquete.op = "341"
    BY <1>0, <1>2 DEF Cpu341Bloquea, ManosDeHilos
  <2>2. hilo' \in [CPUs -> EstadosHilo] /\ ManosDeHilos'
    BY <1>2, <2>1, CpuPasaATipo DEF Cpu341Bloquea, PCsHilo
  <2>3. cpu' \in [CPUs -> EstadosPrograma] /\ ManosDeProgramas'
    BY <1>2, ContestaTipo DEF Cpu341Bloquea, EnRafaga
  <2> QED
    BY <1>2, <2>2, <2>3 DEF Cpu341Bloquea, TipoColas, TipoBloqueados, TipoHilos,
       TipoProgramas, TipoHistoria, Admision, ManosDeConsolas, ManosDeOtros, ManosDeProgramas,
       bloqueados, programas, historia
<1>3. CASE CpuPCBIlegible(k)
  BY <1>3, MuereTipos DEF CpuPCBIlegible
<1>4. CASE Cpu341PCB(k)
  <2>1. s \in Semaforos /\ hilo[k].proceso \in Consolas
    BY <1>0, <1>4 DEF Cpu341PCB
  <2>2. buzon' \in [CPUs -> Seq(Paquetes)]
    BY <1>4, <2>1, RecibeTipo DEF Cpu341PCB
  <2>3. hilo' \in [CPUs -> EstadosHilo] /\ ManosDeHilos'
    BY <1>4, CpuSueltaTipo DEF Cpu341PCB
  <2>4. CASE t_proceso[hilo[k].proceso].abortado
    <3>1. cola' \in Colas /\ cola'.new = cola.new /\ finalizados' \in [Consolas -> Nat]
      BY <1>4, <2>1, <2>4, AbortarTipo DEF Cpu341PCB
    <3> QED
      BY <1>4, <2>2, <2>3, <2>4, <3>1 DEF Cpu341PCB, TipoColas, TipoBloqueados, TipoHilos,
       TipoProgramas, TipoHistoria, Admision, ManosDeConsolas, ManosDeOtros, ManosDeProgramas,
       bloqueados, programas, historia
  <2>5. CASE ~t_proceso[hilo[k].proceso].abortado
    <3>1. Append(colas_semaforos[s], hilo[k].proceso) \in Seq(Consolas)
      BY <2>1 DEF TipoBloqueados
    <3>2. colas_semaforos' \in [Semaforos -> Seq(Consolas)]
      BY <1>4, <2>5, <3>1 DEF Cpu341PCB, TipoBloqueados
    <3> QED
      BY <1>4, <2>2, <2>3, <2>5, <3>2 DEF Cpu341PCB, TipoColas, TipoBloqueados, TipoHilos,
       TipoProgramas, TipoHistoria, Admision, ManosDeConsolas, ManosDeOtros, ManosDeProgramas,
       bloqueados, programas, historia
  <2> QED
    BY <2>4, <2>5
<1>5. CASE Cpu343Suma(k)
  <2>1. VALOR_SEM[s] + 1 \in Nat
    BY <1>0, <1>5 DEF Cpu343Suma, TipoBloqueados
  <2>2. VALOR_SEM' \in [Semaforos -> Nat]
    BY <1>5, <2>1 DEF Cpu343Suma, TipoBloqueados
  <2>3. hilo' \in [CPUs -> EstadosHilo] /\ ManosDeHilos'
    BY <1>5, CpuPasaATipo DEF Cpu343Suma, PCsHilo, ConProceso
  <2> QED
    BY <1>5, <2>2, <2>3 DEF Cpu343Suma, TipoColas, TipoBloqueados, TipoHilos,
       TipoProgramas, TipoHistoria, Admision, ManosDeConsolas, ManosDeOtros, ManosDeProgramas,
       bloqueados, programas, historia
<1>6. CASE Cpu343HayEspera(k)
  <2>1. hilo[k].elPaquete.op = "343"
    BY <1>6 DEF Cpu343HayEspera, ManosDeHilos
  <2>2. hilo' \in [CPUs -> EstadosHilo] /\ ManosDeHilos'
    BY <1>6, <2>1, CpuPasaATipo DEF Cpu343HayEspera, PCsHilo, ConProceso
  <2> QED
    BY <1>6, <2>2 DEF Cpu343HayEspera, TipoColas, TipoBloqueados, TipoHilos,
       TipoProgramas, TipoHistoria, Admision, ManosDeConsolas, ManosDeOtros, ManosDeProgramas,
       bloqueados, programas, historia
<1>7. CASE Cpu343Saca(k)
  <2>1. s \in Semaforos
    BY <1>0, <1>7 DEF Cpu343Saca
  <2>2. /\ Saca(colas_semaforos[s]) \in Consolas \cup {NULO}
        /\ Resto(colas_semaforos[s]) \in Seq(Consolas)
    BY <2>1, SacaTipo DEF TipoBloqueados
  <2>3. colas_semaforos' \in [Semaforos -> Seq(Consolas)]
    BY <1>7, <2>2 DEF Cpu343Saca, TipoBloqueados
  <2> DEFINE p == Saca(colas_semaforos[s])
  <2>4. hilo' = [hilo EXCEPT ![k] = [hilo[k] EXCEPT !.pc = "343pone", !.proceso = p]]
    BY <1>7 DEF Cpu343Saca, TipoHilos, EstadosHilo
  <2> HIDE DEF p
  <2>5. [hilo[k] EXCEPT !.pc = "343pone", !.proceso = p] \in EstadosHilo
    BY <2>2 DEF p, TipoHilos, EstadosHilo, PCsHilo
  <2>6. hilo' \in [CPUs -> EstadosHilo]
    BY <2>4, <2>5 DEF TipoHilos
  <2>7. ManosDeHilos'
    BY <2>4 DEF TipoHilos, EstadosHilo, ManosDeHilos, ConProceso
  <2> QED
    BY <1>7, <2>3, <2>6, <2>7 DEF Cpu343Saca, TipoColas, TipoBloqueados, TipoHilos,
       TipoProgramas, TipoHistoria, Admision, ManosDeConsolas, ManosDeOtros, ManosDeProgramas,
       bloqueados, programas, historia
<1>8. CASE Cpu343Pone(k)
  <2>1. hilo[k].proceso \in Consolas \cup {NULO}
    BY DEF TipoHilos, EstadosHilo
  <2>2. TipoColas' /\ Admision'
    BY <1>8, <2>1, EncolaReadyTipo DEF Cpu343Pone
  <2>3. hilo' \in [CPUs -> EstadosHilo] /\ ManosDeHilos'
    BY <1>8, CpuSueltaTipo DEF Cpu343Pone
  <2> QED
    BY <1>8, <2>2, <2>3 DEF Cpu343Pone, TipoColas, TipoBloqueados, TipoHilos,
       TipoProgramas, TipoHistoria, Admision, ManosDeConsolas, ManosDeOtros, ManosDeProgramas,
       bloqueados, programas, historia
<1>9. CASE Cpu350Y351(k)
  <2>1. hilo' \in [CPUs -> EstadosHilo] /\ ManosDeHilos'
    BY <1>9, CpuPasaATipo DEF Cpu350Y351, PCsHilo, ConProceso
  <2>2. cpu' \in [CPUs -> EstadosPrograma] /\ ManosDeProgramas'
    BY <1>9, ContestaTipo DEF Cpu350Y351, EnRafaga, TipoProgramas, ManosDeProgramas
  <2> QED
    BY <1>9, <2>1, <2>2 DEF Cpu350Y351, TipoColas, TipoBloqueados, TipoHilos,
       TipoProgramas, TipoHistoria, Admision, ManosDeConsolas, ManosDeOtros, ManosDeProgramas,
       bloqueados, programas, historia
<1> QED
  BY <1>1, <1>2, <1>3, <1>4, <1>5, <1>6, <1>7, <1>8, <1>9

LEMMA EntradaSalidaTipos ==
  ASSUME Tipos, NEW k \in CPUs, Cpu380Aborta(k) \/ Cpu380Mira(k) \/ Cpu380Encola(k)
  PROVE  Tipos'
<1> USE DEF Tipos, TiposDeHilos
<1> DEFINE d == hilo[k].elPaquete.i
           u == hilo[k].elPaquete.u
<1>0. hilo[k].pc \in {"380", "380vacia", "380ocupada"} =>
        d \in IOs /\ u \in Nat /\ hilo[k].proceso \in Consolas
  <2>1. hilo[k].elPaquete \in Paquetes
    BY DEF TipoHilos, EstadosHilo
  <2> QED
    BY <2>1, PaqueteTipo DEF ManosDeHilos, ConProceso
<1>1. CASE Cpu380Aborta(k)
  <2>1. hilo[k].proceso \in Consolas
    BY <1>0, <1>1 DEF Cpu380Aborta
  <2>2. buzon' \in [CPUs -> Seq(Paquetes)]
    BY <1>1, <2>1, RecibeTipo DEF Cpu380Aborta
  <2>3. cola' \in Colas /\ cola'.new = cola.new /\ finalizados' \in [Consolas -> Nat]
    BY <1>1, <2>1, AbortarTipo DEF Cpu380Aborta
  <2>4. hilo' \in [CPUs -> EstadosHilo] /\ ManosDeHilos'
    BY <1>1, CpuSueltaTipo DEF Cpu380Aborta
  <2> QED
    BY <1>1, <2>2, <2>3, <2>4 DEF Cpu380Aborta, TipoColas, TipoBloqueados, TipoHilos,
       TipoProgramas, TipoHistoria, Admision, ManosDeConsolas, ManosDeOtros, ManosDeProgramas,
       bloqueados, programas, historia
<1>2. CASE Cpu380Mira(k)
  <2>1. hilo[k].proceso \in Consolas /\ hilo[k].elPaquete.op = "380"
    BY <1>0, <1>2 DEF Cpu380Mira, ManosDeHilos
  <2>2. buzon' \in [CPUs -> Seq(Paquetes)]
    BY <1>2, <2>1, RecibeTipo DEF Cpu380Mira
  <2>3. hilo' \in [CPUs -> EstadosHilo] /\ ManosDeHilos'
    BY <1>2, <2>1, CpuPasaATipo DEF Cpu380Mira, PCsHilo
  <2> QED
    BY <1>2, <2>2, <2>3 DEF Cpu380Mira, TipoColas, TipoBloqueados, TipoHilos,
       TipoProgramas, TipoHistoria, Admision, ManosDeConsolas, ManosDeOtros, ManosDeProgramas,
       bloqueados, programas, historia
<1>3. CASE Cpu380Encola(k)
  <2>1. d \in IOs /\ u \in Nat /\ hilo[k].proceso \in Consolas
    BY <1>0, <1>3 DEF Cpu380Encola
  <2>2. Append(colas_ios[d], hilo[k].proceso) \in Seq(Consolas)
    BY <2>1 DEF TipoBloqueados
  <2>3. colas_ios' \in [IOs -> Seq(Consolas)]
    BY <1>3, <2>2 DEF Cpu380Encola, TipoBloqueados
  <2>4. t_proceso' \in [Consolas -> DatosDeProceso]
    BY <1>3, <2>1 DEF Cpu380Encola, TipoBloqueados, DatosDeProceso
  <2>5. timers' \in [IOs -> Seq(Nat)]
    BY <1>3, <2>1, MakeTimerTipo DEF Cpu380Encola, TipoBloqueados
  <2>6. hilo' \in [CPUs -> EstadosHilo] /\ ManosDeHilos'
    BY <1>3, CpuSueltaTipo DEF Cpu380Encola
  <2> QED
    BY <1>3, <2>3, <2>4, <2>5, <2>6 DEF Cpu380Encola, TipoColas, TipoBloqueados, TipoHilos,
       TipoProgramas, TipoHistoria, Admision, ManosDeConsolas, ManosDeOtros, ManosDeProgramas,
       bloqueados, programas, historia
<1> QED
  BY <1>1, <1>2, <1>3

LEMMA CaidaTipos ==
  ASSUME Tipos, NEW k \in CPUs,
         \/ CpuConecta(k) \/ CpuCae(k) \/ CpuCaeAborta(k) \/ CpuCaeRecorre(k)
         \/ CpuCaeEspera(k)
  PROVE  Tipos'
<1> USE DEF Tipos, TiposDeHilos
<1>1. CASE CpuConecta(k)
  <2>1. TipoColas' /\ Admision'
    BY <1>1, LiberaCPUTipo DEF CpuConecta, TipoColas
  <2>2. hilo' \in [CPUs -> EstadosHilo] /\ ManosDeHilos'
    BY <1>1, CpuPasaATipo DEF CpuConecta, PCsHilo, ConProceso
  <2>3. cpu' \in [CPUs -> EstadosPrograma] /\ ManosDeProgramas'
    BY <1>1 DEF CpuConecta, TipoProgramas, EstadosPrograma, EstadosCPU, ManosDeProgramas,
       EnRafaga
  <2> QED
    BY <1>1, <2>1, <2>2, <2>3 DEF CpuConecta, TipoColas, TipoBloqueados, TipoHilos,
       TipoProgramas, TipoHistoria, Admision, ManosDeConsolas, ManosDeOtros, ManosDeProgramas,
       bloqueados, programas, historia
<1>2. CASE CpuCae(k)
  <2>1. CASE CpuPasaA(k, "recorre") /\ UNCHANGED cola
    <3>1. hilo' \in [CPUs -> EstadosHilo] /\ ManosDeHilos'
      BY <2>1, CpuPasaATipo DEF PCsHilo, ConProceso
    <3> QED
      BY <1>2, <2>1, <3>1 DEF CpuCae, TipoColas, TipoBloqueados, TipoHilos,
       TipoProgramas, TipoHistoria, Admision, ManosDeConsolas, ManosDeOtros, ManosDeProgramas,
       bloqueados, programas, historia
  <2>2. CASE \E i \in DOMAIN cola.exec :
               /\ EsSuProceso(k, i)
               /\ hilo' = [hilo EXCEPT ![k].pc = "aborta", ![k].proceso = cola.exec[i]]
               /\ cola' = [cola EXCEPT !.exec = RemoveAt(@, i)]
    <3>1. PICK i \in 1..Len(cola.exec) :
            /\ hilo' = [hilo EXCEPT ![k].pc = "aborta", ![k].proceso = cola.exec[i]]
            /\ cola' = [cola EXCEPT !.exec = RemoveAt(@, i)]
      BY <2>2 DEF EsSuProceso, EsPrimero
    <3>2. cola.exec[i] \in Consolas /\ RemoveAt(cola.exec, i) \in Seq(Consolas)
      BY RemoveAtTipo DEF TipoColas, Colas
    <3>3. cola' \in Colas /\ cola'.new = cola.new
      BY <3>1, <3>2 DEF TipoColas, Colas
    <3>4. hilo' = [hilo EXCEPT ![k] = [hilo[k] EXCEPT !.pc = "aborta",
                                                      !.proceso = cola.exec[i]]]
      BY <3>1 DEF TipoHilos, EstadosHilo
    <3>5. [hilo[k] EXCEPT !.pc = "aborta", !.proceso = cola.exec[i]] \in EstadosHilo
      BY <3>2 DEF TipoHilos, EstadosHilo, PCsHilo
    <3>6. hilo' \in [CPUs -> EstadosHilo]
      BY <3>4, <3>5 DEF TipoHilos
    <3>7. ManosDeHilos'
      BY <3>2, <3>4 DEF TipoHilos, EstadosHilo, ManosDeHilos
    <3> QED
      BY <1>2, <3>3, <3>6, <3>7 DEF CpuCae, TipoColas, TipoBloqueados, TipoHilos,
       TipoProgramas, TipoHistoria, Admision, ManosDeConsolas, ManosDeOtros, ManosDeProgramas,
       bloqueados, programas, historia
  <2> QED
    BY <1>2, <2>1, <2>2 DEF CpuCae
<1>3. CASE CpuCaeAborta(k)
  <2>1. hilo[k].proceso \in Consolas
    BY <1>3 DEF CpuCaeAborta, ManosDeHilos, ConProceso
  <2>2. cola' \in Colas /\ cola'.new = cola.new /\ finalizados' \in [Consolas -> Nat]
    BY <1>3, <2>1, AbortarTipo DEF CpuCaeAborta
  <2>3. hilo' \in [CPUs -> EstadosHilo] /\ ManosDeHilos'
    BY <1>3, CpuSueltaTipo DEF CpuCaeAborta
  <2> QED
    BY <1>3, <2>2, <2>3 DEF CpuCaeAborta, TipoColas, TipoBloqueados, TipoHilos,
       TipoProgramas, TipoHistoria, Admision, ManosDeConsolas, ManosDeOtros, ManosDeProgramas,
       bloqueados, programas, historia
<1>4. CASE CpuCaeRecorre(k)
  <2>1. cola' \in Colas /\ cola'.new = cola.new
    <3>1. CASE UNCHANGED cola
      BY <3>1 DEF TipoColas
    <3>2. CASE \E i \in DOMAIN cola.CPU_libres :
                 /\ EsPrimero(cola.CPU_libres, i, {k})
                 /\ cola' = [cola EXCEPT !.CPU_libres = RemoveAt(@, i)]
      <4>1. PICK i \in 1..Len(cola.CPU_libres) :
              cola' = [cola EXCEPT !.CPU_libres = RemoveAt(@, i)]
        BY <3>2 DEF EsPrimero
      <4>2. RemoveAt(cola.CPU_libres, i) \in Seq(CPUs)
        BY RemoveAtTipo DEF TipoColas, Colas
      <4> QED
        BY <4>1, <4>2 DEF TipoColas, Colas
    <3> QED
      BY <1>4, <3>1, <3>2 DEF CpuCaeRecorre
  <2>2. hilo' \in [CPUs -> EstadosHilo] /\ ManosDeHilos'
    BY <1>4, CpuPasaATipo DEF CpuCaeRecorre, PCsHilo, ConProceso
  <2> QED
    BY <1>4, <2>1, <2>2 DEF CpuCaeRecorre, TipoColas, TipoBloqueados, TipoHilos,
       TipoProgramas, TipoHistoria, Admision, ManosDeConsolas, ManosDeOtros, ManosDeProgramas,
       bloqueados, programas, historia
<1>5. CASE CpuCaeEspera(k)
  <2>1. sem.cpu - 1 \in Nat
    BY <1>5 DEF CpuCaeEspera, TipoColas, Contadores
  <2>2. sem' \in Contadores /\ sem'.new = sem.new
    BY <1>5, <2>1 DEF CpuCaeEspera, TipoColas, Contadores
  <2>3. hilo' \in [CPUs -> EstadosHilo] /\ ManosDeHilos'
    BY <1>5, CpuPasaATipo DEF CpuCaeEspera, PCsHilo, ConProceso
  <2> QED
    BY <1>5, <2>2, <2>3 DEF CpuCaeEspera, TipoColas, TipoBloqueados, TipoHilos,
       TipoProgramas, TipoHistoria, Admision, ManosDeConsolas, ManosDeOtros, ManosDeProgramas,
       bloqueados, programas, historia
<1> QED
  BY <1>1, <1>2, <1>3, <1>4, <1>5

\* What a CPU program sends is a sequence of packets.
LEMMA EnviaTipo ==
  ASSUME NEW k \in CPUs, NEW ps \in Seq(Paquetes), Envia(k, ps), TipoProgramas
  PROVE  buzon' \in [CPUs -> Seq(Paquetes)]
<1>1. buzon[k] \o ps \in Seq(Paquetes)
  BY ConcatProperties DEF TipoProgramas
<1> QED
  BY <1>1 DEF Envia, TipoProgramas

SinDatos == {"-1", "304", "320", "340", "350", "351", "360", "370", "399"}

LEMMA CodigoTipo ==
  ASSUME NEW op \in SinDatos
  PROVE  <<Codigo(op)>> \in Seq(Paquetes)
<1>1. Codigo(op) \in Paquetes
  BY DEF Codigo, Paquete, Paquetes, SinDatos
<1> QED
  BY <1>1

LEMMA ConAvisoTipo ==
  ASSUME NEW k \in CPUs, NEW op \in SinDatos
  PROVE  ConAviso(k, op) \in Seq(Paquetes)
<1>1. <<Codigo(op)>> \in Seq(Paquetes) /\ <<Codigo("399")>> \in Seq(Paquetes)
  BY CodigoTipo DEF SinDatos
<1>2. (IF cpu[k].sigusr1 THEN <<Codigo("399")>> ELSE <<>>) \in Seq(Paquetes)
  BY <1>1
<1> QED
  BY <1>1, <1>2, ConcatProperties DEF ConAviso

LEMMA TerminaRafagaTipos ==
  ASSUME Tipos, NEW k \in CPUs, NEW ps \in Seq(Paquetes), TerminaRafaga(k, ps),
         llamadas' \in [Consolas -> 0..MaxLlamadas]
  PROVE  Tipos'
<1> USE DEF Tipos, TiposDeHilos
<1>1. <<FinDeArchivo>> \in Seq(Paquetes)
  BY CodigoTipo DEF FinDeArchivo, SinDatos
<1>2. ps \o (IF cpu[k].sigusr1 THEN <<FinDeArchivo>> ELSE <<>>) \in Seq(Paquetes)
  BY <1>1, ConcatProperties
<1>3. buzon' \in [CPUs -> Seq(Paquetes)]
  BY <1>2, EnviaTipo DEF TerminaRafaga
<1> DEFINE e == IF cpu[k].sigusr1 THEN "muerta" ELSE "espera303"
<1>4. cpu' = [cpu EXCEPT ![k] = [cpu[k] EXCEPT !.estado = e, !.pcb = NULO]]
  BY DEF TerminaRafaga, TipoProgramas
<1>5. e \in EstadosCPU /\ e \notin EnRafaga
  BY DEF EstadosCPU, EnRafaga
<1> HIDE DEF e
<1>6. [cpu[k] EXCEPT !.estado = e, !.pcb = NULO] \in EstadosPrograma
  BY <1>5 DEF TipoProgramas, EstadosPrograma
<1>7. cpu' \in [CPUs -> EstadosPrograma]
  BY <1>4, <1>6 DEF TipoProgramas
<1>8. ManosDeProgramas'
  BY <1>4, <1>5 DEF TipoProgramas, EstadosPrograma, ManosDeProgramas
<1> QED
  BY <1>3, <1>7, <1>8 DEF TerminaRafaga, ProgramaSigue, TipoColas, TipoBloqueados, TipoHilos,
     TipoProgramas, TipoHistoria, Admision, ManosDeHilos, ManosDeConsolas, ManosDeOtros,
     bloqueados, hilos, historia

LEMMA GastaLlamadaTipo ==
  ASSUME Tipos, NEW k \in CPUs, Ejecuta(k), GastaLlamada(k)
  PROVE  llamadas' \in [Consolas -> 0..MaxLlamadas]
<1> DEFINE p == cpu[k].pcb
<1>1. p \in Consolas /\ MaxLlamadas \in Nat
  BY ConstantesNucleo DEF Tipos, ManosDeProgramas, Ejecuta, EnRafaga
<1>2. llamadas[p] + 1 \in 0..MaxLlamadas
  BY <1>1 DEF GastaLlamada, Tipos, TiposDeHilos, TipoProgramas
<1> QED
  BY <1>2 DEF GastaLlamada, Tipos, TiposDeHilos, TipoProgramas

LEMMA ProgramaTipos ==
  ASSUME Tipos, NEW k \in CPUs, Programa(k)
  PROVE  Tipos'
<1> USE DEF Tipos, TiposDeHilos
<1>1. ASSUME NEW op \in Primitivas, ProgramaLlama(k, op) PROVE Tipos'
  <2>1. /\ llamadas' \in [Consolas -> 0..MaxLlamadas]
        /\ cpu[k].pcb \in Consolas
    BY <1>1, GastaLlamadaTipo DEF ProgramaLlama, Ejecuta, ManosDeProgramas, EnRafaga
  <2>2. buzon' \in [CPUs -> Seq(Paquetes)]
    <3>1. ASSUME op \in {"341", "343"}, NEW s \in Semaforos, Envia(k, <<Paquete(op, s, 0)>>)
          PROVE  buzon' \in [CPUs -> Seq(Paquetes)]
      <4>1. Paquete(op, s, 0) \in Paquetes
        BY <3>1 DEF Paquete, Paquetes
      <4>2. <<Paquete(op, s, 0)>> \in Seq(Paquetes)
        BY <4>1
      <4> QED
        BY <3>1, <4>2, EnviaTipo
    <3>2. ASSUME op \in {"350", "351", "360"}, Envia(k, <<Codigo(op)>>)
          PROVE  buzon' \in [CPUs -> Seq(Paquetes)]
      <4>1. <<Codigo(op)>> \in Seq(Paquetes)
        BY <3>2, CodigoTipo DEF SinDatos
      <4> QED
        BY <3>2, <4>1, EnviaTipo
    <3>3. ASSUME op = "380", NEW d \in IOs, NEW u \in Unidades, Envia(k, <<Paquete(op, d, u)>>)
          PROVE  buzon' \in [CPUs -> Seq(Paquetes)]
      <4>1. Paquete(op, d, u) \in Paquetes
        BY <3>3, ConstantesNucleo DEF Paquete, Paquetes
      <4>2. <<Paquete(op, d, u)>> \in Seq(Paquetes)
        BY <4>1
      <4> QED
        BY <3>3, <4>2, EnviaTipo
    <3> QED
      BY <1>1, <3>1, <3>2, <3>3 DEF ProgramaLlama
  <2> DEFINE e == CASE op = "341" -> "espera342" [] op = "351" -> "espera352"
                    [] op = "380" -> "bloqueada" [] OTHER -> "ejecuta"
  <2>3. e \in EnRafaga /\ e \in EstadosCPU
    BY DEF EnRafaga, EstadosCPU
  <2>4. cpu' = [cpu EXCEPT ![k].estado = e]
    BY <1>1 DEF ProgramaLlama
  <2> HIDE DEF e
  <2>5. cpu' \in [CPUs -> EstadosPrograma] /\ ManosDeProgramas'
    BY <2>1, <2>3, <2>4 DEF TipoProgramas, EstadosPrograma, ManosDeProgramas
  <2> QED
    BY <1>1, <2>1, <2>2, <2>5 DEF ProgramaLlama, ProgramaSigue, TipoColas, TipoBloqueados,
       TipoHilos, TipoProgramas, TipoHistoria, Admision, ManosDeHilos, ManosDeConsolas,
       ManosDeOtros, bloqueados, hilos, historia
<1>2. CASE ProgramaPCB(k)
  <2>1. ConAviso(k, "340") \in Seq(Paquetes) /\ ConAviso(k, "370") \in Seq(Paquetes)
    BY ConAvisoTipo DEF SinDatos
  <2>2. ConAviso(k, "340") \o (IF cpu[k].programaAbortado THEN ConAviso(k, "370") ELSE <<>>)
          \in Seq(Paquetes)
    BY <2>1, ConcatProperties
  <2> QED
    BY <1>2, <2>2, TerminaRafagaTipos DEF ProgramaPCB, TipoProgramas
<1>3. CASE ProgramaQuantum(k)
  <2>1. ConAviso(k, "304") \in Seq(Paquetes)
    BY ConAvisoTipo DEF SinDatos
  <2> QED
    BY <1>3, <2>1, GastaLlamadaTipo, TerminaRafagaTipos DEF ProgramaQuantum
<1>4. CASE ProgramaAborta(k)
  <2>1. ConAviso(k, "370") \in Seq(Paquetes)
    BY ConAvisoTipo DEF SinDatos
  <2> QED
    BY <1>4, <2>1, TerminaRafagaTipos DEF ProgramaAborta, TipoProgramas
<1>5. CASE ProgramaFinaliza(k)
  <2>1. <<Codigo("320")>> \in Seq(Paquetes) /\ ConAviso(k, "370") \in Seq(Paquetes)
    BY CodigoTipo, ConAvisoTipo DEF SinDatos
  <2>2. <<Codigo("320")>> \o ConAviso(k, "370") \in Seq(Paquetes)
    BY <2>1, ConcatProperties
  <2> QED
    BY <1>5, <2>1, <2>2, TerminaRafagaTipos DEF ProgramaFinaliza, TipoProgramas
<1> QED
  BY <1>1, <1>2, <1>3, <1>4, <1>5 DEF Programa

LEMMA FallasTipos ==
  ASSUME Tipos, NEW k \in CPUs, ProgramaSenial(k) \/ ProgramaCae(k)
  PROVE  Tipos'
<1> USE DEF Tipos, TiposDeHilos
<1>0. <<FinDeArchivo>> \in Seq(Paquetes)
  BY CodigoTipo DEF FinDeArchivo, SinDatos
<1>1. CASE ProgramaSenial(k)
  <2>1. /\ buzon' \in [CPUs -> Seq(Paquetes)]
        /\ cpu' \in [CPUs -> EstadosPrograma] /\ ManosDeProgramas'
    <3>1. ASSUME NEW int \in BOOLEAN,
                 cpu[k].estado \in EnRafaga,
                 cpu' = [cpu EXCEPT ![k] = [@ EXCEPT !.sigusr1 = TRUE,
                           !.programaAbortado = cpu[k].programaAbortado \/ int]]
          PROVE  cpu' \in [CPUs -> EstadosPrograma] /\ ManosDeProgramas'
      <4> DEFINE b == cpu[k].programaAbortado \/ int
      <4>1. b \in BOOLEAN
        OBVIOUS
      <4>2. cpu' = [cpu EXCEPT ![k] = [cpu[k] EXCEPT !.sigusr1 = TRUE, !.programaAbortado = b]]
        BY <3>1
      <4> HIDE DEF b
      <4>3. [cpu[k] EXCEPT !.sigusr1 = TRUE, !.programaAbortado = b] \in EstadosPrograma
        BY <4>1 DEF TipoProgramas, EstadosPrograma
      <4>4. cpu' \in [CPUs -> EstadosPrograma]
        BY <4>2, <4>3 DEF TipoProgramas
      <4> QED
        BY <4>2, <4>4 DEF TipoProgramas, EstadosPrograma, ManosDeProgramas
    <3>2. ASSUME Envia(k, <<FinDeArchivo>>), cpu' = [cpu EXCEPT ![k].estado = "muerta"]
          PROVE  /\ buzon' \in [CPUs -> Seq(Paquetes)]
                 /\ cpu' \in [CPUs -> EstadosPrograma] /\ ManosDeProgramas'
      <4>1. buzon' \in [CPUs -> Seq(Paquetes)]
        BY <1>0, <3>2, EnviaTipo
      <4> QED
        BY <3>2, <4>1 DEF TipoProgramas, EstadosPrograma, EstadosCPU, ManosDeProgramas, EnRafaga
    <3> QED
      BY <1>1, <3>1, <3>2 DEF ProgramaSenial, EnRafaga, TipoProgramas
  <2> QED
    BY <1>1, <2>1 DEF ProgramaSenial, ProgramaSigue, TipoColas, TipoBloqueados,
       TipoHilos, TipoProgramas, TipoHistoria, Admision, ManosDeHilos, ManosDeConsolas,
       ManosDeOtros, bloqueados, hilos, historia
<1>2. CASE ProgramaCae(k)
  <2>1. buzon' \in [CPUs -> Seq(Paquetes)]
    BY <1>0, <1>2, EnviaTipo DEF ProgramaCae
  <2>2. cpu' = [cpu EXCEPT ![k] = [cpu[k] EXCEPT !.estado = "muerta", !.pcb = NULO]]
    BY <1>2 DEF ProgramaCae, TipoProgramas, EstadosPrograma
  <2>3. [cpu[k] EXCEPT !.estado = "muerta", !.pcb = NULO] \in EstadosPrograma
    BY DEF TipoProgramas, EstadosPrograma, EstadosCPU
  <2>4. cpu' \in [CPUs -> EstadosPrograma] /\ ManosDeProgramas'
    BY <2>2, <2>3 DEF TipoProgramas, ManosDeProgramas, EnRafaga, EstadosPrograma
  <2> QED
    BY <1>2, <2>1, <2>4 DEF ProgramaCae, ProgramaSigue, TipoColas, TipoBloqueados,
       TipoHilos, TipoProgramas, TipoHistoria, Admision, ManosDeHilos, ManosDeConsolas,
       ManosDeOtros, bloqueados, hilos, historia
<1> QED
  BY <1>1, <1>2

LEMMA AnalizarIOTipos ==
  ASSUME Tipos, NEW h \in Manejadores, AnalizarIO(h)
  PROVE  Tipos'
<1> USE DEF Tipos, TiposDeHilos
<1>1. ASSUME NEW d \in IOs, SenialNada(h, d) PROVE Tipos'
  BY <1>1, MuereTipos DEF SenialNada
<1>2. ASSUME NEW d \in IOs, SenialSaca(h, d) PROVE Tipos'
  <2>0. DOMAIN timers[d] = 1..Len(timers[d])
    BY DEF TipoBloqueados
  <2>1. PICK i \in 1..Len(timers[d]) : timers' = [timers EXCEPT ![d] = RemoveAt(@, i)]
    BY <1>2, <2>0 DEF SenialSaca
  <2>2. RemoveAt(timers[d], i) \in Seq(Nat)
    BY RemoveAtTipo DEF TipoBloqueados
  <2>3. timers' \in [IOs -> Seq(Nat)]
    BY <2>1, <2>2 DEF TipoBloqueados
  <2>4. Head(colas_ios[d]) \in Consolas /\ Tail(colas_ios[d]) \in Seq(Consolas)
    BY <1>2 DEF SenialSaca, Vacia, TipoBloqueados
  <2>5. colas_ios' \in [IOs -> Seq(Consolas)]
    BY <1>2, <2>4 DEF SenialSaca, TipoBloqueados
  <2>6. manejador' \in [Manejadores -> EstadosManejador] /\ ManosDeOtros'
    BY <1>2, <2>4 DEF SenialSaca, TipoHilos, EstadosManejador, ManosDeOtros, IOs
  <2> QED
    BY <1>2, <2>3, <2>5, <2>6 DEF SenialSaca, TipoColas, TipoBloqueados, TipoHilos,
       TipoProgramas, TipoHistoria, Admision, ManosDeHilos, ManosDeConsolas, ManosDeProgramas,
       programas, historia
<1>3. CASE SenialEntrega(h)
  <2>1. manejador[h].proceso \in Consolas /\ manejador[h].io \in IOs
    BY <1>3 DEF SenialEntrega, ManosDeOtros
  <2>2. TipoColas' /\ Admision' /\ finalizados' \in [Consolas -> Nat]
    BY <1>3, <2>1, EntregaTipo DEF SenialEntrega
  <2>3. manejador' = [manejador EXCEPT ![h] = [manejador[h] EXCEPT !.pc = "rearma",
                                                                !.proceso = NULO]]
    BY <1>3 DEF SenialEntrega, TipoHilos, EstadosManejador
  <2>4. [manejador[h] EXCEPT !.pc = "rearma", !.proceso = NULO] \in EstadosManejador
    BY DEF TipoHilos, EstadosManejador
  <2>5. manejador' \in [Manejadores -> EstadosManejador] /\ ManosDeOtros'
    BY <1>3, <2>1, <2>3, <2>4 DEF SenialEntrega, TipoHilos, EstadosManejador, ManosDeOtros
  <2> QED
    BY <1>3, <2>2, <2>5 DEF SenialEntrega, TipoColas, TipoBloqueados, TipoHilos, TipoProgramas,
       TipoHistoria, ManosDeHilos, ManosDeConsolas, ManosDeProgramas, bloqueados, programas
<1>4. CASE SenialRearma(h)
  <2> DEFINE d == manejador[h].io
             q == colas_ios[d]
  <2>1. d \in IOs /\ q \in Seq(Consolas)
    BY <1>4 DEF SenialRearma, ManosDeOtros, TipoBloqueados
  <2>2. timers' \in [IOs -> Seq(Nat)]
    <3>1. CASE Vacia(q)
      BY <1>4, <3>1 DEF SenialRearma, TipoBloqueados
    <3>2. CASE ~Vacia(q)
      <4>1. Last(q) \in Consolas
        BY <2>1, <3>2, LastTipo
      <4>2. t_proceso[Last(q)].unidades \in Nat
        BY <4>1 DEF TipoBloqueados, DatosDeProceso
      <4> QED
        BY <1>4, <2>1, <3>2, <4>2, MakeTimerTipo DEF SenialRearma
    <3> QED
      BY <3>1, <3>2
  <2>3. manejador' \in [Manejadores -> EstadosManejador] /\ ManosDeOtros'
    BY <1>4 DEF SenialRearma, TipoHilos, EstadosManejador, ManosDeOtros
  <2> QED
    BY <1>4, <2>2, <2>3 DEF SenialRearma, TipoColas, TipoBloqueados, TipoHilos,
       TipoProgramas, TipoHistoria, Admision, ManosDeHilos, ManosDeConsolas, ManosDeProgramas,
       programas, historia
<1>5. CASE SenialPantalla(h) \/ PantallaDibuja(h)
  <2>1. manejador' \in [Manejadores -> EstadosManejador] /\ ManosDeOtros'
    BY <1>5 DEF SenialPantalla, PantallaDibuja, TipoHilos, EstadosManejador, ManosDeOtros
  <2> QED
    BY <1>5, <2>1 DEF SenialPantalla, PantallaDibuja, TipoColas, TipoBloqueados, TipoHilos,
       TipoProgramas, TipoHistoria, Admision, ManosDeHilos, ManosDeConsolas, ManosDeProgramas,
       bloqueados, programas, historia
<1> QED
  BY <1>1, <1>2, <1>3, <1>4, <1>5 DEF AnalizarIO, AtiendeIO

LEMMA PrincipalTipos ==
  ASSUME Tipos, Principal
  PROVE  Tipos'
<1> USE DEF Tipos, TiposDeHilos
<1>1. CASE RecargaEmpieza \/ RecargaMira \/ RecargaToma \/ RecargaSuelta
  BY <1>1 DEF RecargaEmpieza, RecargaMira, RecargaToma, RecargaSuelta, TipoColas,
     TipoBloqueados, TipoHilos, TipoProgramas, TipoHistoria, Admision, ManosDeHilos,
     ManosDeConsolas, ManosDeOtros, ManosDeProgramas, bloqueados, hilos, programas, historia
<1>2. CASE RecargaCambia
  <2>1. TipoBloqueados'
    BY <1>2, ConstantesNucleo DEF RecargaCambia, TipoBloqueados
  <2> QED
    BY <1>2, <2>1 DEF RecargaCambia, TipoColas, TipoHilos, TipoProgramas, TipoHistoria,
       Admision, ManosDeHilos, ManosDeConsolas, ManosDeOtros, ManosDeProgramas, hilos,
       programas, historia
<1>3. ASSUME NEW h \in Manejadores, SenialVieja(h) PROVE Tipos'
  <2>1. CASE Muere("segv")
    BY <2>1, MuereTipos
  <2>2. ASSUME NEW e \in IOs, ~Vacia(colas_ios[e]),
               manejador' = [manejador EXCEPT ![h] = [pc |-> "entrega", io |-> e,
                                                      proceso |-> Head(colas_ios[e])]],
               colas_ios' = [colas_ios EXCEPT ![e] = Tail(@)],
               UNCHANGED <<cola, sem, flag, mutex_config, colas_semaforos, VALOR_SEM, timers,
                           t_proceso, pcp, hilo, consola, programas, historia>>
        PROVE  Tipos'
    <3>1. Head(colas_ios[e]) \in Consolas /\ Tail(colas_ios[e]) \in Seq(Consolas)
      BY <2>2 DEF Vacia, TipoBloqueados
    <3>2. colas_ios' \in [IOs -> Seq(Consolas)]
      BY <2>2, <3>1 DEF TipoBloqueados
    <3>3. manejador' \in [Manejadores -> EstadosManejador] /\ ManosDeOtros'
      BY <2>2, <3>1 DEF TipoHilos, EstadosManejador, ManosDeOtros, IOs
    <3> QED
      BY <2>2, <3>2, <3>3 DEF TipoColas, TipoBloqueados, TipoHilos, TipoProgramas, TipoHistoria,
         Admision, ManosDeHilos, ManosDeConsolas, ManosDeProgramas, programas, historia
  <2> QED
    BY <1>3, <2>1, <2>2 DEF SenialVieja
<1> QED
  BY <1>1, <1>2, <1>3 DEF Principal, Recarga

LEMMA NextTipos == Tipos /\ [Next]_vars => Tipos'
<1> SUFFICES ASSUME Tipos, [Next]_vars PROVE Tipos'
  OBVIOUS
<1>1. CASE UNCHANGED vars
  BY <1>1 DEF vars, bloqueados, hilos, programas, historia, Tipos, TiposDeHilos, TipoColas,
     TipoBloqueados, TipoHilos, TipoProgramas, TipoHistoria, Admision, ManosDeHilos,
     ManosDeConsolas, ManosDeOtros, ManosDeProgramas
<1>2. ASSUME NEW k \in CPUs, HiloCPU(k) PROVE Tipos'
  BY <1>2, RecepcionTipos, FinDeRafagaTipos, SemaforosTipos, EntradaSalidaTipos, CaidaTipos
     DEF HiloCPU
<1>3. ASSUME NEW k \in CPUs, CpuConecta(k) PROVE Tipos'
  BY <1>3, CaidaTipos
<1>4. CASE Hilos
  BY <1>2, <1>3, <1>4, PLPTipos, HiloPCPTipos, HiloConsolaTipos, ProgramaTipos, FallasTipos,
     AnalizarIOTipos DEF Hilos
<1> QED
  BY <1>1, <1>4, PrincipalTipos DEF Next, Sigue

LEMMA InitPrincipal == Init => TipoPrincipal
  BY ConstantesNucleo DEF Init, TipoPrincipal

LEMMA NextPrincipal == Tipos /\ TipoPrincipal /\ [Next]_vars => TipoPrincipal'
<1> SUFFICES ASSUME Tipos, TipoPrincipal, [Next]_vars PROVE TipoPrincipal'
  OBVIOUS
<1> USE ConstantesNucleo DEF TipoPrincipal
<1>1. CASE UNCHANGED principal
  BY <1>1 DEF principal
<1>2. CASE RecargaEmpieza
  BY <1>2 DEF RecargaEmpieza
<1>3. CASE RecargaMira \/ RecargaToma \/ RecargaSuelta
  BY <1>3 DEF RecargaMira, RecargaToma, RecargaSuelta, RecargaPasaA
<1>4. CASE RecargaCambia
  <2>1. \A d \in IOs : viejos[d] \o timers[d] \in Seq(Nat)
    BY DEF Tipos, TiposDeHilos, TipoBloqueados
  <2> QED
    BY <1>4, <2>1 DEF RecargaCambia, RecargaPasaA
<1>5. ASSUME NEW h \in Manejadores, SenialVieja(h) PROVE TipoPrincipal'
  <2>0. PICK d \in IOs :
          \E i \in DOMAIN viejos[d] : viejos' = [viejos EXCEPT ![d] = RemoveAt(@, i)]
    BY <1>5 DEF SenialVieja
  <2>1. PICK i \in DOMAIN viejos[d] : viejos' = [viejos EXCEPT ![d] = RemoveAt(@, i)]
    BY <2>0
  <2>2. RemoveAt(viejos[d], i) \in Seq(Nat)
    <3>1. viejos[d] \in Seq(Nat)
      OBVIOUS
    <3>2. i \in 1..Len(viejos[d])
      BY <3>1
    <3> QED
      BY <3>1, <3>2, RemoveAtTipo
  <2> QED
    BY <1>5, <2>1, <2>2 DEF SenialVieja
<1> QED
  BY <1>1, <1>2, <1>3, <1>4, <1>5 DEF Next, Sigue, Principal, Recarga, vars, principal

\* Whatever consoles, CPUs, programs, signals and failures do, every queue
\* holds what its readers expect, no counter goes below zero and every thread
\* has in its hands the process and the packet its next step uses.
THEOREM TiposSiempre == Spec => []Tipos
  BY InitTipos, NextTipos, PTL DEF Spec

\* The types of the variables of the NUCLEO hold in every reachable state.
THEOREM TypeOKSiempre == Spec => []TypeOK
<1>1. Tipos /\ TipoPrincipal => TypeOK
  BY DEF Tipos, TypeOK
<1> QED
  BY <1>1, InitTipos, NextTipos, InitPrincipal, NextPrincipal, PTL DEF Spec

-----------------------------------------------------------------------------
(* The signal that is not lost.  SinSenialPerdida is not inductive: between *)
(* the 342 that says "block" and the queueing, the process waits for its    *)
(* PCB with mutex_config held, so that nobody may give a unit meanwhile.    *)

ConMutex == {"341pcb", "liberaYSuelta", "343saca", "343pone", "380vacia", "380ocupada"}

MutexConDuenio ==
  /\ \A k \in CPUs : mutex_config = k <=> hilo[k].pc \in ConMutex
  /\ mutex_config = PCP <=> pcp.pc = "manda"
  /\ mutex_config = MAIN <=> recarga.pc \in {"dentro", "cambiada"}

EsperaConCero ==
  \A k \in CPUs : hilo[k].pc = "341pcb" => VALOR_SEM[hilo[k].elPaquete.i] = 0

Seniales == MutexConDuenio /\ EsperaConCero /\ SinSenialPerdida

\* A step of one CPU's thread taken without the mutex.
LEMMA FueraDelMutex ==
  ASSUME Tipos, Seniales, NEW k \in CPUs,
         UNCHANGED <<mutex_config, pcp, VALOR_SEM, colas_semaforos, recarga>>,
         hilo[k].pc \notin ConMutex, hilo'[k].pc \notin ConMutex,
         \A j \in CPUs \ {k} : hilo'[j] = hilo[j]
  PROVE  Seniales'
  BY DEF Seniales, MutexConDuenio, EsperaConCero, SinSenialPerdida, ConMutex

\* A step of one CPU's thread that takes the mutex, keeps it or gives it back.
LEMMA ConElMutex ==
  ASSUME Tipos, Seniales, NEW k \in CPUs,
         mutex_config \in {k, NULO}, mutex_config' \in {k, NULO}, UNCHANGED <<pcp, recarga>>,
         hilo'[k].pc \in ConMutex <=> mutex_config' = k,
         \A j \in CPUs \ {k} : hilo'[j] = hilo[j]
  PROVE  MutexConDuenio' /\ \A j \in CPUs \ {k} : hilo'[j].pc # "341pcb"
  BY ConstantesNucleo DEF Seniales, MutexConDuenio, ConMutex

LEMMA PasaA ==
  ASSUME Tipos, NEW k \in CPUs, NEW pc, CpuPasaA(k, pc)
  PROVE  /\ hilo'[k].pc = pc /\ hilo'[k].elPaquete = hilo[k].elPaquete
         /\ \A j \in CPUs \ {k} : hilo'[j] = hilo[j]
  BY DEF CpuPasaA, Tipos, TiposDeHilos, TipoHilos, EstadosHilo

LEMMA Suelta ==
  ASSUME Tipos, NEW k \in CPUs, NEW pc, CpuSuelta(k, pc)
  PROVE  /\ hilo'[k].pc = pc
         /\ \A j \in CPUs \ {k} : hilo'[j] = hilo[j]
  BY DEF CpuSuelta, Tipos, TiposDeHilos, TipoHilos, EstadosHilo

LEMMA InitSeniales == Init => Seniales
  BY ConstantesNucleo DEF Init, Seniales, MutexConDuenio, EsperaConCero, SinSenialPerdida,
     ConMutex, Vacia

LEMMA HiloPCPSeniales == Tipos /\ Seniales /\ HiloPCP /\ UNCHANGED recarga => Seniales'
<1> SUFFICES ASSUME Tipos, Seniales, HiloPCP, UNCHANGED recarga PROVE Seniales'
  OBVIOUS
<1>1. CASE PCPEspera
  BY <1>1 DEF PCPEspera, Seniales, MutexConDuenio, EsperaConCero, SinSenialPerdida, bloqueados,
     Tipos, TiposDeHilos, TipoHilos, EstadosPCP
<1>2. CASE PCPTomaNada
  BY <1>2 DEF PCPTomaNada, Muere, Seniales, MutexConDuenio, EsperaConCero, SinSenialPerdida,
     bloqueados, hilos
<1>3. CASE PCPToma
  BY <1>3, ConstantesNucleo DEF PCPToma, Seniales, MutexConDuenio, EsperaConCero,
     SinSenialPerdida, bloqueados
<1>4. CASE MandarAEjecutar
  BY <1>4, ConstantesNucleo DEF MandarAEjecutar, Seniales, MutexConDuenio, EsperaConCero,
     SinSenialPerdida, bloqueados
<1> QED
  BY <1>1, <1>2, <1>3, <1>4 DEF HiloPCP

LEMMA HiloConsolaSeniales ==
  ASSUME Tipos, Seniales, NEW c \in Consolas, HiloConsola(c), UNCHANGED recarga
  PROVE  Seniales'
<1>1. UNCHANGED <<mutex_config, pcp, hilo, VALOR_SEM>>
  BY DEF HiloConsola, ConCargaOk, ConCargaFalla, ConDesconecta, ConBuscaNulo, ConSacaReady,
     ConSubeFlag, ConNoEstaEnReady, ConBuscaExec, ConMarca, ConSacaSemaforo,
     ConSiguienteSemaforo, ConMiraIO, ConMarcaIO, ConArmaIO, ConSacaIO, ConTermina, Muere, bloqueados, hilos
<1>2. SinSenialPerdida'
  <2>1. CASE ConSacaSemaforo(c)
    <3> DEFINE s == consola[c].i
    <3>1. PICK i \in 1..Len(colas_semaforos[s]) :
            colas_semaforos' = [colas_semaforos EXCEPT ![s] = RemoveAt(@, i)]
      BY <2>1 DEF ConSacaSemaforo, EsPrimero
    <3>2. s \in Semaforos /\ colas_semaforos[s] # <<>>
      BY <2>1, <3>1 DEF ConSacaSemaforo, Tipos, TiposDeHilos, TipoBloqueados
    <3>3. VALOR_SEM[s] = 0
      BY <3>2 DEF Seniales, SinSenialPerdida, Vacia
    <3>4. \A t \in Semaforos \ {s} : colas_semaforos'[t] = colas_semaforos[t]
      BY <3>1 DEF Tipos, TiposDeHilos, TipoBloqueados
    <3> QED
      BY <1>1, <3>3, <3>4 DEF Seniales, SinSenialPerdida
  <2>2. CASE ~ConSacaSemaforo(c)
    <3>1. UNCHANGED colas_semaforos
      BY <2>2 DEF HiloConsola, ConCargaOk, ConCargaFalla, ConDesconecta, ConBuscaNulo,
         ConSacaReady, ConSubeFlag, ConNoEstaEnReady, ConBuscaExec, ConMarca,
         ConSiguienteSemaforo, ConMiraIO, ConMarcaIO, ConArmaIO, ConSacaIO, ConTermina, Muere, bloqueados, hilos
    <3> QED
      BY <1>1, <3>1 DEF Seniales, SinSenialPerdida
  <2> QED
    BY <2>1, <2>2
<1> QED
  BY <1>1, <1>2 DEF Seniales, MutexConDuenio, EsperaConCero

\* The steps of a CPU's thread that neither take nor hold mutex_config.
LEMMA SinMutexSeniales ==
  ASSUME Tipos, Seniales, NEW k \in CPUs, UNCHANGED recarga,
         \/ CpuTomaProceso(k) \/ CpuTomaYDevuelve(k) \/ CpuAviso(k) \/ Cpu304(k)
         \/ Cpu320Y370(k) \/ CpuTerminado(k) \/ Cpu350Y351(k) \/ Cpu380Aborta(k)
         \/ CpuCae(k) \/ CpuCaeAborta(k) \/ CpuCaeRecorre(k) \/ CpuCaeEspera(k)
  PROVE  Seniales'
<1>1. UNCHANGED <<mutex_config, pcp, VALOR_SEM, colas_semaforos>>
  BY DEF CpuTomaProceso, CpuTomaYDevuelve, CpuAviso, Cpu304, Cpu320Y370, CpuTerminado,
     Cpu350Y351, Cpu380Aborta, CpuCae, CpuCaeAborta, CpuCaeRecorre, CpuCaeEspera, bloqueados
<1>2. hilo[k].pc \notin ConMutex
  BY DEF CpuTomaProceso, CpuTomaYDevuelve, CpuAviso, Cpu304, Cpu320Y370, CpuTerminado,
     Cpu350Y351, Cpu380Aborta, CpuCae, CpuCaeAborta, CpuCaeRecorre, CpuCaeEspera, ConMutex
<1>3. /\ hilo'[k].pc \notin ConMutex
      /\ \A j \in CPUs \ {k} : hilo'[j] = hilo[j]
  <2>1. CASE CpuTomaProceso(k)
    BY <2>1 DEF CpuTomaProceso, Entregas, ConMutex, Tipos, TiposDeHilos, TipoHilos, EstadosHilo
  <2>2. CASE CpuTomaYDevuelve(k)
    BY <2>2 DEF CpuTomaYDevuelve, Consultas, ConMutex, Tipos, TiposDeHilos, TipoHilos, EstadosHilo
  <2>3. CASE CpuAviso(k)
    <3>1. DOMAIN hilo = CPUs /\ hilo[k] \in EstadosHilo
      BY DEF Tipos, TiposDeHilos, TipoHilos
    <3>2. hilo'[k] = [hilo[k] EXCEPT !.flag = @ \/ Head(buzon[k]).op = "399"]
      BY <2>3, <3>1 DEF CpuAviso
    <3>3. hilo'[k].pc = hilo[k].pc
      BY <3>1, <3>2 DEF EstadosHilo
    <3>4. \A j \in CPUs \ {k} : hilo'[j] = hilo[j]
      BY <2>3, <3>1 DEF CpuAviso
    <3> QED
      BY <1>2, <3>3, <3>4
  <2>4. CASE Cpu304(k) \/ Cpu380Aborta(k)
    BY <2>4, Suelta DEF Cpu304, Cpu380Aborta, ConMutex
  <2>5. CASE CpuTerminado(k) \/ CpuCaeAborta(k)
    BY <2>5, Suelta DEF CpuTerminado, CpuCaeAborta, ConMutex
  <2>6. CASE Cpu320Y370(k) \/ Cpu350Y351(k) \/ CpuCaeRecorre(k) \/ CpuCaeEspera(k)
    <3>1. PICK pc \in {"terminado", "recibe", "fin", "sem_wait"} : CpuPasaA(k, pc)
      BY <2>6 DEF Cpu320Y370, Cpu350Y351, CpuCaeRecorre, CpuCaeEspera
    <3> QED
      BY <3>1, PasaA DEF ConMutex
  <2>7. CASE CpuCae(k)
    <3>1. CASE CpuPasaA(k, "recorre")
      BY <3>1, PasaA DEF ConMutex
    <3>2. ASSUME NEW p, hilo' = [hilo EXCEPT ![k].pc = "aborta", ![k].proceso = p]
          PROVE  hilo'[k].pc \notin ConMutex /\ \A j \in CPUs \ {k} : hilo'[j] = hilo[j]
      BY <3>2 DEF ConMutex, Tipos, TiposDeHilos, TipoHilos, EstadosHilo
    <3> QED
      BY <2>7, <3>1, <3>2 DEF CpuCae
  <2> QED
    BY <2>1, <2>2, <2>3, <2>4, <2>5, <2>6, <2>7
<1> QED
  BY <1>1, <1>2, <1>3, FueraDelMutex

LEMMA SemaforoDelHilo ==
  ASSUME Tipos, NEW k \in CPUs, hilo[k].pc \in {"341", "341pcb", "343", "343saca"}
  PROVE  hilo[k].elPaquete.i \in Semaforos
<1>1. hilo[k].elPaquete \in Paquetes
  BY DEF Tipos, TiposDeHilos, TipoHilos, EstadosHilo
<1>2. hilo[k].elPaquete.op \in {"341", "343"}
  BY DEF Tipos, ManosDeHilos
<1> QED
  BY <1>1, <1>2, PaqueteTipo

\* 341 with units: there was nobody to wait for them.  341 without, and the
\* 340 that follows it: the value stays at 0 because the mutex is held.
LEMMA WaitSeniales ==
  ASSUME Tipos, Seniales, NEW k \in CPUs, UNCHANGED recarga,
         Cpu341Concede(k) \/ Cpu341Bloquea(k) \/ Cpu341PCB(k)
  PROVE  Seniales'
<1> DEFINE s == hilo[k].elPaquete.i
<1>1. CASE Cpu341Concede(k)
  <2>1. s \in Semaforos /\ VALOR_SEM[s] \in Nat /\ VALOR_SEM[s] > 0
    BY <1>1, SemaforoDelHilo DEF Cpu341Concede, HayUnidades, Tipos, TiposDeHilos, TipoBloqueados
  <2>2. Vacia(colas_semaforos[s])
    BY <2>1 DEF Seniales, SinSenialPerdida
  <2>3. \A t \in Semaforos \ {s} : VALOR_SEM'[t] = VALOR_SEM[t]
    BY <1>1 DEF Cpu341Concede, Tipos, TiposDeHilos, TipoBloqueados
  <2>4. SinSenialPerdida'
    BY <1>1, <2>2, <2>3 DEF Cpu341Concede, Seniales, SinSenialPerdida, Vacia
  <2>5. /\ hilo'[k].pc = "recibe" /\ UNCHANGED <<mutex_config, pcp>> /\ mutex_config = NULO
        /\ \A j \in CPUs \ {k} : hilo'[j] = hilo[j]
    BY <1>1, Suelta DEF Cpu341Concede
  <2>6. MutexConDuenio' /\ \A j \in CPUs \ {k} : hilo'[j].pc # "341pcb"
    BY <2>5, ConstantesNucleo, ConElMutex DEF ConMutex
  <2> QED
    BY <2>4, <2>5, <2>6 DEF Seniales, EsperaConCero
<1>2. CASE Cpu341Bloquea(k)
  <2>1. s \in Semaforos /\ VALOR_SEM[s] = 0
    BY <1>2, SemaforoDelHilo DEF Cpu341Bloquea, HayUnidades, Tipos, TiposDeHilos, TipoBloqueados
  <2>2. /\ hilo'[k].pc = "341pcb" /\ hilo'[k].elPaquete.i = s
        /\ \A j \in CPUs \ {k} : hilo'[j] = hilo[j]
        /\ mutex_config = NULO /\ mutex_config' = k
        /\ UNCHANGED <<pcp, VALOR_SEM, colas_semaforos>>
    BY <1>2, PasaA DEF Cpu341Bloquea, bloqueados
  <2>3. MutexConDuenio' /\ \A j \in CPUs \ {k} : hilo'[j].pc # "341pcb"
    BY <2>2, ConElMutex DEF ConMutex
  <2> QED
    BY <2>1, <2>2, <2>3 DEF Seniales, EsperaConCero, SinSenialPerdida
<1>3. CASE Cpu341PCB(k)
  <2>1. s \in Semaforos /\ VALOR_SEM[s] = 0 /\ mutex_config = k
    BY <1>3, SemaforoDelHilo DEF Cpu341PCB, Seniales, EsperaConCero, MutexConDuenio, ConMutex
  <2>2. /\ hilo'[k].pc \in {"recibe", "liberaYSuelta"}
        /\ hilo'[k].pc \in ConMutex <=> mutex_config' = k
        /\ mutex_config' \in {k, NULO}
        /\ \A j \in CPUs \ {k} : hilo'[j] = hilo[j]
    BY <1>3, <2>1, Suelta, ConstantesNucleo DEF Cpu341PCB, ConMutex
  <2>3. UNCHANGED <<pcp, VALOR_SEM>>
    BY <1>3 DEF Cpu341PCB
  <2>4. MutexConDuenio' /\ \A j \in CPUs \ {k} : hilo'[j].pc # "341pcb"
    BY <2>1, <2>2, <2>3, ConElMutex
  <2>5. \A t \in Semaforos \ {s} : colas_semaforos'[t] = colas_semaforos[t]
    BY <1>3 DEF Cpu341PCB, Tipos, TiposDeHilos, TipoBloqueados
  <2> QED
    BY <2>1, <2>2, <2>3, <2>4, <2>5 DEF Seniales, EsperaConCero, SinSenialPerdida
<1> QED
  BY <1>1, <1>2, <1>3

\* 343: the value grows only when nobody waits, and not while somebody is
\* about to, because the mutex is free.
LEMMA SignalSeniales ==
  ASSUME Tipos, Seniales, NEW k \in CPUs, UNCHANGED recarga,
         Cpu343Suma(k) \/ Cpu343HayEspera(k) \/ Cpu343Saca(k) \/ Cpu343Pone(k)
  PROVE  Seniales'
<1> DEFINE s == hilo[k].elPaquete.i
<1>1. CASE Cpu343Suma(k)
  <2>1. s \in Semaforos /\ Vacia(colas_semaforos[s])
    BY <1>1, SemaforoDelHilo DEF Cpu343Suma
  <2>2. /\ \A t \in Semaforos \ {s} : VALOR_SEM'[t] = VALOR_SEM[t]
        /\ UNCHANGED colas_semaforos
    BY <1>1 DEF Cpu343Suma, Tipos, TiposDeHilos, TipoBloqueados
  <2>3. SinSenialPerdida'
    BY <2>1, <2>2 DEF Seniales, SinSenialPerdida, Vacia
  <2>4. /\ hilo'[k].pc = "recibe" /\ UNCHANGED <<mutex_config, pcp>> /\ mutex_config = NULO
        /\ \A j \in CPUs \ {k} : hilo'[j] = hilo[j]
    BY <1>1, PasaA DEF Cpu343Suma
  <2>5. MutexConDuenio' /\ \A j \in CPUs \ {k} : hilo'[j].pc # "341pcb"
    BY <2>4, ConstantesNucleo, ConElMutex DEF ConMutex
  <2> QED
    BY <2>3, <2>4, <2>5 DEF Seniales, EsperaConCero
<1>2. CASE Cpu343HayEspera(k)
  <2>1. /\ hilo'[k].pc = "343saca" /\ mutex_config = NULO /\ mutex_config' = k
        /\ \A j \in CPUs \ {k} : hilo'[j] = hilo[j]
        /\ UNCHANGED <<pcp, VALOR_SEM, colas_semaforos>>
    BY <1>2, PasaA DEF Cpu343HayEspera, bloqueados
  <2>2. MutexConDuenio' /\ \A j \in CPUs \ {k} : hilo'[j].pc # "341pcb"
    BY <2>1, ConElMutex DEF ConMutex
  <2> QED
    BY <2>1, <2>2 DEF Seniales, EsperaConCero, SinSenialPerdida
<1>3. CASE Cpu343Saca(k)
  <2>1. s \in Semaforos /\ mutex_config = k
    BY <1>3, SemaforoDelHilo DEF Cpu343Saca, Seniales, MutexConDuenio, ConMutex
  <2>2. /\ hilo'[k].pc = "343pone" /\ \A j \in CPUs \ {k} : hilo'[j] = hilo[j]
        /\ UNCHANGED <<pcp, VALOR_SEM, mutex_config>>
    BY <1>3 DEF Cpu343Saca, Tipos, TiposDeHilos, TipoHilos, EstadosHilo
  <2>3. MutexConDuenio' /\ \A j \in CPUs \ {k} : hilo'[j].pc # "341pcb"
    BY <2>1, <2>2, ConElMutex DEF ConMutex
  <2>4. /\ colas_semaforos'[s] = Resto(colas_semaforos[s])
        /\ \A t \in Semaforos \ {s} : colas_semaforos'[t] = colas_semaforos[t]
    BY <1>3, <2>1 DEF Cpu343Saca, Tipos, TiposDeHilos, TipoBloqueados
  <2>5. ~Vacia(colas_semaforos'[s]) => ~Vacia(colas_semaforos[s])
    BY <2>4 DEF Resto, Vacia
  <2>6. SinSenialPerdida'
    BY <2>1, <2>2, <2>4, <2>5 DEF Seniales, SinSenialPerdida
  <2> QED
    BY <2>2, <2>3, <2>6 DEF Seniales, EsperaConCero
<1>4. CASE Cpu343Pone(k)
  <2>1. mutex_config = k
    BY <1>4 DEF Cpu343Pone, Seniales, MutexConDuenio, ConMutex
  <2>2. /\ hilo'[k].pc = "recibe" /\ mutex_config' = NULO
        /\ \A j \in CPUs \ {k} : hilo'[j] = hilo[j]
        /\ UNCHANGED <<pcp, VALOR_SEM, colas_semaforos>>
    BY <1>4, Suelta DEF Cpu343Pone, bloqueados
  <2>3. MutexConDuenio' /\ \A j \in CPUs \ {k} : hilo'[j].pc # "341pcb"
    BY <2>1, <2>2, ConstantesNucleo, ConElMutex DEF ConMutex
  <2> QED
    BY <2>2, <2>3 DEF Seniales, EsperaConCero, SinSenialPerdida
<1> QED
  BY <1>1, <1>2, <1>3, <1>4

\* The rest of the steps that hold the mutex touch no semaphore.
LEMMA ConMutexSeniales ==
  ASSUME Tipos, Seniales, NEW k \in CPUs, UNCHANGED recarga,
         Cpu380Mira(k) \/ Cpu380Encola(k) \/ CpuLibera(k)
  PROVE  Seniales'
<1>1. UNCHANGED <<pcp, VALOR_SEM, colas_semaforos>>
  BY DEF Cpu380Mira, Cpu380Encola, CpuLibera, bloqueados
<1>2. CASE Cpu380Mira(k)
  <2>1. PICK pc \in {"380vacia", "380ocupada"} : CpuPasaA(k, pc)
    BY <1>2 DEF Cpu380Mira
  <2>2. mutex_config = NULO /\ mutex_config' = k
    BY <1>2 DEF Cpu380Mira
  <2>3. hilo'[k].pc \in {"380vacia", "380ocupada"} /\ \A j \in CPUs \ {k} : hilo'[j] = hilo[j]
    BY <2>1, PasaA
  <2>4. MutexConDuenio' /\ \A j \in CPUs \ {k} : hilo'[j].pc # "341pcb"
    BY <1>1, <2>2, <2>3, ConElMutex DEF ConMutex
  <2> QED
    BY <1>1, <2>3, <2>4 DEF Seniales, EsperaConCero, SinSenialPerdida
<1>3. CASE Cpu380Encola(k)
  <2>1. mutex_config = k /\ mutex_config' = NULO
    BY <1>3 DEF Cpu380Encola, Seniales, MutexConDuenio, ConMutex
  <2>2. hilo'[k].pc = "libera" /\ \A j \in CPUs \ {k} : hilo'[j] = hilo[j]
    BY <1>3, Suelta DEF Cpu380Encola
  <2>3. MutexConDuenio' /\ \A j \in CPUs \ {k} : hilo'[j].pc # "341pcb"
    BY <1>1, <2>1, <2>2, ConstantesNucleo, ConElMutex DEF ConMutex
  <2> QED
    BY <1>1, <2>2, <2>3 DEF Seniales, EsperaConCero, SinSenialPerdida
<1>4. CASE CpuLibera(k) /\ hilo[k].pc = "liberaYSuelta"
  <2>1. mutex_config = k /\ mutex_config' = NULO
    BY <1>4 DEF CpuLibera, Seniales, MutexConDuenio, ConMutex
  <2>2. hilo'[k].pc = "recibe" /\ \A j \in CPUs \ {k} : hilo'[j] = hilo[j]
    BY <1>4, PasaA DEF CpuLibera
  <2>3. MutexConDuenio' /\ \A j \in CPUs \ {k} : hilo'[j].pc # "341pcb"
    BY <1>1, <2>1, <2>2, ConstantesNucleo, ConElMutex DEF ConMutex
  <2> QED
    BY <1>1, <2>2, <2>3 DEF Seniales, EsperaConCero, SinSenialPerdida
<1>5. CASE CpuLibera(k) /\ hilo[k].pc = "libera"
  <2>1. mutex_config' = mutex_config
    BY <1>5 DEF CpuLibera
  <2>2. hilo'[k].pc = "recibe" /\ \A j \in CPUs \ {k} : hilo'[j] = hilo[j]
    BY <1>5, PasaA DEF CpuLibera
  <2> QED
    BY <1>1, <1>5, <2>1, <2>2, FueraDelMutex DEF ConMutex
<1> QED
  BY <1>2, <1>3, <1>4, <1>5 DEF CpuLibera

\* A reload changes the values with mutex_config held, and leaves the queues
\* empty.
LEMMA PrincipalSeniales ==
  ASSUME Tipos, Seniales, TipoPrincipal, Principal
  PROVE  Seniales'
<1> USE DEF TipoPrincipal
<1>1. CASE RecargaToma
  BY <1>1, ConstantesNucleo DEF RecargaToma, RecargaPasaA, Seniales, MutexConDuenio,
     EsperaConCero, SinSenialPerdida, ConMutex, bloqueados, hilos
<1>2. CASE RecargaCambia
  <2>1. mutex_config = MAIN
    BY <1>2 DEF RecargaCambia, Seniales, MutexConDuenio
  <2>2. \A k \in CPUs : hilo[k].pc # "341pcb"
    BY <2>1, ConstantesNucleo DEF Seniales, MutexConDuenio, ConMutex
  <2> QED
    BY <1>2, <2>2 DEF RecargaCambia, RecargaPasaA, Seniales, MutexConDuenio, EsperaConCero,
       SinSenialPerdida, Vacia, hilos
<1>3. CASE RecargaSuelta
  <2>1. mutex_config = MAIN
    BY <1>3 DEF RecargaSuelta, Seniales, MutexConDuenio
  <2> QED
    BY <1>3, <2>1, ConstantesNucleo DEF RecargaSuelta, RecargaPasaA, Seniales, MutexConDuenio,
       EsperaConCero, SinSenialPerdida, ConMutex, bloqueados, hilos
<1>4. CASE RecargaEmpieza \/ RecargaMira \/ \E h \in Manejadores : SenialVieja(h)
  <2>1. UNCHANGED <<mutex_config, pcp, hilo, VALOR_SEM, colas_semaforos>>
    BY <1>4 DEF RecargaEmpieza, RecargaMira, SenialVieja, Muere, bloqueados, hilos
  <2>2. recarga'.pc \in {"dentro", "cambiada"} <=> recarga.pc \in {"dentro", "cambiada"}
    BY <1>4 DEF RecargaEmpieza, RecargaMira, RecargaPasaA, SenialVieja
  <2> QED
    BY <2>1, <2>2 DEF Seniales, MutexConDuenio, EsperaConCero, SinSenialPerdida
<1> QED
  BY <1>1, <1>2, <1>3, <1>4 DEF Principal, Recarga

LEMMA NextSeniales == Tipos /\ Seniales /\ TipoPrincipal /\ [Next]_vars => Seniales'
<1> SUFFICES ASSUME Tipos, Seniales, TipoPrincipal, [Next]_vars PROVE Seniales'
  OBVIOUS
<1> DEFINE Ajenas == <<mutex_config, pcp, hilo, VALOR_SEM, colas_semaforos, recarga>>
<1>1. ASSUME UNCHANGED Ajenas PROVE Seniales'
  BY <1>1 DEF Seniales, MutexConDuenio, EsperaConCero, SinSenialPerdida
<1>2. CASE UNCHANGED vars
  BY <1>1, <1>2 DEF vars, bloqueados, hilos, principal
<1>3. CASE PLP /\ UNCHANGED recarga
  BY <1>1, <1>3 DEF PLP, bloqueados, hilos
<1>4. ASSUME NEW k \in CPUs, CpuConecta(k), UNCHANGED recarga PROVE Seniales'
  <2>1. hilo'[k].pc = "recibe" /\ \A j \in CPUs \ {k} : hilo'[j] = hilo[j]
    BY <1>4, PasaA DEF CpuConecta
  <2> QED
    BY <1>4, <2>1, FueraDelMutex DEF CpuConecta, ConMutex, bloqueados
<1>5. ASSUME NEW k \in CPUs, HiloCPU(k), UNCHANGED recarga PROVE Seniales'
  <2>1. CASE CpuSinProceso(k) \/ CpuPCBIlegible(k)
    BY <1>1, <1>5, <2>1 DEF CpuSinProceso, CpuPCBIlegible, Muere, bloqueados, hilos
  <2> QED
    BY <1>5, <2>1, SinMutexSeniales, WaitSeniales, SignalSeniales, ConMutexSeniales
       DEF HiloCPU
<1>6. ASSUME NEW k \in CPUs, Programa(k) \/ ProgramaSenial(k) \/ ProgramaCae(k),
             UNCHANGED recarga
      PROVE  Seniales'
  BY <1>1, <1>6 DEF Programa, ProgramaLlama, ProgramaPCB, ProgramaQuantum, ProgramaAborta,
     ProgramaFinaliza, TerminaRafaga, ProgramaSenial, ProgramaCae, ProgramaSigue, bloqueados,
     hilos
<1>7. ASSUME NEW h \in Manejadores, AnalizarIO(h), UNCHANGED recarga PROVE Seniales'
  BY <1>1, <1>7 DEF AnalizarIO, AtiendeIO, SenialNada, SenialSaca, SenialEntrega, SenialRearma,
     SenialPantalla, PantallaDibuja, Muere, bloqueados, hilos
<1>8. CASE Hilos /\ UNCHANGED recarga
  BY <1>3, <1>4, <1>5, <1>6, <1>7, <1>8, HiloPCPSeniales, HiloConsolaSeniales DEF Hilos
<1> QED
  BY <1>2, <1>8, PrincipalSeniales DEF Next, Sigue, principal

\* mutex_config protects the semaphores of the programs for any number of
\* consoles, CPUs and semaphores, and whatever fails: its owner is exactly the
\* thread that is between its lock and its unlock, main in a reload included.
THEOREM MutexConDuenioSiempre == Spec => []MutexConDuenio
<1>1. Seniales => MutexConDuenio
  BY DEF Seniales
<1> QED
  BY <1>1, InitTipos, NextTipos, InitPrincipal, NextPrincipal, InitSeniales, NextSeniales,
     PTL DEF Spec

\* No process sleeps on a semaphore that has units: the signal that was meant
\* for it is not lost while its PCB is on the way from the CPU.
THEOREM SinSenialPerdidaSiempre == Spec => []SinSenialPerdida
<1>1. Seniales => SinSenialPerdida
  BY DEF Seniales
<1> QED
  BY <1>1, InitTipos, NextTipos, InitPrincipal, NextPrincipal, InitSeniales, NextSeniales,
     PTL DEF Spec

=============================================================================
