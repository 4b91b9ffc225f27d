-------------------------- MODULE NucleoImplementa --------------------------
(* Theorems about Nucleo when nothing fails: no console closes before its    *)
(* program ends and no CPU program dies or gets a signal.  Each semaphore    *)
(* counts its queue, an idle CPU is one the PCP can find, and the scheduler  *)
(* implements Procesos.                                                      *)
EXTENDS NucleoRefina, NucleoProtocolo, FiniteSetTheorems

SinFallas == ConsolasQueCierran = {} /\ CPUsConSenial = {} /\ CPUsConInt = {} /\ CPUsQueCaen = {}

\* Nobody aborts a process and no program has been told to end.
Sanos ==
  /\ \A c \in Consolas : consola[c].pc \in {"espera103", "lee", "fin"} /\ ~t_proceso[c].abortado
  /\ \A k \in CPUs : cpu[k].estado # "muerta" /\ ~cpu[k].sigusr1 /\ ~hilo[k].flag
  /\ flag = 0

Tomados == IF pcp.pc = "toma" THEN 1 ELSE 0

Fichas ==
  /\ sem.ready + Tomados = Len(cola.ready)
  /\ sem.cpu + Tomados = Len(cola.CPU_libres)

\* A program that awaits a PCB is free, or its thread has the turn, or has yet
\* to read the report that ends the burst.
Espera(libre, h, b, c) ==
  c.estado = "espera303" /\ ~libre /\ h.pc \notin ConTurno =>
    \E i \in 1..Len(b) : b[i].op \in Entregas

Disponible(k) == Espera(Libre(k), hilo[k], buzon[k], cpu[k])

\* Nothing is sent to socket 0.
ConSocket ==
  /\ pcp.pc = "manda" => pcp.sock # NULO
  /\ \A x \in Consolas : Contains(cola.exec, x) => t_proceso[x].socket_CPU # NULO

INormal == Sanos /\ Fichas /\ ConSocket /\ \A k \in CPUs : Disponible(k)
-----------------------------------------------------------------------------
(* What a live program may have sent.                                        *)

LEMMA SinAvisos ==
  ASSUME NEW k, NEW libre, NEW suyos, NEW h, NEW b, NEW c, Acorde(k, libre, suyos, h, b, c),
         b \in Seq(Paquetes), c.estado \in EstadosCPU \ {"muerta"}
  PROVE  \A i \in 1..Len(b) : b[i].op \in Consultas \cup Entregas \cup {"340"}
<1>1. c.estado \in {"apagada", "ejecuta", "espera352"} =>
        \A i \in 1..Len(b) : b[i].op \in Consultas
  BY DEF Acorde, Conversa, SoloConsultas
<1>2. c.estado \in {"espera342", "bloqueada"} =>
        \A i \in 1..Len(b) : b[i].op \in Consultas \cup {"341", "380"}
  BY DEF Acorde, Conversa, Bloqueado, AlFinal
<1>3. c.estado = "espera303" =>
        \A i \in 1..Len(b) : b[i].op \in Consultas \cup {"304", "320", "370", "340", "380"}
  BY DEF Acorde, Conversa, Cierre
<1> QED
  BY <1>1, <1>2, <1>3 DEF EstadosCPU, Entregas

\* Every program is alive, so its thread never attends to its end.
LEMMA Viva ==
  ASSUME SinFallas, Tipos, IProtocolo, INormal, NEW k \in CPUs
  PROVE  /\ hilo[k].pc \notin Cayendo
         /\ buzon[k] \in Seq(Paquetes)
         /\ \A i \in 1..Len(buzon[k]) : buzon[k][i].op \in Consultas \cup Entregas \cup {"340"}
         /\ buzon[k] # <<>> => Head(buzon[k]).op \notin {"-1", "399"}
         /\ cpu[k].estado \in EstadosCPU \ {"muerta"} /\ ~cpu[k].programaAbortado
         /\ SeLibera(k)
<1>1. Acorde(k, Libre(k), Suyos(k), hilo[k], buzon[k], cpu[k])
  BY DEF IProtocolo, Acuerdo
<1>2. buzon[k] \in Seq(Paquetes) /\ cpu[k] \in EstadosPrograma
  BY DEF Tipos, TiposDeHilos, TipoProgramas
<1>3. cpu[k].estado \in EstadosCPU \ {"muerta"}
  BY <1>2 DEF INormal, Sanos, EstadosPrograma
<1>4. \A i \in 1..Len(buzon[k]) : buzon[k][i].op \in Consultas \cup Entregas \cup {"340"}
  BY <1>1, <1>2, <1>3, SinAvisos
<1>5. buzon[k] # <<>> => 1 \in 1..Len(buzon[k]) /\ Head(buzon[k]) = buzon[k][1]
  BY <1>2
<1>6. hilo[k].pc \notin Cayendo /\ ~cpu[k].programaAbortado
  BY <1>1, <1>3 DEF Acorde, Estado, SinFallas
<1>7. SeLibera(k)
  BY DEF SeLibera, INormal, Sanos
<1> QED
  BY <1>2, <1>3, <1>4, <1>5, <1>6, <1>7 DEF Consultas, Entregas
-----------------------------------------------------------------------------
(* One step.                                                                *)

\* A step that is about no CPU.
LEMMA PasoAjenoNormal ==
  ASSUME Tipos, INormal, UNCHANGED <<t_proceso, hilo, buzon, cpu, pcp, flag>>,
         cola'.exec = cola.exec, cola'.CPU_libres = cola.CPU_libres, sem'.cpu = sem.cpu,
         \/ sem'.ready = sem.ready /\ cola'.ready = cola.ready
         \/ \E p : sem'.ready = sem.ready + 1 /\ cola'.ready = Append(cola.ready, p),
         \A c \in Consolas : consola'[c].pc \in {"espera103", "lee", "fin"}
  PROVE  INormal'
<1>1. Sanos'
  BY DEF INormal, Sanos
<1>2. Fichas'
  <2> DEFINE n == Len(cola.ready)
             m == Len(cola'.ready)
             r == sem.ready
             s == sem'.ready
  <2>1. ASSUME NEW p PROVE Len(Append(cola.ready, p)) = n + 1
    BY AppendElementos DEF Tipos, TiposDeHilos, TipoColas, Colas
  <2>2. (s = r /\ m = n) \/ (s = r + 1 /\ m = n + 1)
    BY <2>1
  <2>3. r \in Nat /\ n \in Nat /\ Tomados \in Nat /\ r + Tomados = n
    BY DEF Tipos, TiposDeHilos, TipoColas, Colas, Contadores, Tomados, INormal, Fichas
  <2>4. Tomados' = Tomados
    BY DEF Tomados
  <2> HIDE DEF n, m, r, s
  <2>5. s + Tomados = m
    BY <2>2, <2>3
  <2>6. sem'.ready + Tomados = Len(cola'.ready)
    BY <2>5 DEF s, m
  <2> QED
    BY <2>4, <2>6 DEF INormal, Fichas
<1>3. ConSocket'
  BY DEF INormal, ConSocket
<1>4. \A k \in CPUs : Disponible(k)'
  BY DEF INormal, Disponible, Espera, Libre
<1> QED
  BY <1>1, <1>2, <1>3, <1>4 DEF INormal

\* A step of the thread of a CPU, or of its program.
LEMMA PasoDeUnaNormal ==
  ASSUME Tipos, INormal, NEW k \in CPUs, UNCHANGED <<consola, pcp, flag>>,
         \A x \in Consolas : t_proceso'[x].abortado = t_proceso[x].abortado,
         \A x \in Consolas : t_proceso'[x].socket_CPU = t_proceso[x].socket_CPU,
         \A j \in CPUs \ {k} : hilo'[j] = hilo[j] /\ buzon'[j] = buzon[j] /\ cpu'[j] = cpu[j],
         ~hilo'[k].flag, cpu'[k].estado # "muerta", ~cpu'[k].sigusr1,
         \A x \in Consolas : Contains(cola'.exec, x) =>
           Contains(cola.exec, x) \/ t_proceso[x].socket_CPU = k,
         Fichas',
         \A j \in CPUs \ {k} : Contains(cola'.CPU_libres, j) <=> Contains(cola.CPU_libres, j),
         Espera(Libre(k)', hilo'[k], buzon'[k], cpu'[k])
  PROVE  INormal'
<1>1. Sanos'
  BY DEF INormal, Sanos
<1>2. ConSocket'
  BY ConstantesNucleo DEF INormal, ConSocket
<1>3. ASSUME NEW j \in CPUs \ {k} PROVE Disponible(j)'
  BY DEF INormal, Disponible, Espera, Libre
<1>4. Disponible(k)'
  BY DEF Disponible
<1> QED
  BY <1>1, <1>2, <1>3, <1>4 DEF INormal

\* How the queues and the tokens change together.
LEMMA MismasFichas ==
  ASSUME Tipos, Fichas, UNCHANGED <<pcp, sem>>, cola'.ready = cola.ready,
         cola'.CPU_libres = cola.CPU_libres
  PROVE  Fichas'
  BY DEF Fichas, Tomados

LEMMA UnaEnReady ==
  ASSUME Tipos, Fichas, UNCHANGED pcp, NEW p, EncolaReady(p)
  PROVE  /\ Fichas' /\ cola'.exec = cola.exec /\ cola'.CPU_libres = cola.CPU_libres
         /\ sem'.ready = sem.ready + 1 /\ sem'.cpu = sem.cpu
         /\ cola'.ready = Append(cola.ready, p)
<1>1. /\ cola'.exec = cola.exec /\ cola'.CPU_libres = cola.CPU_libres
      /\ sem'.ready = sem.ready + 1 /\ sem'.cpu = sem.cpu
      /\ cola'.ready = Append(cola.ready, p)
  BY DEF EncolaReady, Tipos, TiposDeHilos, TipoColas, Colas, Contadores
<1>2. Len(cola'.ready) = Len(cola.ready) + 1
  BY <1>1, AppendElementos DEF Tipos, TiposDeHilos, TipoColas, Colas
<1>3. sem.ready \in Nat /\ Tomados \in Nat /\ Len(cola.ready) \in Nat
  BY DEF Tipos, TiposDeHilos, TipoColas, Colas, Contadores, Tomados
<1>4. Tomados' = Tomados
  BY DEF Tomados
<1>5. sem'.ready + Tomados = Len(cola'.ready)
  BY <1>1, <1>2, <1>3 DEF Fichas
<1> QED
  BY <1>1, <1>4, <1>5 DEF Fichas

LEMMA UnaLibre ==
  ASSUME Tipos, Fichas, UNCHANGED pcp, NEW k, LiberaCPU(k)
  PROVE  /\ Fichas' /\ cola'.exec = cola.exec
         /\ cola'.CPU_libres = Append(cola.CPU_libres, k)
<1>1. /\ cola'.exec = cola.exec /\ cola'.ready = cola.ready
      /\ sem'.cpu = sem.cpu + 1 /\ sem'.ready = sem.ready
      /\ cola'.CPU_libres = Append(cola.CPU_libres, k)
  BY DEF LiberaCPU, Tipos, TiposDeHilos, TipoColas, Colas, Contadores
<1>2. Len(cola'.CPU_libres) = Len(cola.CPU_libres) + 1
  BY <1>1, AppendElementos DEF Tipos, TiposDeHilos, TipoColas, Colas
<1>3. sem.cpu \in Nat /\ Tomados \in Nat /\ Len(cola.CPU_libres) \in Nat
  BY DEF Tipos, TiposDeHilos, TipoColas, Colas, Contadores, Tomados
<1>4. Tomados' = Tomados
  BY DEF Tomados
<1>5. sem'.cpu + Tomados = Len(cola'.CPU_libres)
  BY <1>1, <1>2, <1>3 DEF Fichas
<1> QED
  BY <1>1, <1>4, <1>5 DEF Fichas
-----------------------------------------------------------------------------
(* The threads that are about no CPU, and the dispatcher.                    *)

LEMMA MuereNormal ==
  ASSUME Tipos, INormal, NEW como, Muere(como)
  PROVE  INormal'
  BY PasoAjenoNormal DEF Muere, bloqueados, hilos, programas, INormal, Sanos

\* A console only loads its program, and reads the end of it.
LEMMA ConsolaHace ==
  ASSUME SinFallas, Tipos, INormal, NEW c \in Consolas, HiloConsola(c)
  PROVE  ConCargaOk(c) \/ ConCargaFalla(c) \/ (ConDesconecta(c) /\ Contains(cola.exit, c))
  BY DEF HiloConsola, ConDesconecta, ConBuscaNulo, ConSacaReady, ConSubeFlag, ConNoEstaEnReady,
     ConBuscaExec, ConMarca, ConSacaSemaforo, ConSiguienteSemaforo, ConMiraIO, ConMarcaIO,
     ConArmaIO, ConSacaIO, ConTermina,
     INormal, Sanos, SinFallas

LEMMA HiloConsolaNormal ==
  ASSUME SinFallas, Tipos, INormal, NEW c \in Consolas, HiloConsola(c)
  PROVE  INormal'
<1>1. ConCargaOk(c) \/ ConCargaFalla(c) \/ (ConDesconecta(c) /\ Contains(cola.exit, c))
  BY ConsolaHace
<1>2. UNCHANGED <<t_proceso, hilo, buzon, cpu, pcp, flag>>
  BY <1>1 DEF ConCargaOk, ConCargaFalla, ConDesconecta, programas, bloqueados
<1>3. /\ cola'.exec = cola.exec /\ cola'.CPU_libres = cola.CPU_libres /\ cola'.ready = cola.ready
      /\ sem'.cpu = sem.cpu /\ sem'.ready = sem.ready
  BY <1>1 DEF ConCargaOk, ConCargaFalla, ConDesconecta, Tipos, TiposDeHilos, TipoColas, Colas,
     Contadores
<1>4. consola'[c].pc \in {"lee", "fin"} /\ \A x \in Consolas \ {c} : consola'[x] = consola[x]
  BY <1>1 DEF ConCargaOk, ConCargaFalla, ConDesconecta, ConPasaA, Tipos, TiposDeHilos, TipoHilos,
     EstadosConsola
<1>5. \A x \in Consolas : consola'[x].pc \in {"espera103", "lee", "fin"}
  BY <1>4 DEF INormal, Sanos
<1> QED
  BY <1>2, <1>3, <1>5, PasoAjenoNormal

LEMMA PLPNormal ==
  ASSUME Tipos, INormal, PLP
  PROVE  INormal'
<1>1. UNCHANGED <<t_proceso, hilo, buzon, cpu, pcp, flag, consola>>
  BY DEF PLP, bloqueados, hilos, programas
<1>2. /\ cola'.exec = cola.exec /\ cola'.CPU_libres = cola.CPU_libres
      /\ cola'.ready = Append(cola.ready, Head(cola.new))
      /\ sem'.cpu = sem.cpu /\ sem'.ready = sem.ready + 1
  BY DEF PLP, Tipos, TiposDeHilos, TipoColas, Colas, Contadores
<1> QED
  BY <1>1, <1>2, PasoAjenoNormal DEF INormal, Sanos

LEMMA AnalizarIONormal ==
  ASSUME Tipos, INormal, NEW h \in Manejadores, AnalizarIO(h)
  PROVE  INormal'
<1>1. CASE \E d \in IOs : SenialNada(h, d)
  BY <1>1, MuereNormal DEF SenialNada
<1>2. CASE (\E d \in IOs : SenialSaca(h, d)) \/ SenialRearma(h) \/ SenialPantalla(h)
           \/ PantallaDibuja(h)
  <2>1. UNCHANGED <<t_proceso, hilo, buzon, cpu, pcp, flag, consola, cola, sem>>
    BY <1>2 DEF SenialSaca, SenialRearma, SenialPantalla, PantallaDibuja, programas, bloqueados
  <2> QED
    BY <2>1, PasoAjenoNormal DEF INormal, Sanos
<1>3. CASE SenialEntrega(h)
  <2>1. UNCHANGED <<t_proceso, hilo, buzon, cpu, pcp, flag, consola>>
    BY <1>3 DEF SenialEntrega, programas, bloqueados
  <2>2. manejador[h].proceso \in Consolas
    BY <1>3 DEF SenialEntrega, Tipos, ManosDeOtros
  <2>3. EncolaReady(manejador[h].proceso)
    BY <1>3, <2>2 DEF SenialEntrega, INormal, Sanos
  <2> QED
    BY <2>1, <2>3, UnaEnReady, PasoAjenoNormal DEF INormal, Sanos
<1> QED
  BY <1>1, <1>2, <1>3 DEF AnalizarIO, AtiendeIO

LEMMA PrincipalNormal ==
  ASSUME Tipos, INormal, Principal
  PROVE  INormal'
<1>1. CASE Muere("segv")
  BY <1>1, MuereNormal
<1>2. CASE ~Muere("segv")
  <2>1. UNCHANGED <<t_proceso, hilo, buzon, cpu, pcp, flag, consola, cola, sem>>
    BY <1>2 DEF Principal, Recarga, RecargaEmpieza, RecargaMira, RecargaToma, RecargaCambia,
       RecargaSuelta, SenialVieja, programas, hilos, bloqueados
  <2> QED
    BY <2>1, PasoAjenoNormal DEF INormal, Sanos
<1> QED
  BY <1>1, <1>2

\* The dispatcher takes both tokens, so it finds both elements.
LEMMA PCPEsperaNormal ==
  ASSUME Tipos, INormal, PCPEspera
  PROVE  INormal'
<1>1. /\ UNCHANGED <<cola, t_proceso, hilo, consola, buzon, cpu>>
      /\ flag' = 0 /\ pcp.pc = "espera" /\ pcp'.pc = "toma" /\ pcp'.sock = pcp.sock
      /\ sem'.ready = sem.ready - 1 /\ sem'.cpu = sem.cpu - 1
      /\ sem.ready \in Nat /\ sem.cpu \in Nat
  BY DEF PCPEspera, programas, bloqueados, INormal, Sanos, Tipos, TiposDeHilos, TipoColas,
     Contadores, TipoHilos, EstadosPCP
<1>2. Sanos'
  BY <1>1 DEF INormal, Sanos
<1>3. Fichas'
  BY <1>1 DEF INormal, Fichas, Tomados
<1>4. ConSocket'
  BY <1>1 DEF INormal, ConSocket
<1>5. \A k \in CPUs : Disponible(k)'
  BY <1>1 DEF INormal, Disponible, Espera, Libre
<1> QED
  BY <1>2, <1>3, <1>4, <1>5 DEF INormal

LEMMA NoVacia ==
  ASSUME NEW S, NEW q \in Seq(S), NEW n \in Nat, n + 1 = Len(q)
  PROVE  /\ Saca(q) = Head(q) /\ Saca(q) \in S /\ Resto(q) = Tail(q) /\ q # <<>>
         /\ Len(Resto(q)) = n
<1>1. q # <<>>
  OBVIOUS
<1>2. Head(q) \in S /\ Len(Tail(q)) = Len(q) - 1
  BY <1>1
<1> QED
  BY <1>1, <1>2 DEF Saca, Resto, Vacia

LEMMA PCPTomaHace ==
  ASSUME Tipos, IProtocolo, INormal, PCPToma
  PROVE  /\ cola.CPU_libres \in Seq(CPUs) /\ cola.CPU_libres # <<>>
         /\ pcp'.sock = Head(cola.CPU_libres) /\ pcp'.sock \in CPUs /\ pcp'.sock # NULO
         /\ cola'.CPU_libres = Tail(cola.CPU_libres)
         /\ Len(cola'.CPU_libres) = sem.cpu /\ Len(cola'.ready) = sem.ready
         /\ cola'.exec = cola.exec /\ pcp'.pc = "manda"
<1>1. /\ cola'.exec = cola.exec /\ pcp'.pc = "manda" /\ pcp'.sock = Saca(cola.CPU_libres)
      /\ cola'.CPU_libres = Resto(cola.CPU_libres) /\ cola'.ready = Resto(cola.ready)
  BY DEF PCPToma, Tipos, TiposDeHilos, TipoColas, Colas
<1>2. /\ cola.CPU_libres \in Seq(CPUs) /\ cola.ready \in Seq(Consolas \cup {NULO})
      /\ sem.cpu \in Nat /\ sem.ready \in Nat
  BY DEF Tipos, TiposDeHilos, TipoColas, Colas, Contadores
<1>3. sem.ready + 1 = Len(cola.ready) /\ sem.cpu + 1 = Len(cola.CPU_libres)
  BY DEF PCPToma, INormal, Fichas, Tomados
<1>4. /\ Saca(cola.CPU_libres) = Head(cola.CPU_libres) /\ Saca(cola.CPU_libres) \in CPUs
      /\ Resto(cola.CPU_libres) = Tail(cola.CPU_libres) /\ cola.CPU_libres # <<>>
      /\ Len(Resto(cola.CPU_libres)) = sem.cpu
  BY <1>2, <1>3, NoVacia
<1>5. Len(Resto(cola.ready)) = sem.ready
  BY <1>2, <1>3, NoVacia
<1> QED
  BY <1>1, <1>2, <1>4, <1>5, ConstantesNucleo

\* The socket goes from the queue to the dispatcher: the CPU is as free as it was.
LEMMA PCPTomaLibre ==
  ASSUME Tipos, IProtocolo, INormal, PCPToma
  PROVE  \A k \in CPUs : Libre(k)' <=> Libre(k)
<1> DEFINE q == cola.CPU_libres
<1>1. /\ q \in Seq(CPUs) /\ q # <<>> /\ pcp'.sock = Head(q) /\ cola'.CPU_libres = Tail(q)
  BY PCPTomaHace
<1>2. SinRepetidos(q) /\ pcp.sock = NULO
  BY DEF IProtocolo, SinRepetir, PCPToma
<1>3. /\ Contains(q, Head(q))
      /\ \A x : Contains(Tail(q), x) <=> Contains(q, x) /\ x # Head(q)
  BY <1>1, <1>2, QuitaPrimero
<1> HIDE DEF q
<1>4. \A k \in CPUs : Libre(k) <=> Contains(q, k)
  BY <1>2, ConstantesNucleo DEF Libre, q
<1>5. \A k \in CPUs : Libre(k)' <=> Contains(Tail(q), k) \/ Head(q) = k
  BY <1>1 DEF Libre
<1> QED
  BY <1>3, <1>4, <1>5

LEMMA PCPTomaNormal ==
  ASSUME Tipos, IProtocolo, INormal, PCPToma
  PROVE  INormal'
<1>1. /\ UNCHANGED <<sem, flag, t_proceso, hilo, consola, buzon, cpu>>
      /\ pcp'.sock # NULO /\ pcp'.pc = "manda" /\ cola'.exec = cola.exec
      /\ Len(cola'.CPU_libres) = sem.cpu /\ Len(cola'.ready) = sem.ready
      /\ sem.ready \in Nat /\ sem.cpu \in Nat
  BY PCPTomaHace DEF PCPToma, programas, bloqueados, Tipos, TiposDeHilos, TipoColas, Contadores
<1>2. Sanos'
  BY <1>1 DEF INormal, Sanos
<1>3. Fichas'
  BY <1>1 DEF Fichas, Tomados
<1>4. ConSocket'
  BY <1>1 DEF INormal, ConSocket
<1>5. \A k \in CPUs : Disponible(k)'
  BY <1>1, PCPTomaLibre DEF INormal, Disponible, Espera
<1> QED
  BY <1>2, <1>3, <1>4, <1>5 DEF INormal

LEMMA MandarNormal ==
  ASSUME Tipos, ILugares, IProtocolo, INormal, MandarAEjecutar
  PROVE  INormal'
<1> DEFINE p == pcp.proceso
           s == pcp.sock
<1>1. p \in Consolas /\ cola.exec \in Seq(Consolas)
  BY UnoEnExec DEF MandarAEjecutar
<1>2. /\ UNCHANGED <<sem, flag, hilo, consola, buzon>>
      /\ cola'.exec = Append(cola.exec, p) /\ cola'.CPU_libres = cola.CPU_libres
      /\ cola'.ready = cola.ready
      /\ pcp'.sock = NULO /\ pcp'.pc = "espera" /\ pcp.pc = "manda"
      /\ \A x \in Consolas : t_proceso'[x].socket_CPU = IF x = p THEN s ELSE t_proceso[x].socket_CPU
      /\ \A x \in Consolas : t_proceso'[x].abortado = t_proceso[x].abortado
  BY <1>1 DEF MandarAEjecutar, Tipos, TiposDeHilos, TipoColas, Colas, TipoBloqueados, DatosDeProceso
<1>3. \A x : Contains(cola'.exec, x) <=> Contains(cola.exec, x) \/ x = p
  BY <1>1, <1>2, Pone
<1>4. \A k \in CPUs : cpu[k] \in EstadosPrograma
  BY DEF Tipos, TiposDeHilos, TipoProgramas
<1>5. \A k \in CPUs : cpu'[k] = IF k = s /\ cpu[k].estado = "espera303"
                                THEN [cpu[k] EXCEPT !.estado = "ejecuta", !.pcb = p] ELSE cpu[k]
  BY DEF MandarAEjecutar
<1> HIDE DEF p, s
<1>6. \A k \in CPUs :
        IF k = s /\ cpu[k].estado = "espera303"
          THEN cpu'[k].estado = "ejecuta" /\ cpu'[k].sigusr1 = cpu[k].sigusr1
          ELSE cpu'[k] = cpu[k]
  BY <1>4, <1>5 DEF EstadosPrograma
<1>7. Sanos'
  BY <1>2, <1>6 DEF INormal, Sanos
<1>8. Fichas'
  BY <1>2 DEF INormal, Fichas, Tomados
<1>9. ConSocket'
  BY <1>2, <1>3 DEF INormal, ConSocket, s
<1>10. ASSUME NEW k \in CPUs PROVE Disponible(k)'
  <2>1. k # s => (Libre(k)' <=> Libre(k))
    BY <1>2, ConstantesNucleo DEF Libre, s
  <2> QED
    BY <1>2, <1>6, <2>1 DEF INormal, Disponible, Espera
<1> QED
  BY <1>7, <1>8, <1>9, <1>10 DEF INormal

LEMMA HiloPCPNormal ==
  ASSUME Tipos, ILugares, IProtocolo, INormal, HiloPCP
  PROVE  INormal'
  BY PCPEsperaNormal, PCPTomaNormal, MandarNormal, MuereNormal DEF HiloPCP, PCPTomaNada
-----------------------------------------------------------------------------
(* hilo_CONEXION_CPU.                                                       *)

\* The steps that leave the CPU, its socket and cola_CPU_libres as they are.
LEMMA AvanzaNormal ==
  ASSUME SinFallas, Tipos, IProtocolo, INormal, NEW k \in CPUs,
         \/ Cpu304(k) \/ Cpu320Y370(k) \/ Cpu343Suma(k) \/ Cpu343HayEspera(k) \/ Cpu343Saca(k)
         \/ Cpu343Pone(k) \/ Cpu380Encola(k)
  PROVE  INormal'
<1>1. UNCHANGED <<pcp, buzon, cpu, consola, flag>>
  BY DEF Cpu304, Cpu320Y370, Cpu343Suma, Cpu343HayEspera, Cpu343Saca, Cpu343Pone, Cpu380Encola,
     programas
<1>2. /\ \A x \in Consolas : t_proceso'[x].abortado = t_proceso[x].abortado
      /\ \A x \in Consolas : t_proceso'[x].socket_CPU = t_proceso[x].socket_CPU
  <2>1. CASE Cpu380Encola(k)
    <3>1. hilo[k].proceso \in Consolas
      BY <2>1 DEF Cpu380Encola, Tipos, ManosDeHilos, ConProceso
    <3>2. PICK u : t_proceso' = [t_proceso EXCEPT ![hilo[k].proceso].unidades = u]
      BY <2>1 DEF Cpu380Encola
    <3> QED
      BY <3>1, <3>2 DEF Tipos, TiposDeHilos, TipoBloqueados, DatosDeProceso
  <2>2. CASE ~Cpu380Encola(k)
    BY <2>2 DEF Cpu304, Cpu320Y370, Cpu343Suma, Cpu343HayEspera, Cpu343Saca, Cpu343Pone, bloqueados
  <2> QED
    BY <2>1, <2>2
<1>3. Fichas' /\ cola'.exec = cola.exec /\ cola'.CPU_libres = cola.CPU_libres
  <2>1. CASE Cpu304(k) \/ Cpu343Pone(k)
    <3>1. CASE Cpu304(k)
      <4>1. hilo[k].proceso \in Consolas
        BY <3>1 DEF Cpu304, Tipos, ManosDeHilos, ConProceso
      <4>2. EncolaReady(hilo[k].proceso)
        BY <3>1, <4>1 DEF Cpu304, INormal, Sanos
      <4> QED
        BY <1>1, <4>2, UnaEnReady DEF INormal
    <3>2. CASE Cpu343Pone(k)
      BY <1>1, <3>2, UnaEnReady DEF Cpu343Pone, INormal
    <3> QED
      BY <2>1, <3>1, <3>2
  <2>2. CASE ~(Cpu304(k) \/ Cpu343Pone(k))
    <3>1. /\ sem' = sem /\ cola'.ready = cola.ready /\ cola'.exec = cola.exec
          /\ cola'.CPU_libres = cola.CPU_libres
      BY <2>2 DEF Cpu320Y370, Cpu343Suma, Cpu343HayEspera, Cpu343Saca, Cpu380Encola,
         Tipos, TiposDeHilos, TipoColas, Colas
    <3> QED
      BY <1>1, <3>1, MismasFichas DEF INormal
  <2> QED
    BY <2>1, <2>2
<1>4. /\ \A j \in CPUs \ {k} : hilo'[j] = hilo[j]
      /\ hilo'[k].flag = hilo[k].flag
      /\ hilo'[k].pc \notin ConTurno => hilo[k].pc \notin ConTurno
  <2> DEFINE Va(pc) == \/ hilo' = [hilo EXCEPT ![k].pc = pc]
                       \/ \E x : hilo' = [hilo EXCEPT ![k].pc = pc, ![k].proceso = x]
  <2>1. ASSUME NEW pc, Va(pc)
        PROVE  /\ \A j \in CPUs \ {k} : hilo'[j] = hilo[j]
               /\ hilo'[k].flag = hilo[k].flag /\ hilo'[k].pc = pc
    BY <2>1 DEF Tipos, TiposDeHilos, TipoHilos, EstadosHilo
  <2>2. \/ hilo[k].pc = "304" /\ Va("libera")
        \/ hilo[k].pc \in {"320", "370"} /\ Va("terminado")
        \/ hilo[k].pc = "343" /\ (Va("recibe") \/ Va("343saca"))
        \/ hilo[k].pc = "343saca" /\ Va("343pone")
        \/ hilo[k].pc = "343pone" /\ Va("recibe")
        \/ hilo[k].pc \in {"380vacia", "380ocupada"} /\ Va("libera")
    BY DEF Cpu304, Cpu320Y370, Cpu343Suma, Cpu343HayEspera, Cpu343Saca, Cpu343Pone, Cpu380Encola,
       CpuPasaA, CpuSuelta
  <2> HIDE DEF Va
  <2> QED
    BY <2>1, <2>2 DEF ConTurno
<1>5. Espera(Libre(k)', hilo'[k], buzon'[k], cpu'[k])
  BY <1>1, <1>3, <1>4 DEF INormal, Disponible, Espera, Libre
<1> QED
  BY <1>1, <1>2, <1>3, <1>4, <1>5, PasoDeUnaNormal DEF INormal, Sanos

\* The thread keeps, or takes, the turn.
LEMMA TomaNormal ==
  ASSUME SinFallas, Tipos, ILugares, IProtocolo, INormal, NEW k \in CPUs,
         CpuTomaProceso(k) \/ Cpu341Bloquea(k) \/ Cpu341PCB(k) \/ Cpu380Mira(k)
  PROVE  INormal'
<1>1. UNCHANGED <<pcp, consola, flag, sem, t_proceso>>
  BY DEF CpuTomaProceso, Cpu341Bloquea, Cpu341PCB, Cpu380Mira, bloqueados
<1>2. cola'.ready = cola.ready /\ cola'.CPU_libres = cola.CPU_libres
  BY DEF CpuTomaProceso, Cpu341Bloquea, Cpu341PCB, Cpu380Mira, Abortar, Tipos, TiposDeHilos,
     TipoColas, Colas
<1>3. \A x \in Consolas : Contains(cola'.exec, x) => Contains(cola.exec, x)
  <2>1. CASE CpuTomaProceso(k)
    <3>1. PICK i \in DOMAIN cola.exec :
            EsSuProceso(k, i) /\ cola' = [cola EXCEPT !.exec = RemoveAt(@, i)]
      BY <2>1 DEF CpuTomaProceso
    <3>2. cola'.exec = RemoveAt(cola.exec, i)
      BY <3>1 DEF Tipos, TiposDeHilos, TipoColas, Colas
    <3> QED
      BY <3>1, <3>2, Dame
  <2>2. CASE ~CpuTomaProceso(k)
    <3>1. cola'.exec = cola.exec
      BY <2>2 DEF Cpu341Bloquea, Cpu341PCB, Cpu380Mira, Abortar, Tipos, TiposDeHilos, TipoColas, Colas
    <3> QED
      BY <3>1
  <2> QED
    BY <2>1, <2>2
<1>4. \A j \in CPUs \ {k} : buzon'[j] = buzon[j]
  BY RecibeHace DEF CpuTomaProceso, Cpu341Bloquea, Cpu341PCB, Cpu380Mira
<1>5. /\ \A j \in CPUs \ {k} : cpu'[j] = cpu[j]
      /\ cpu'[k].sigusr1 = cpu[k].sigusr1
      /\ cpu'[k].estado = cpu[k].estado \/ cpu'[k].estado = "bloqueada"
  <2>1. CASE Cpu341Bloquea(k)
    BY <2>1, ContestaHace DEF Cpu341Bloquea
  <2>2. CASE ~Cpu341Bloquea(k)
    BY <2>2 DEF CpuTomaProceso, Cpu341PCB, Cpu380Mira
  <2> QED
    BY <2>1, <2>2
<1>6. /\ \A j \in CPUs \ {k} : hilo'[j] = hilo[j]
      /\ hilo'[k].flag = hilo[k].flag
      /\ hilo'[k].pc \in ConTurno
  <2>1. CASE CpuTomaProceso(k)
    <3>1. /\ \A j \in CPUs \ {k} : hilo'[j] = hilo[j]
          /\ hilo'[k].flag = hilo[k].flag /\ hilo'[k].pc = Head(buzon[k]).op
      BY <2>1 DEF CpuTomaProceso, Tipos, TiposDeHilos, TipoHilos, EstadosHilo
    <3> QED
      BY <2>1, <3>1 DEF CpuTomaProceso, Entregas, ConTurno
  <2>2. CASE Cpu341PCB(k)
    <3>1. hilo[k].proceso \in Consolas
      BY <2>2 DEF Cpu341PCB, Tipos, ManosDeHilos, ConProceso
    <3>2. CpuSuelta(k, "liberaYSuelta")
      BY <2>2, <3>1 DEF Cpu341PCB, INormal, Sanos
    <3> QED
      BY <3>2 DEF CpuSuelta, Tipos, TiposDeHilos, TipoHilos, EstadosHilo, ConTurno
  <2>3. CASE Cpu341Bloquea(k) \/ Cpu380Mira(k)
    <3>1. CpuPasaA(k, "341pcb") \/ CpuPasaA(k, "380vacia") \/ CpuPasaA(k, "380ocupada")
      BY <2>3 DEF Cpu341Bloquea, Cpu380Mira
    <3> QED
      BY <3>1 DEF CpuPasaA, Tipos, TiposDeHilos, TipoHilos, EstadosHilo, ConTurno
  <2> QED
    BY <2>1, <2>2, <2>3
<1>7. Fichas'
  BY <1>1, <1>2, MismasFichas DEF INormal
<1>8. Espera(Libre(k)', hilo'[k], buzon'[k], cpu'[k])
  BY <1>6 DEF Espera
<1> QED
  BY <1>1, <1>2, <1>3, <1>4, <1>5, <1>6, <1>7, <1>8, PasoDeUnaNormal DEF INormal, Sanos

\* A packet that does not end the burst leaves the one that does.
LEMMA QuedaEntrega ==
  ASSUME NEW b \in Seq(Paquetes), b # <<>>, Head(b).op \notin Entregas,
         \E i \in 1..Len(b) : b[i].op \in Entregas
  PROVE  \E i \in 1..Len(Tail(b)) : Tail(b)[i].op \in Entregas
<1> DEFINE t == Tail(b)
<1>1. /\ Len(b) \in Nat \ {0} /\ Len(t) = Len(b) - 1 /\ Head(b) = b[1]
      /\ \A i \in 1..Len(t) : i + 1 \in 1..Len(b) /\ t[i] = b[i + 1]
  BY ColaDe
<1> HIDE DEF t
<1>2. PICK i \in 1..Len(b) : b[i].op \in Entregas
  OBVIOUS
<1>3. i # 1
  BY <1>1, <1>2
<1>4. PICK j \in 1..Len(t) : j = i - 1
  BY <1>1, <1>3
<1>5. t[j] = b[i]
  BY <1>1, <1>4
<1> QED
  BY <1>2, <1>5 DEF t

\* A request that leaves the process where it is, and a PCB sent twice.
LEMMA LeeNormal ==
  ASSUME SinFallas, Tipos, ILugares, IProtocolo, INormal, NEW k \in CPUs,
         CpuTomaYDevuelve(k) \/ CpuAviso(k)
  PROVE  INormal'
<1>1. UNCHANGED <<pcp, consola, flag, sem, t_proceso, cpu>>
  BY DEF CpuTomaYDevuelve, CpuAviso, bloqueados
<1>2. /\ cola'.ready = cola.ready /\ cola'.CPU_libres = cola.CPU_libres
      /\ hilo[k].pc = "recibe"
  BY DEF CpuTomaYDevuelve, CpuAviso, Tipos, TiposDeHilos, TipoColas, Colas
<1>3. /\ Recibe(k) /\ buzon[k] # <<>>
      /\ Head(buzon[k]).op \in Consultas \/ (CpuAviso(k) /\ Head(buzon[k]).op = "340")
  BY Viva DEF CpuTomaYDevuelve, CpuAviso, Recibe
<1>4. Head(buzon[k]).op \notin Entregas \cup {"-1", "399"}
  BY <1>3 DEF Consultas, Entregas
<1>5. /\ buzon[k] \in Seq(Paquetes) /\ buzon'[k] = Tail(buzon[k])
      /\ \A j \in CPUs \ {k} : buzon'[j] = buzon[j]
  BY <1>3, <1>4, RecibeHace
<1>6. /\ \A j \in CPUs \ {k} : hilo'[j] = hilo[j]
      /\ hilo'[k].flag = hilo[k].flag
  <2>1. CASE CpuTomaYDevuelve(k)
    BY <2>1 DEF CpuTomaYDevuelve, Tipos, TiposDeHilos, TipoHilos, EstadosHilo
  <2>2. CASE CpuAviso(k)
    <3>1. hilo[k] \in EstadosHilo /\ hilo \in [CPUs -> EstadosHilo]
      BY DEF Tipos, TiposDeHilos, TipoHilos
    <3>2. hilo' = [hilo EXCEPT ![k].flag = hilo[k].flag \/ Head(buzon[k]).op = "399"]
      BY <2>2 DEF CpuAviso
    <3>3. \A j \in CPUs \ {k} : hilo'[j] = hilo[j]
      BY <3>1, <3>2
    <3>4. hilo'[k].flag = (hilo[k].flag \/ Head(buzon[k]).op = "399")
      BY <3>1, <3>2 DEF EstadosHilo
    <3>5. hilo[k].flag \in BOOLEAN
      BY <3>1 DEF EstadosHilo
    <3> QED
      BY <1>4, <3>3, <3>4, <3>5
  <2> QED
    BY <2>1, <2>2
<1>7. \A x \in Consolas : Contains(cola'.exec, x) =>
        Contains(cola.exec, x) \/ t_proceso[x].socket_CPU = k
  <2>1. CASE CpuTomaYDevuelve(k)
    <3>1. PICK i \in DOMAIN cola.exec :
            /\ EsSuProceso(k, i)
            /\ cola' = [cola EXCEPT !.exec = Append(RemoveAt(@, i), cola.exec[i])]
      BY <2>1 DEF CpuTomaYDevuelve
    <3> DEFINE y == cola.exec[i]
               r == RemoveAt(cola.exec, i)
    <3>2. /\ y \in Consolas /\ t_proceso[y].socket_CPU = k /\ r \in Seq(Consolas)
          /\ \A x : Contains(r, x) <=> Contains(cola.exec, x) /\ x # y
      BY <3>1, Dame
    <3>3. cola'.exec = Append(r, y)
      BY <3>1 DEF Tipos, TiposDeHilos, TipoColas, Colas
    <3> HIDE DEF y, r
    <3>4. \A x : Contains(Append(r, y), x) <=> Contains(r, x) \/ x = y
      BY <3>2, Pone
    <3> QED
      BY <3>2, <3>3, <3>4
  <2>2. CASE CpuAviso(k)
    BY <2>2 DEF CpuAviso
  <2> QED
    BY <2>1, <2>2
<1>8. Fichas'
  BY <1>1, <1>2, MismasFichas DEF INormal
<1>9. Espera(Libre(k)', hilo'[k], buzon'[k], cpu'[k])
  <2>1. Espera(Libre(k), hilo[k], buzon[k], cpu[k]) /\ hilo[k].pc \notin ConTurno
    BY <1>2 DEF INormal, Disponible, ConTurno
  <2>2. (\E i \in 1..Len(buzon[k]) : buzon[k][i].op \in Entregas) =>
          \E i \in 1..Len(buzon'[k]) : buzon'[k][i].op \in Entregas
    BY <1>3, <1>4, <1>5, QuedaEntrega
  <2> QED
    BY <1>1, <1>2, <2>1, <2>2 DEF Espera, Libre
<1> QED
  BY <1>1, <1>2, <1>5, <1>6, <1>7, <1>8, <1>9, PasoDeUnaNormal DEF INormal, Sanos

\* The program gets an answer and goes on.
LEMMA ContestaNormal ==
  ASSUME SinFallas, Tipos, ILugares, IProtocolo, INormal, NEW k \in CPUs,
         Cpu341Concede(k) \/ Cpu350Y351(k)
  PROVE  INormal'
<1>1. UNCHANGED <<pcp, consola, flag, sem, t_proceso, buzon>>
  BY DEF Cpu341Concede, Cpu350Y351, bloqueados
<1>2. /\ cola'.ready = cola.ready /\ cola'.CPU_libres = cola.CPU_libres
      /\ hilo[k].pc \in {"341", "350", "351"}
  BY DEF Cpu341Concede, Cpu350Y351, Tipos, TiposDeHilos, TipoColas, Colas
<1>3. /\ \A j \in CPUs \ {k} : hilo'[j] = hilo[j]
      /\ hilo'[k].flag = hilo[k].flag
  BY DEF Cpu341Concede, Cpu350Y351, CpuPasaA, CpuSuelta, Tipos, TiposDeHilos, TipoHilos, EstadosHilo
<1>4. /\ \A j \in CPUs \ {k} : cpu'[j] = cpu[j]
      /\ cpu'[k].sigusr1 = cpu[k].sigusr1
      /\ cpu'[k].estado = cpu[k].estado \/ cpu'[k].estado = "ejecuta"
  <2>1. (\E e : Contesta(k, e, "ejecuta")) \/ cpu' = cpu
    BY DEF Cpu341Concede, Cpu350Y351
  <2>2. ASSUME NEW e, Contesta(k, e, "ejecuta")
        PROVE  /\ \A j \in CPUs \ {k} : cpu'[j] = cpu[j]
               /\ cpu'[k].sigusr1 = cpu[k].sigusr1
               /\ cpu'[k].estado = cpu[k].estado \/ cpu'[k].estado = "ejecuta"
    BY <2>2, ContestaHace
  <2> QED
    BY <2>1, <2>2
<1>5. \A x \in Consolas : Contains(cola'.exec, x) =>
        Contains(cola.exec, x) \/ t_proceso[x].socket_CPU = k
  <2>1. CASE Cpu341Concede(k)
    <3> DEFINE p == hilo[k].proceso
    <3>1. t_proceso[p].socket_CPU = k
      BY <2>1 DEF Cpu341Concede, IProtocolo, SusSockets, Pendientes
    <3>2. cola'.exec = Append(cola.exec, p) /\ cola.exec \in Seq(Consolas)
      BY <2>1 DEF Cpu341Concede, Tipos, TiposDeHilos, TipoColas, Colas
    <3> HIDE DEF p
    <3>3. \A x : Contains(Append(cola.exec, p), x) <=> Contains(cola.exec, x) \/ x = p
      BY <3>2, Pone
    <3> QED
      BY <3>1, <3>2, <3>3
  <2>2. CASE Cpu350Y351(k)
    BY <2>2 DEF Cpu350Y351
  <2> QED
    BY <2>1, <2>2
<1>6. Fichas'
  BY <1>1, <1>2, MismasFichas DEF INormal
<1>7. Espera(Libre(k)', hilo'[k], buzon'[k], cpu'[k])
  <2>1. Espera(Libre(k), hilo[k], buzon[k], cpu[k])
    BY DEF INormal, Disponible
  <2>2. hilo[k].pc = "341" => cpu[k].estado # "espera303"
    BY DEF IProtocolo, Acuerdo, Acorde, Conversa
  <2>3. hilo[k].pc \in ConTurno => hilo[k].pc = "341"
    BY <1>2 DEF ConTurno
  <2> QED
    BY <1>1, <1>2, <1>4, <2>1, <2>2, <2>3 DEF Espera, Libre
<1> QED
  BY <1>1, <1>2, <1>3, <1>4, <1>5, <1>6, <1>7, PasoDeUnaNormal DEF INormal, Sanos

\* The CPU goes back to the queue.
LEMMA LiberaNormal ==
  ASSUME SinFallas, Tipos, ILugares, IProtocolo, INormal, NEW k \in CPUs,
         CpuConecta(k) \/ CpuLibera(k) \/ CpuTerminado(k)
  PROVE  INormal'
<1>1. UNCHANGED <<pcp, consola, flag, t_proceso, buzon>>
  BY DEF CpuConecta, CpuLibera, CpuTerminado, bloqueados, programas
<1>2. LiberaCPU(k)
  BY Viva DEF CpuConecta, CpuLibera, CpuTerminado
<1>3. /\ Fichas' /\ cola'.exec = cola.exec
      /\ cola'.CPU_libres = Append(cola.CPU_libres, k) /\ cola.CPU_libres \in Seq(CPUs)
  BY <1>1, <1>2, UnaLibre DEF INormal, Tipos, TiposDeHilos, TipoColas, Colas
<1>4. \A x : Contains(cola'.CPU_libres, x) <=> Contains(cola.CPU_libres, x) \/ x = k
  BY <1>3, Pone
<1>5. /\ \A j \in CPUs \ {k} : hilo'[j] = hilo[j]
      /\ hilo'[k].flag = hilo[k].flag
  BY DEF CpuConecta, CpuLibera, CpuTerminado, CpuPasaA, CpuSuelta, Tipos, TiposDeHilos, TipoHilos,
     EstadosHilo
<1>6. /\ \A j \in CPUs \ {k} : cpu'[j] = cpu[j]
      /\ cpu'[k].sigusr1 = cpu[k].sigusr1
      /\ cpu'[k].estado = cpu[k].estado \/ cpu'[k].estado = "espera303"
  BY DEF CpuConecta, CpuLibera, CpuTerminado, programas, Tipos, TiposDeHilos, TipoProgramas,
     EstadosPrograma
<1>7. Libre(k)'
  BY <1>4 DEF Libre
<1>8. Espera(Libre(k)', hilo'[k], buzon'[k], cpu'[k])
  BY <1>7 DEF Espera
<1> QED
  BY <1>1, <1>3, <1>4, <1>5, <1>6, <1>8, PasoDeUnaNormal DEF INormal, Sanos

LEMMA HiloCPUNormal ==
  ASSUME SinFallas, Tipos, ILugares, IProtocolo, INormal, NEW k \in CPUs,
         CpuConecta(k) \/ HiloCPU(k)
  PROVE  INormal'
<1>1. CASE CpuSinProceso(k) \/ CpuPCBIlegible(k)
  BY <1>1, MuereNormal DEF CpuSinProceso, CpuPCBIlegible
<1>2. CASE CpuCae(k) \/ CpuCaeAborta(k) \/ CpuCaeRecorre(k) \/ CpuCaeEspera(k) \/ Cpu380Aborta(k)
  <2>1. CASE Cpu380Aborta(k)
    <3>1. hilo[k].proceso \in Consolas
      BY <2>1 DEF Cpu380Aborta, Tipos, ManosDeHilos, ConProceso
    <3> QED
      BY <2>1, <3>1 DEF Cpu380Aborta, INormal, Sanos
  <2>2. CASE ~Cpu380Aborta(k)
    BY <1>2, <2>2, Viva DEF CpuCae, CpuCaeAborta, CpuCaeRecorre, CpuCaeEspera, Cayendo
  <2> QED
    BY <2>1, <2>2
<1> QED
  BY <1>1, <1>2, AvanzaNormal, TomaNormal, LeeNormal, ContestaNormal, LiberaNormal DEF HiloCPU
-----------------------------------------------------------------------------
(* The CPU programs.                                                         *)

\* A program that sends and does not await a PCB afterwards, or sends the report
\* that ends its burst.
LEMMA PasoDelProgramaNormal ==
  ASSUME Tipos, INormal, NEW k \in CPUs, ProgramaSigue,
         \A j \in CPUs \ {k} : buzon'[j] = buzon[j] /\ cpu'[j] = cpu[j],
         cpu'[k].estado # "muerta", ~cpu'[k].sigusr1,
         \/ cpu'[k].estado # "espera303"
         \/ hilo[k].pc \in ConTurno
         \/ \E i \in 1..Len(buzon'[k]) : buzon'[k][i].op \in Entregas
  PROVE  INormal'
<1>1. UNCHANGED <<consola, pcp, flag, t_proceso, hilo, cola, sem>>
  BY DEF ProgramaSigue, hilos, bloqueados
<1>2. Fichas'
  BY <1>1, MismasFichas DEF INormal
<1>3. Espera(Libre(k)', hilo'[k], buzon'[k], cpu'[k])
  BY <1>1 DEF Espera
<1> QED
  BY <1>1, <1>2, <1>3, PasoDeUnaNormal DEF INormal, Sanos

LEMMA LlamaNormal ==
  ASSUME SinFallas, Tipos, INormal, NEW k \in CPUs, NEW op \in Primitivas, ProgramaLlama(k, op)
  PROVE  INormal'
<1> DEFINE e == CASE op = "341" -> "espera342" [] op = "351" -> "espera352"
                  [] op = "380" -> "bloqueada" [] OTHER -> "ejecuta"
<1>1. e \in {"ejecuta", "espera342", "espera352", "bloqueada"}
  OBVIOUS
<1>2. cpu' = [cpu EXCEPT ![k].estado = e] /\ ProgramaSigue
  BY DEF ProgramaLlama
<1> HIDE DEF e
<1>3. /\ cpu'[k].estado = e /\ cpu'[k].sigusr1 = cpu[k].sigusr1
      /\ \A j \in CPUs \ {k} : cpu'[j] = cpu[j]
  BY <1>2 DEF Tipos, TiposDeHilos, TipoProgramas, EstadosPrograma
<1>4. \A j \in CPUs \ {k} : buzon'[j] = buzon[j]
  BY EnviaHace DEF ProgramaLlama
<1> QED
  BY <1>1, <1>2, <1>3, <1>4, PasoDelProgramaNormal DEF INormal, Sanos

\* What a program sends at the end of its burst.
LEMMA UnAviso ==
  ASSUME SinFallas, Tipos, IProtocolo, INormal, NEW k \in CPUs, Programa(k),
         ~ \E op \in Primitivas : ProgramaLlama(k, op)
  PROVE  \E op \in {"304", "320", "340", "370"} :
           /\ \E ps : TerminaRafaga(k, ps)
           /\ buzon'[k] = buzon[k] \o <<Codigo(op)>>
           /\ cpu[k].estado = IF op = "340" THEN "bloqueada" ELSE "ejecuta"
<1>1. ~cpu[k].sigusr1 /\ ~cpu[k].programaAbortado
  BY Viva DEF INormal, Sanos
<1>2. ASSUME NEW op PROVE ConAviso(k, op) = <<Codigo(op)>>
  <2> DEFINE m == Codigo(op)
  <2> HIDE DEF m
  <2>1. <<m>> \in Seq({m})
    OBVIOUS
  <2>2. <<>> \o <<m>> = <<m>>
    BY <2>1, ConcatEmptySeq
  <2> QED
    BY <1>1, <2>2 DEF ConAviso, m
<1>3. ASSUME NEW m PROVE <<m>> \o <<>> = <<m>>
  <2>1. <<m>> \in Seq({m})
    OBVIOUS
  <2> QED
    BY <2>1, ConcatEmptySeq
<1>4. ASSUME NEW op, NEW ps, ps = <<Codigo(op)>>, TerminaRafaga(k, ps)
      PROVE  buzon'[k] = buzon[k] \o <<Codigo(op)>>
  <2>1. Envia(k, ps \o <<>>)
    BY <1>1, <1>4 DEF TerminaRafaga
  <2>2. ps \o <<>> = ps
    BY <1>3, <1>4
  <2> QED
    BY <1>4, <2>1, <2>2, EnviaHace
<1>5. CASE ProgramaPCB(k)
  <2> DEFINE s == ConAviso(k, "340")
  <2>1. TerminaRafaga(k, s \o <<>>) /\ cpu[k].estado = "bloqueada"
    BY <1>1, <1>5 DEF ProgramaPCB
  <2>2. s \o <<>> = <<Codigo("340")>>
    BY <1>2, <1>3
  <2> HIDE DEF s
  <2> QED
    BY <1>4, <2>1, <2>2
<1>6. CASE ProgramaQuantum(k)
  BY <1>2, <1>4, <1>6 DEF ProgramaQuantum, Ejecuta
<1>7. CASE ProgramaAborta(k)
  BY <1>2, <1>4, <1>7 DEF ProgramaAborta, Ejecuta
<1>8. CASE ProgramaFinaliza(k)
  <2>1. TerminaRafaga(k, <<Codigo("320")>>) /\ cpu[k].estado = "ejecuta"
    BY <1>1, <1>8 DEF ProgramaFinaliza, Ejecuta
  <2> QED
    BY <1>4, <2>1
<1> QED
  BY <1>5, <1>6, <1>7, <1>8 DEF Programa

LEMMA ProgramaNormal ==
  ASSUME SinFallas, Tipos, IProtocolo, INormal, NEW k \in CPUs, Programa(k)
  PROVE  INormal'
<1>1. CASE \E op \in Primitivas : ProgramaLlama(k, op)
  BY <1>1, LlamaNormal
<1>2. CASE ~ \E op \in Primitivas : ProgramaLlama(k, op)
  <2>1. PICK op \in {"304", "320", "340", "370"} :
          /\ \E ps : TerminaRafaga(k, ps)
          /\ buzon'[k] = buzon[k] \o <<Codigo(op)>>
          /\ cpu[k].estado = IF op = "340" THEN "bloqueada" ELSE "ejecuta"
    BY <1>2, UnAviso
  <2>2. PICK ps : TerminaRafaga(k, ps)
    BY <2>1
  <2>3. ~cpu[k].sigusr1
    BY DEF INormal, Sanos
  <2>4. /\ cpu'[k].estado = "espera303" /\ ~cpu'[k].sigusr1
        /\ \A j \in CPUs \ {k} : cpu'[j] = cpu[j]
    BY <2>2, <2>3 DEF TerminaRafaga, Tipos, TiposDeHilos, TipoProgramas, EstadosPrograma
  <2>5. \A j \in CPUs \ {k} : buzon'[j] = buzon[j]
    BY <2>2, EnviaHace DEF TerminaRafaga
  <2> DEFINE m == Codigo(op)
             b == buzon[k]
             c == buzon'[k]
  <2>6. m.op = op /\ b \in Seq(Paquetes) /\ m \in Paquetes
    BY DEF Codigo, Paquete, Paquetes, Tipos, TiposDeHilos, TipoProgramas
  <2>7. c = b \o <<m>>
    BY <2>1
  <2> HIDE DEF m, b, c
  <2>8. /\ Len(b) \in Nat /\ Len(c) = Len(b) + 1 /\ c[Len(b) + 1] = m
        /\ \A i \in 1..Len(b) : c[i] = b[i]
    BY <2>6, <2>7
  <2>9. hilo[k].pc \in ConTurno \/ \E i \in 1..Len(c) : c[i].op \in Entregas
    <3>1. CASE op # "340"
      <4>1. c[Len(b) + 1].op \in Entregas /\ Len(b) + 1 \in 1..Len(c)
        BY <2>1, <2>6, <2>8, <3>1 DEF Entregas
      <4> QED
        BY <4>1
    <3>2. CASE op = "340"
      <4>1. Bloqueado(cpu[k].pcb, Suyos(k), hilo[k], b, "380", {"341pcb", "380"})
        BY <2>1, <3>2 DEF IProtocolo, Acuerdo, Acorde, Conversa, b
      <4>2. CASE hilo[k].pc \in {"341pcb", "380"}
        BY <4>2 DEF ConTurno
      <4>3. CASE b # <<>> /\ AlFinal(b, "380")
        <5>1. Len(b) \in 1..Len(b)
          BY <2>6, <4>3
        <5>2. c[Len(b)].op \in Entregas /\ Len(b) \in 1..Len(c)
          BY <2>8, <4>3, <5>1 DEF AlFinal, Entregas
        <5> QED
          BY <5>2
      <4> QED
        BY <4>1, <4>2, <4>3 DEF Bloqueado
    <3> QED
      BY <3>1, <3>2
  <2> QED
    BY <2>2, <2>4, <2>5, <2>9, PasoDelProgramaNormal DEF TerminaRafaga, c
<1> QED
  BY <1>1, <1>2

\* No program gets a signal, or dies.
LEMMA SinCaidas ==
  ASSUME SinFallas, Tipos, INormal, NEW k \in CPUs
  PROVE  ~ProgramaSenial(k) /\ ~ProgramaCae(k)
<1>1. ~ProgramaSenial(k)
  BY DEF SinFallas, ProgramaSenial
<1>2. ~ProgramaCae(k)
  BY DEF SinFallas, ProgramaCae, MuereAlAvisar, INormal, Sanos
<1> QED
  BY <1>1, <1>2
-----------------------------------------------------------------------------
LEMMA InitNormal == Init => INormal
<1> SUFFICES ASSUME Init PROVE INormal
  OBVIOUS
<1>1. Sanos
  BY DEF Init, Sanos
<1>2. Fichas
  BY DEF Init, Fichas, Tomados
<1>3. ConSocket
  BY DEF Init, ConSocket, Contains
<1>4. \A k \in CPUs : Disponible(k)
  BY DEF Init, Disponible, Espera
<1> QED
  BY <1>1, <1>2, <1>3, <1>4 DEF INormal

LEMMA NextNormal ==
  ASSUME SinFallas
  PROVE  Tipos /\ ILugares /\ IProtocolo /\ INormal /\ [Next]_vars => INormal'
<1> SUFFICES ASSUME Tipos, ILugares, IProtocolo, INormal, [Next]_vars PROVE INormal'
  OBVIOUS
<1>1. CASE UNCHANGED vars
  BY <1>1, PasoAjenoNormal DEF vars, hilos, programas, INormal, Sanos
<1>2. CASE Hilos
  <2>1. CASE PLP \/ HiloPCP
    BY <2>1, PLPNormal, HiloPCPNormal
  <2>2. CASE \E c \in Consolas : HiloConsola(c)
    BY <2>2, HiloConsolaNormal
  <2>3. ASSUME NEW k \in CPUs,
               CpuConecta(k) \/ HiloCPU(k) \/ Programa(k) \/ ProgramaSenial(k) \/ ProgramaCae(k)
        PROVE  INormal'
    BY <2>3, HiloCPUNormal, ProgramaNormal, SinCaidas
  <2>4. CASE \E h \in Manejadores : AnalizarIO(h)
    BY <2>4, AnalizarIONormal
  <2> QED
    BY <1>2, <2>1, <2>2, <2>3, <2>4 DEF Hilos
<1>3. CASE Principal
  BY <1>3, PrincipalNormal
<1> QED
  BY <1>1, <1>2, <1>3 DEF Next, Sigue

\* As long as nothing fails, the tokens, the sockets and the programs go together.
THEOREM INormalSiempre ==
  ASSUME SinFallas
  PROVE  Spec => []INormal
<1>1. Tipos /\ ILugares /\ IProtocolo /\ INormal /\ [Next]_vars => INormal'
  BY NextNormal
<1> QED
  BY <1>1, InitTipos, NextTipos, InitPrincipal, NextPrincipal, InitLugares, NextLugares,
     InitProtocolo, NextProtocolo, InitNormal, PTL DEF Spec

\* Each counting semaphore counts the elements of its queue, for any consoles,
\* CPUs, devices, system calls and reloads, as long as no console closes before
\* its program ends and no CPU program dies or gets a signal.
THEOREM TokensCoincidenSiempre ==
  ASSUME SinFallas
  PROVE  Spec => []TokensCoinciden
<1>1. Tipos /\ INormal => TokensCoinciden
  BY DEF Tipos, Admision, INormal, Fichas, Tomados, TokensCoinciden
<1> QED
  BY <1>1, InitTipos, NextTipos, INormalSiempre, PTL DEF Spec

\* A CPU program that awaits a PCB, with nothing left to be read from its socket,
\* is one the PCP can find: whatever report ended its burst, the thread returned
\* the CPU.
THEOREM CPUDisponibleSiempre ==
  ASSUME SinFallas
  PROVE  Spec => []CPUDisponible
<1>1. INormal => CPUDisponible
  <2> SUFFICES ASSUME INormal, NEW k \in CPUs, cpu[k].estado = "espera303", buzon[k] = <<>>,
                      hilo[k].pc = "recibe"
               PROVE  Contains(cola.CPU_libres, k) \/ pcp.sock = k
    BY DEF CPUDisponible
  <2>1. hilo[k].pc \notin ConTurno /\ ~ \E i \in 1..Len(buzon[k]) : buzon[k][i].op \in Entregas
    BY DEF ConTurno
  <2> QED
    BY <2>1 DEF INormal, Disponible, Espera, Libre
<1> QED
  BY <1>1, INormalSiempre, PTL
-----------------------------------------------------------------------------
(* What a place says of the state of a process.                              *)

SitioBien(p) ==
  /\ ~consola[p].cargada => EstadoDe(p) = "ninguno"
  /\ Contains(cola.new, p) => EstadoDe(p) = "new"
  /\ Contains(cola.exit, p) => EstadoDe(p) = "exit"
  /\ Contains(cola.ready, p) \/ pcp.proceso = p => EstadoDe(p) = "ready"
  /\ Contains(cola.exec, p) => EstadoDe(p) = "exec"
  /\ \A k \in CPUs : hilo[k].proceso = p =>
       /\ hilo[k].pc \notin {"343pone", "terminado"} => EstadoDe(p) = "exec"
       /\ hilo[k].pc = "343pone" => EstadoDe(p) = "block"
       /\ hilo[k].pc = "terminado" => EstadoDe(p) = "exit" /\ Contains(cola.exit, p)
  /\ \A s \in Semaforos : Contains(colas_semaforos[s], p) => EstadoDe(p) = "block"
  /\ \A d \in IOs : Contains(colas_ios[d], p) => EstadoDe(p) = "block"
  /\ \A h \in Manejadores : manejador[h].proceso = p => EstadoDe(p) = "block"

SitiosBien == \A p \in Consolas : SitioBien(p)

LEMMA Sitios == Tipos /\ ILugares => SitiosBien
<1> SUFFICES ASSUME Tipos, ILugares, NEW p \in Consolas PROVE SitioBien(p)
  BY DEF SitiosBien
<1>1. PICK donde \in [Consolas -> Casas] : LugaresBien(donde)
  BY DEF ILugares
<1> DEFINE d == donde[p]
           m == EnManosDeCPU(p, PCsHilo \ {"343pone", "terminado"})
<1>2. /\ Contains(cola.new, p) <=> d = <<"new", 0>>
      /\ Contains(cola.exit, p) <=> d = <<"exit", 0>>
      /\ Contains(cola.ready, p) <=> d = <<"ready", 0>>
      /\ Contains(cola.exec, p) <=> d = <<"exec", 0>>
      /\ pcp.proceso = p <=> d = <<"PCP", 0>>
      /\ consola[p].pc = "flag" <=> d = <<"consola", 0>>
      /\ ~consola[p].cargada => d = <<"ninguna", 0>>
  BY <1>1 DEF LugaresBien, EnColas, Nombres, Vive, EnPCP, EnConsolas, Cargas, Ninguna
<1>3. \A k \in CPUs : hilo[k].proceso = p /\ hilo[k].pc # "terminado" <=> d = <<"CPU", k>>
  BY <1>1 DEF LugaresBien, EnCPUs, EnCPU
<1>4. m <=> \E k \in CPUs : d = <<"CPU", k>> /\ hilo[k].pc # "343pone"
  <2>1. \A k \in CPUs : hilo[k].pc \in PCsHilo
    BY DEF Tipos, TiposDeHilos, TipoHilos, EstadosHilo
  <2> QED
    BY <1>3, <2>1 DEF EnManosDeCPU
<1>5. /\ \A s \in Semaforos : Contains(colas_semaforos[s], p) => d = <<"semaforo", s>>
      /\ \A i \in IOs : Contains(colas_ios[i], p) => d = <<"io", i>>
      /\ \A h \in Manejadores : manejador[h].proceso = p => d = <<"SIGRTMIN", h>>
  BY <1>1 DEF LugaresBien, EnSemaforos, EnIOs, Vive, EnManejadores, EnManejador
<1>6. \A k \in CPUs : hilo[k].proceso = p /\ hilo[k].pc = "terminado" => d = <<"exit", 0>>
  BY <1>1 DEF LugaresBien, Finales, Salida
<1>7. EstadoDe(p) = CASE ~consola[p].cargada -> "ninguno"
                      [] Contains(cola.new, p) -> "new"
                      [] Contains(cola.exit, p) -> "exit"
                      [] Contains(cola.ready, p) \/ pcp.proceso = p \/ consola[p].pc = "flag" -> "ready"
                      [] Contains(cola.exec, p) \/ m -> "exec"
                      [] OTHER -> "block"
  BY DEF EstadoDe
<1> HIDE DEF d, m
<1>8. /\ ~consola[p].cargada => EstadoDe(p) = "ninguno"
      /\ d = <<"new", 0>> => EstadoDe(p) = "new"
      /\ d = <<"exit", 0>> => EstadoDe(p) = "exit"
      /\ d = <<"ready", 0>> \/ d = <<"PCP", 0>> => EstadoDe(p) = "ready"
      /\ d = <<"exec", 0>> => EstadoDe(p) = "exec"
  BY <1>2, <1>4, <1>7
<1>9. ASSUME NEW k \in CPUs, d = <<"CPU", k>>
      PROVE  EstadoDe(p) = IF hilo[k].pc # "343pone" THEN "exec" ELSE "block"
  BY <1>2, <1>4, <1>7, <1>9
<1>10. ASSUME NEW x, d = <<"semaforo", x>> \/ d = <<"io", x>> \/ d = <<"SIGRTMIN", x>>
       PROVE  EstadoDe(p) = "block"
  BY <1>2, <1>4, <1>7, <1>10
<1> QED
  BY <1>2, <1>3, <1>5, <1>6, <1>8, <1>9, <1>10 DEF SitioBien

\* A process that is where it was is in the state it was.
MismoSitio(q) ==
  /\ consola'[q].cargada = consola[q].cargada
  /\ \A n \in Nombres : Contains(cola'[n], q) <=> Contains(cola[n], q)
  /\ pcp'.proceso = q <=> pcp.proceso = q
  /\ consola'[q].pc = "flag" <=> consola[q].pc = "flag"
  /\ \A k \in CPUs : hilo'[k] = hilo[k] \/ q \notin {hilo[k].proceso, hilo'[k].proceso}

LEMMA MismoEstado ==
  ASSUME NEW q \in Consolas, MismoSitio(q)
  PROVE  EstadoDe(q)' = EstadoDe(q)
<1> DEFINE m == EnManosDeCPU(q, PCsHilo \ {"343pone", "terminado"})
<1>1. m' <=> m
  BY DEF EnManosDeCPU, MismoSitio
<1>2. /\ consola'[q].cargada = consola[q].cargada
      /\ Contains(cola'.new, q) <=> Contains(cola.new, q)
      /\ Contains(cola'.exit, q) <=> Contains(cola.exit, q)
      /\ Contains(cola'.ready, q) <=> Contains(cola.ready, q)
      /\ Contains(cola'.exec, q) <=> Contains(cola.exec, q)
      /\ pcp'.proceso = q <=> pcp.proceso = q
      /\ consola'[q].pc = "flag" <=> consola[q].pc = "flag"
  BY DEF MismoSitio, Nombres
<1> HIDE DEF m
<1> QED
  BY <1>1, <1>2 DEF EstadoDe, m

Quietos == \A q \in Consolas : EstadoDe(q)' = EstadoDe(q)

\* Only p changes, from a to b.
Flecha(p, a, b) ==
  /\ p \in Consolas /\ EstadoDe(p) = a /\ EstadoDe(p)' = b
  /\ \A q \in Consolas \ {p} : EstadoDe(q)' = EstadoDe(q)

LEMMA SinPaso ==
  ASSUME Quietos
  PROVE  UNCHANGED [p \in Consolas |-> EstadoDe(p)]
  BY DEF Quietos

LEMMA PasoDe ==
  ASSUME NEW p, NEW a, NEW b, Flecha(p, a, b), NEW S, a \in S
  PROVE  Ciclo!Pasa(p, S, b)
  BY DEF Flecha, Ciclo!Pasa

LEMMA ColaOtros ==
  ASSUME NEW S, NEW q \in Seq(S), q # <<>>, NEW x, x # Head(q)
  PROVE  Contains(Tail(q), x) <=> Contains(q, x)
<1> DEFINE t == Tail(q)
<1>1. /\ Len(q) \in Nat \ {0} /\ Len(t) = Len(q) - 1 /\ Head(q) = q[1]
      /\ \A i \in 1..Len(t) : i + 1 \in 1..Len(q) /\ t[i] = q[i + 1]
  OBVIOUS
<1> HIDE DEF t
<1>2. ASSUME Contains(t, x) PROVE Contains(q, x)
  BY <1>1, <1>2 DEF Contains
<1>3. ASSUME Contains(q, x) PROVE Contains(t, x)
  <2>1. PICK i \in 1..Len(q) : q[i] = x
    BY <1>3 DEF Contains
  <2>2. PICK j \in 1..Len(t) : j = i - 1
    <3>1. i # 1
      BY <1>1, <2>1
    <3> QED
      BY <1>1, <3>1
  <2>3. t[j] = q[i]
    BY <1>1, <2>2
  <2> QED
    BY <2>1, <2>3 DEF Contains
<1> QED
  BY <1>2, <1>3 DEF t

\* Everything that says where a process is changes for p alone, if for anyone.
LEMMA SoloUno ==
  ASSUME NEW p,
         \A q \in Consolas \ {p} : /\ consola'[q].cargada = consola[q].cargada
                                   /\ consola'[q].pc = "flag" <=> consola[q].pc = "flag"
                                   /\ \A n \in Nombres : Contains(cola'[n], q) <=> Contains(cola[n], q),
         pcp'.proceso = pcp.proceso \/ {pcp.proceso, pcp'.proceso} \subseteq {p, NULO},
         \A k \in CPUs :
           hilo'[k] = hilo[k] \/ {hilo[k].proceso, hilo'[k].proceso} \subseteq {p, NULO}
  PROVE  \A q \in Consolas \ {p} : EstadoDe(q)' = EstadoDe(q)
<1>1. ASSUME NEW q \in Consolas \ {p} PROVE MismoSitio(q)
  BY ConstantesNucleo DEF MismoSitio
<1> QED
  BY <1>1, MismoEstado

\* An element more at the end of one of the queues, or none.
LEMMA ColaQueCrece ==
  ASSUME Tipos, NEW n \in Nombres, NEW p, cola' = [cola EXCEPT ![n] = Append(@, p)]
  PROVE  /\ \A q \in Consolas \ {p} : \A m \in Nombres : Contains(cola'[m], q) <=> Contains(cola[m], q)
         /\ Contains(cola'[n], p)
<1>1. /\ cola[n] \in Seq(Consolas \cup {NULO})
      /\ cola'[n] = Append(cola[n], p) /\ \A m \in Nombres \ {n} : cola'[m] = cola[m]
  BY DEF Nombres, Tipos, TiposDeHilos, TipoColas, Colas
<1>2. \A x : Contains(Append(cola[n], p), x) <=> Contains(cola[n], x) \/ x = p
  BY <1>1, Pone
<1> QED
  BY <1>1, <1>2

LEMMA ColasIguales ==
  ASSUME Tipos, cola' = cola \/ \E k : LiberaCPU(k)
  PROVE  \A n \in Nombres : cola'[n] = cola[n]
  BY DEF Nombres, LiberaCPU, Tipos, TiposDeHilos, TipoColas, Colas

\* What the steps of the scheduler are for the life cycle.
Paso ==
  \/ Quietos
  \/ \E p : \/ Flecha(p, "ninguno", "new") \/ Flecha(p, "new", "ready")
            \/ Flecha(p, "ready", "exec") /\ Cardinality(Ciclo!Ejecutando) < Cardinality(CPUs)
            \/ Flecha(p, "exec", "ready") \/ Flecha(p, "exec", "block")
            \/ Flecha(p, "block", "ready") \/ Flecha(p, "exec", "exit")

LEMMA PasoDelCiclo ==
  ASSUME Paso
  PROVE  Ciclo!Next \/ UNCHANGED [p \in Consolas |-> EstadoDe(p)]
<1>1. CASE Quietos
  BY <1>1, SinPaso
<1>2. ASSUME NEW p, Flecha(p, "ninguno", "new") PROVE Ciclo!Crear(p) /\ p \in Consolas
  BY <1>2, PasoDe DEF Ciclo!Crear, Flecha
<1>3. ASSUME NEW p, Flecha(p, "new", "ready") PROVE Ciclo!Admitir(p) /\ p \in Consolas
  BY <1>3, PasoDe DEF Ciclo!Admitir, Flecha
<1>4. ASSUME NEW p, Flecha(p, "ready", "exec"), Cardinality(Ciclo!Ejecutando) < Cardinality(CPUs)
      PROVE  Ciclo!Despachar(p) /\ p \in Consolas
  <2>1. Ciclo!Pasa(p, {"ready"}, "exec")
    BY <1>4, PasoDe
  <2>2. \A S : Ciclo!Cardinality(S) = Cardinality(S)
    BY Zenon DEF Ciclo!Cardinality, Cardinality
  <2>3. Ciclo!Despachar(p)
    BY <1>4, <2>1, <2>2, Zenon DEF Ciclo!Despachar
  <2> QED
    BY <1>4, <2>3 DEF Flecha
<1>5. ASSUME NEW p, Flecha(p, "exec", "ready") PROVE Ciclo!FinDeQuantum(p) /\ p \in Consolas
  BY <1>5, PasoDe DEF Ciclo!FinDeQuantum, Flecha
<1>6. ASSUME NEW p, Flecha(p, "exec", "block") PROVE Ciclo!Bloquear(p) /\ p \in Consolas
  BY <1>6, PasoDe DEF Ciclo!Bloquear, Flecha
<1>7. ASSUME NEW p, Flecha(p, "block", "ready") PROVE Ciclo!Despertar(p) /\ p \in Consolas
  BY <1>7, PasoDe DEF Ciclo!Despertar, Flecha
<1>8. ASSUME NEW p, Flecha(p, "exec", "exit") PROVE Ciclo!Terminar(p) /\ p \in Consolas
  BY <1>8, PasoDe DEF Ciclo!Terminar, Flecha
<1> QED
  BY <1>1, <1>2, <1>3, <1>4, <1>5, <1>6, <1>7, <1>8 DEF Paso, Ciclo!Next

\* p runs in k: cola_exec has it for the socket of k, or the thread of k has it.
Ocupa(p, k) ==
  \/ p \in Suyos(k)
  \/ hilo[k].proceso = p /\ hilo[k].pc \in ConTurno

LEMMA UnaCadaUno ==
  ASSUME IProtocolo, NEW k \in CPUs, NEW p, NEW q, Ocupa(p, k), Ocupa(q, k)
  PROVE  p = q /\ ~Libre(k)
<1>1. Turno(Libre(k), Suyos(k), hilo[k])
  BY DEF IProtocolo, Acuerdo, Acorde
<1> QED
  BY <1>1 DEF Turno, Ocupa

LEMMA CorreEnAlguna ==
  ASSUME Tipos, ILugares, INormal, NEW p \in Consolas, EstadoDe(p) = "exec"
  PROVE  \E k \in CPUs : Ocupa(p, k)
<1>1. Contains(cola.exec, p) \/ EnManosDeCPU(p, PCsHilo \ {"343pone", "terminado"})
  BY DEF EstadoDe
<1>2. CASE Contains(cola.exec, p)
  <2>1. t_proceso[p].socket_CPU \in CPUs
    BY <1>2 DEF INormal, ConSocket, Tipos, TiposDeHilos, TipoBloqueados, DatosDeProceso
  <2> QED
    BY <1>2, <2>1 DEF Ocupa, Suyos
<1>3. CASE EnManosDeCPU(p, PCsHilo \ {"343pone", "terminado"})
  <2>1. PICK k \in CPUs : hilo[k].proceso = p /\ hilo[k].pc \notin {"343pone", "terminado"}
    BY <1>3 DEF EnManosDeCPU
  <2>2. hilo[k].pc \in ConProceso
    BY <2>1, ConstantesNucleo DEF ILugares, LugaresBien, ManosVacias
  <2> QED
    BY <2>1, <2>2 DEF Ocupa, ConProceso, ConTurno
<1> QED
  BY <1>1, <1>2, <1>3

\* The token that the PCP took is that of a CPU on which nothing runs.
LEMMA HayCPU ==
  ASSUME IsFiniteSet(CPUs), Tipos, ILugares, IProtocolo, INormal, pcp.pc = "manda"
  PROVE  Cardinality(Ciclo!Ejecutando) < Cardinality(CPUs)
<1> DEFINE E == {p \in Consolas : EstadoDe(p) = "exec"}
           R == CPUs \ {pcp.sock}
           f == [p \in E |-> CHOOSE k \in CPUs : Ocupa(p, k)]
<1>1. pcp.sock \in CPUs /\ Libre(pcp.sock)
  BY DEF INormal, ConSocket, Tipos, TiposDeHilos, TipoHilos, EstadosPCP, Libre
<1>2. ASSUME NEW p \in E PROVE f[p] \in R /\ Ocupa(p, f[p])
  <2>1. f[p] \in CPUs /\ Ocupa(p, f[p])
    BY CorreEnAlguna
  <2> QED
    BY <1>1, <2>1, UnaCadaUno
<1> HIDE DEF R
<1>3. f \in [E -> R]
  BY <1>2
<1>4. ASSUME NEW p \in E, NEW q \in E, f[p] = f[q] PROVE p = q
  BY <1>2, <1>4, UnaCadaUno DEF R
<1>5. f \in Injection(E, R)
  <2> HIDE DEF E, f
  <2> QED
    BY <1>3, <1>4 DEF Injection, IsInjective
<1>6. IsFiniteSet(R) /\ Cardinality(R) = Cardinality(CPUs) - 1
  BY <1>1, FS_RemoveElement DEF R
<1> HIDE DEF E, f
<1>7. Cardinality(E) <= Cardinality(R) /\ IsFiniteSet(E)
  BY <1>5, <1>6, FS_Injection
<1>8. Cardinality(E) \in Nat /\ Cardinality(CPUs) \in Nat
  BY <1>7, FS_CardinalityType
<1>9. Ciclo!Ejecutando = E
  BY DEF Ciclo!Ejecutando, E
<1> QED
  BY <1>6, <1>7, <1>8, <1>9
-----------------------------------------------------------------------------
(* The threads that are about no CPU, and the dispatcher.                    *)

LEMMA NadieSeMueve ==
  ASSUME \A n \in Nombres : cola'[n] = cola[n], pcp'.proceso = pcp.proceso, UNCHANGED hilo,
         \A c \in Consolas : /\ consola'[c].cargada = consola[c].cargada
                             /\ consola'[c].pc = "flag" <=> consola[c].pc = "flag"
  PROVE  Paso
<1>1. \A q \in Consolas \ {NULO} : EstadoDe(q)' = EstadoDe(q)
  BY SoloUno
<1> QED
  BY <1>1, ConstantesNucleo DEF Paso, Quietos

LEMMA CabezaEsta ==
  ASSUME NEW S, NEW q \in Seq(S), q # <<>>
  PROVE  Contains(q, Head(q)) /\ Head(q) \in S
<1>1. 1 \in 1..Len(q) /\ Head(q) = q[1]
  OBVIOUS
<1> QED
  BY <1>1 DEF Contains

LEMMA MuerePaso ==
  ASSUME NEW como, Muere(como)
  PROVE  Paso
<1>1. UNCHANGED <<cola, pcp, hilo, consola>>
  BY DEF Muere, hilos
<1> QED
  BY <1>1, NadieSeMueve

LEMMA PLPPaso ==
  ASSUME Tipos, SitiosBien, SitiosBien', PLP
  PROVE  Paso
<1>0. PICK p : p = Head(cola.new)
  OBVIOUS
<1>1. cola.new \in Seq(Consolas) /\ cola.new # <<>> /\ cola.ready \in Seq(Consolas \cup {NULO})
  BY DEF PLP, Tipos, Admision, TiposDeHilos, TipoColas, Colas
<1>2. p \in Consolas /\ Contains(cola.new, p)
  BY <1>0, <1>1, CabezaEsta
<1>3. /\ cola'.new = Tail(cola.new) /\ cola'.ready = Append(cola.ready, p)
      /\ cola'.exec = cola.exec /\ cola'.exit = cola.exit
      /\ UNCHANGED <<pcp, hilo, consola>>
  BY <1>0 DEF PLP, hilos, Tipos, TiposDeHilos, TipoColas, Colas
<1>4. \A q : q # p => (Contains(cola'.new, q) <=> Contains(cola.new, q))
  BY <1>0, <1>1, <1>3, ColaOtros
<1>5. \A q : Contains(cola'.ready, q) <=> Contains(cola.ready, q) \/ q = p
  BY <1>1, <1>3, Pone
<1>6. \A q \in Consolas \ {p} : EstadoDe(q)' = EstadoDe(q)
  <2>1. \A q \in Consolas \ {p} : \A n \in Nombres : Contains(cola'[n], q) <=> Contains(cola[n], q)
    BY <1>3, <1>4, <1>5 DEF Nombres
  <2> QED
    BY <1>3, <2>1, SoloUno
<1>7. EstadoDe(p) = "new"
  BY <1>2 DEF SitiosBien, SitioBien
<1>8. EstadoDe(p)' = "ready"
  BY <1>2, <1>5 DEF SitiosBien, SitioBien
<1>9. Flecha(p, "new", "ready")
  BY <1>2, <1>6, <1>7, <1>8 DEF Flecha
<1> QED
  BY <1>9 DEF Paso

LEMMA PCPTomaPaso ==
  ASSUME Tipos, ILugares, SitiosBien, SitiosBien', PCPToma
  PROVE  Paso
<1>0. PICK p : p = Head(cola.ready)
  OBVIOUS
<1>1. /\ cola.ready \in Seq(Consolas \cup {NULO}) /\ cola.ready # <<>>
      /\ Saca(cola.ready) = p /\ p # NULO
  BY <1>0 DEF PCPToma, Saca, Vacia, Tipos, TiposDeHilos, TipoColas, Colas
<1>2. p \in Consolas /\ Contains(cola.ready, p)
  BY <1>0, <1>1, CabezaEsta
<1>3. /\ cola'.ready = Tail(cola.ready) /\ cola'.new = cola.new
      /\ cola'.exec = cola.exec /\ cola'.exit = cola.exit
      /\ pcp'.proceso = p /\ UNCHANGED <<hilo, consola>>
  BY <1>0, <1>1 DEF PCPToma, Resto, Vacia, Tipos, TiposDeHilos, TipoColas, Colas
<1>4. \A q : q # p => (Contains(cola'.ready, q) <=> Contains(cola.ready, q))
  BY <1>0, <1>1, <1>3, ColaOtros
<1>5. pcp.proceso = NULO
  BY DEF PCPToma, ILugares, LugaresBien, ManosVacias
<1>6. \A q \in Consolas \ {p} : EstadoDe(q)' = EstadoDe(q)
  <2>1. \A q \in Consolas \ {p} : \A n \in Nombres : Contains(cola'[n], q) <=> Contains(cola[n], q)
    BY <1>3, <1>4 DEF Nombres
  <2> QED
    BY <1>3, <1>5, <2>1, SoloUno
<1>7. EstadoDe(p) = "ready"
  BY <1>2 DEF SitiosBien, SitioBien
<1>8. EstadoDe(p)' = "ready"
  BY <1>2, <1>3 DEF SitiosBien, SitioBien
<1> QED
  BY <1>6, <1>7, <1>8 DEF Paso, Quietos

LEMMA MandarPaso ==
  ASSUME IsFiniteSet(CPUs), Tipos, ILugares, IProtocolo, INormal, SitiosBien, SitiosBien',
         MandarAEjecutar
  PROVE  Paso
<1>0. PICK p : p = pcp.proceso
  OBVIOUS
<1>1. /\ p \in Consolas /\ pcp.pc = "manda" /\ pcp'.proceso = NULO
      /\ cola' = [cola EXCEPT !.exec = Append(@, p)] /\ UNCHANGED <<hilo, consola>>
  <2>1. /\ pcp.pc = "manda" /\ pcp' = [pc |-> "espera", sock |-> NULO, proceso |-> NULO]
        /\ cola' = [cola EXCEPT !.exec = Append(@, pcp.proceso)] /\ UNCHANGED <<hilo, consola>>
    BY Zenon DEF MandarAEjecutar
  <2>2. pcp.proceso \in Consolas
    BY <2>1 DEF Tipos, ManosDeOtros
  <2>3. pcp'.proceso = NULO
    BY <2>1
  <2> QED
    BY <1>0, <2>1, <2>2, <2>3, Zenon
<1>2. Cardinality(Ciclo!Ejecutando) < Cardinality(CPUs)
  BY <1>1, HayCPU
<1>3. EstadoDe(p) = "ready"
  BY <1>0, <1>1 DEF SitiosBien, SitioBien
<1>5. /\ \A q \in Consolas \ {p} : \A n \in Nombres : Contains(cola'[n], q) <=> Contains(cola[n], q)
      /\ Contains(cola'.exec, p)
  <2>1. "exec" \in Nombres
    BY DEF Nombres
  <2> QED
    BY <1>1, <2>1, ColaQueCrece
<1>6. \A q \in Consolas \ {p} : EstadoDe(q)' = EstadoDe(q)
  BY <1>0, <1>1, <1>5, SoloUno
<1>7. EstadoDe(p)' = "exec"
  BY <1>1, <1>5 DEF SitiosBien, SitioBien
<1>8. Flecha(p, "ready", "exec")
  BY <1>1, <1>3, <1>6, <1>7 DEF Flecha
<1> QED
  BY <1>2, <1>8 DEF Paso

LEMMA HiloPCPPaso ==
  ASSUME IsFiniteSet(CPUs), Tipos, ILugares, IProtocolo, INormal, SitiosBien, SitiosBien', HiloPCP
  PROVE  Paso
<1>1. CASE PCPEspera
  <2>1. UNCHANGED <<cola, hilo, consola>> /\ pcp'.proceso = pcp.proceso
    BY <1>1 DEF PCPEspera, Tipos, TiposDeHilos, TipoHilos, EstadosPCP
  <2> QED
    BY <2>1, NadieSeMueve
<1> QED
  BY <1>1, PCPTomaPaso, MandarPaso, MuerePaso DEF HiloPCP, PCPTomaNada

LEMMA HiloConsolaPaso ==
  ASSUME SinFallas, Tipos, ILugares, INormal, INormal', SitiosBien, SitiosBien',
         NEW c \in Consolas, HiloConsola(c)
  PROVE  Paso
<1>1. ConCargaOk(c) \/ ConCargaFalla(c) \/ ConDesconecta(c)
  BY ConsolaHace
<1>2. \A x \in Consolas : consola[x].pc # "flag" /\ consola'[x].pc # "flag"
  BY DEF INormal, Sanos
<1>3. CASE ConCargaOk(c)
  <2>1. /\ cola' = [cola EXCEPT !.new = Append(@, c)] /\ UNCHANGED <<pcp, hilo>>
        /\ \A x \in Consolas \ {c} : consola'[x] = consola[x]
    BY <1>3 DEF ConCargaOk, Tipos, TiposDeHilos, TipoHilos
  <2>2. /\ \A q \in Consolas \ {c} : \A n \in Nombres : Contains(cola'[n], q) <=> Contains(cola[n], q)
        /\ Contains(cola'.new, c)
    <3>1. "new" \in Nombres
      BY DEF Nombres
    <3> QED
      BY <2>1, <3>1, ColaQueCrece
  <2>3. \A q \in Consolas \ {c} : EstadoDe(q)' = EstadoDe(q)
    BY <2>1, <2>2, SoloUno
  <2>4. EstadoDe(c) = "ninguno"
    BY <1>3 DEF ConCargaOk, ILugares, LugaresBien, Cargas, SitiosBien, SitioBien
  <2>5. EstadoDe(c)' = "new"
    BY <2>2 DEF SitiosBien, SitioBien
  <2>6. Flecha(c, "ninguno", "new")
    BY <2>3, <2>4, <2>5 DEF Flecha
  <2> QED
    BY <2>6 DEF Paso
<1>4. CASE ConCargaFalla(c) \/ ConDesconecta(c)
  <2>1. UNCHANGED <<cola, pcp, hilo>>
    BY <1>4 DEF ConCargaFalla, ConDesconecta
  <2>2. \A x \in Consolas : consola'[x].cargada = consola[x].cargada
    <3>1. PICK pc, i : ConPasaA(c, pc, i)
      BY <1>4 DEF ConCargaFalla, ConDesconecta
    <3> QED
      BY <3>1 DEF ConPasaA, Tipos, TiposDeHilos, TipoHilos, EstadosConsola
  <2> QED
    BY <1>2, <2>1, <2>2, NadieSeMueve
<1> QED
  BY <1>1, <1>3, <1>4

LEMMA SenialEntregaPaso ==
  ASSUME Tipos, INormal, SitiosBien, SitiosBien', NEW h \in Manejadores, SenialEntrega(h)
  PROVE  Paso
<1>0. PICK p : p = manejador[h].proceso
  OBVIOUS
<1>1. p \in Consolas
  BY <1>0 DEF SenialEntrega, Tipos, ManosDeOtros
<1>2. /\ cola' = [cola EXCEPT !.ready = Append(@, p)] /\ UNCHANGED <<pcp, hilo, consola>>
  BY <1>0, <1>1 DEF SenialEntrega, EncolaReady, INormal, Sanos
<1>3. EstadoDe(p) = "block"
  BY <1>0, <1>1 DEF SitiosBien, SitioBien
<1>4. /\ \A q \in Consolas \ {p} : \A n \in Nombres : Contains(cola'[n], q) <=> Contains(cola[n], q)
      /\ Contains(cola'.ready, p)
  <2>1. "ready" \in Nombres
    BY DEF Nombres
  <2> QED
    BY <1>2, <2>1, ColaQueCrece
<1>5. \A q \in Consolas \ {p} : EstadoDe(q)' = EstadoDe(q)
  BY <1>2, <1>4, SoloUno
<1>6. EstadoDe(p)' = "ready"
  BY <1>1, <1>4 DEF SitiosBien, SitioBien
<1>7. Flecha(p, "block", "ready")
  BY <1>1, <1>3, <1>5, <1>6 DEF Flecha
<1> QED
  BY <1>7 DEF Paso

LEMMA AnalizarIOPaso ==
  ASSUME Tipos, INormal, SitiosBien, SitiosBien', NEW h \in Manejadores, AnalizarIO(h)
  PROVE  Paso
<1>1. CASE \E d \in IOs : SenialNada(h, d)
  BY <1>1, MuerePaso DEF SenialNada
<1>2. CASE (\E d \in IOs : SenialSaca(h, d)) \/ SenialRearma(h) \/ SenialPantalla(h)
           \/ PantallaDibuja(h)
  <2>1. UNCHANGED <<cola, pcp, hilo, consola>>
    BY <1>2 DEF SenialSaca, SenialRearma, SenialPantalla, PantallaDibuja
  <2> QED
    BY <2>1, NadieSeMueve
<1> QED
  BY <1>1, <1>2, SenialEntregaPaso DEF AnalizarIO, AtiendeIO

LEMMA PrincipalPaso ==
  ASSUME Principal
  PROVE  Paso
<1>1. UNCHANGED <<cola, pcp, hilo, consola>>
  BY DEF Principal, Recarga, RecargaEmpieza, RecargaMira, RecargaToma, RecargaCambia,
     RecargaSuelta, SenialVieja, Muere, hilos
<1> QED
  BY <1>1, NadieSeMueve
-----------------------------------------------------------------------------
(* hilo_CONEXION_CPU.                                                       *)

LEMMA SinProcesoEnManos ==
  ASSUME ILugares, NEW k \in CPUs, hilo[k].pc \notin ConProceso \cup {"343pone"}
  PROVE  hilo[k].proceso = NULO
  BY DEF ILugares, LugaresBien, ManosVacias

LEMMA DondeVa ==
  ASSUME Tipos, NEW k \in CPUs, NEW pc,
         CpuPasaA(k, pc) \/ CpuSuelta(k, pc)
  PROVE  /\ \A j \in CPUs \ {k} : hilo'[j] = hilo[j]
         /\ hilo'[k].pc = pc
         /\ CpuPasaA(k, pc) => hilo'[k].proceso = hilo[k].proceso
         /\ CpuSuelta(k, pc) => hilo'[k].proceso = NULO
  BY DEF CpuPasaA, CpuSuelta, Tipos, TiposDeHilos, TipoHilos, EstadosHilo

\* A thread with no process in its hands.
LEMMA ManosVaciasPaso ==
  ASSUME Tipos, ILugares, NEW k \in CPUs,
         \/ CpuConecta(k) \/ CpuLibera(k) \/ Cpu343Suma(k) \/ Cpu343HayEspera(k)
         \/ Cpu350Y351(k) \/ CpuAviso(k)
  PROVE  Paso
<1>1. UNCHANGED <<consola, pcp>> /\ \A n \in Nombres : cola'[n] = cola[n]
  <2>1. UNCHANGED <<consola, pcp>> /\ (cola' = cola \/ LiberaCPU(k))
    BY DEF CpuConecta, CpuLibera, Cpu343Suma, Cpu343HayEspera, Cpu350Y351, CpuAviso
  <2> QED
    BY <2>1, ColasIguales
<1>2. hilo[k].proceso = NULO
  <2>1. hilo[k].pc \in {"accept", "libera", "liberaYSuelta", "343", "350", "351", "recibe"}
    BY DEF CpuConecta, CpuLibera, Cpu343Suma, Cpu343HayEspera, Cpu350Y351, CpuAviso
  <2> QED
    BY <2>1, SinProcesoEnManos DEF ConProceso
<1>3. hilo'[k].proceso = NULO /\ \A j \in CPUs \ {k} : hilo'[j] = hilo[j]
  <2>1. CASE CpuAviso(k)
    BY <1>2, <2>1 DEF CpuAviso, Tipos, TiposDeHilos, TipoHilos, EstadosHilo
  <2>2. CASE ~CpuAviso(k)
    <3>1. CpuPasaA(k, "recibe") \/ CpuPasaA(k, "343saca")
      BY <2>2 DEF CpuConecta, CpuLibera, Cpu343Suma, Cpu343HayEspera, Cpu350Y351
    <3> QED
      BY <1>2, <3>1, DondeVa
  <2> QED
    BY <2>1, <2>2
<1>4. \A q \in Consolas \ {NULO} : EstadoDe(q)' = EstadoDe(q)
  BY <1>1, <1>2, <1>3, SoloUno
<1> QED
  BY <1>4, ConstantesNucleo DEF Paso, Quietos

\* dameProceso, when the process goes back to cola_exec.
LEMMA DevuelvePaso ==
  ASSUME Tipos, ILugares, IProtocolo, NEW k \in CPUs, CpuTomaYDevuelve(k)
  PROVE  Paso
<1>1. PICK i \in DOMAIN cola.exec :
        /\ EsSuProceso(k, i)
        /\ cola' = [cola EXCEPT !.exec = Append(RemoveAt(@, i), cola.exec[i])]
  BY DEF CpuTomaYDevuelve
<1>2. PICK p : p = cola.exec[i]
  OBVIOUS
<1>3. PICK r : r = RemoveAt(cola.exec, i)
  OBVIOUS
<1>4. /\ r \in Seq(Consolas) /\ Contains(cola.exec, p)
      /\ \A x : Contains(r, x) <=> Contains(cola.exec, x) /\ x # p
  <2>1. /\ i \in 1..Len(cola.exec) /\ r \in Seq(Consolas)
        /\ \A x : Contains(r, x) <=> Contains(cola.exec, x) /\ x # p
    BY <1>1, <1>2, <1>3, Dame
  <2> QED
    BY <1>2, <2>1 DEF Contains
<1>5. cola'.exec = Append(r, p) /\ \A n \in Nombres \ {"exec"} : cola'[n] = cola[n]
  BY <1>1, <1>2, <1>3 DEF Nombres, Tipos, TiposDeHilos, TipoColas, Colas
<1>6. \A x : Contains(Append(r, p), x) <=> Contains(r, x) \/ x = p
  BY <1>4, Pone
<1>7. \A n \in Nombres : \A x : Contains(cola'[n], x) <=> Contains(cola[n], x)
  BY <1>4, <1>5, <1>6
<1>8. /\ hilo[k].proceso = NULO /\ hilo'[k].proceso = NULO
      /\ \A j \in CPUs \ {k} : hilo'[j] = hilo[j]
  <2>1. hilo[k].proceso = NULO
    BY SinProcesoEnManos DEF CpuTomaYDevuelve, ConProceso
  <2> QED
    BY <2>1 DEF CpuTomaYDevuelve, Tipos, TiposDeHilos, TipoHilos, EstadosHilo
<1>9. UNCHANGED <<consola, pcp>>
  BY DEF CpuTomaYDevuelve
<1>10. \A q \in Consolas \ {NULO} : EstadoDe(q)' = EstadoDe(q)
  BY <1>7, <1>8, <1>9, SoloUno
<1> QED
  BY <1>10, ConstantesNucleo DEF Paso, Quietos

\* dameProceso, when the thread keeps the process.
LEMMA TomaPaso ==
  ASSUME Tipos, ILugares, IProtocolo, SitiosBien, SitiosBien', NEW k \in CPUs, CpuTomaProceso(k)
  PROVE  Paso
<1>1. PICK i \in DOMAIN cola.exec :
        /\ EsSuProceso(k, i)
        /\ hilo' = [hilo EXCEPT ![k] = [@ EXCEPT !.pc = Head(buzon[k]).op,
                                                 !.proceso = cola.exec[i],
                                                 !.elPaquete = Head(buzon[k])]]
        /\ cola' = [cola EXCEPT !.exec = RemoveAt(@, i)]
  BY Zenon DEF CpuTomaProceso
<1>2. PICK p : p = cola.exec[i]
  OBVIOUS
<1>3. /\ p \in Consolas /\ Contains(cola.exec, p)
      /\ \A x : Contains(RemoveAt(cola.exec, i), x) <=> Contains(cola.exec, x) /\ x # p
  <2>1. /\ i \in 1..Len(cola.exec) /\ p \in Consolas
        /\ \A x : Contains(RemoveAt(cola.exec, i), x) <=> Contains(cola.exec, x) /\ x # p
    BY <1>1, <1>2, Dame
  <2> QED
    BY <1>2, <2>1 DEF Contains
<1>4. cola'.exec = RemoveAt(cola.exec, i) /\ \A n \in Nombres \ {"exec"} : cola'[n] = cola[n]
  BY <1>1 DEF Nombres, Tipos, TiposDeHilos, TipoColas, Colas
<1>5. \A q \in Consolas \ {p} : \A n \in Nombres : Contains(cola'[n], q) <=> Contains(cola[n], q)
  BY <1>3, <1>4
<1>6. /\ hilo'[k].proceso = p /\ hilo'[k].pc \in Entregas
      /\ \A j \in CPUs \ {k} : hilo'[j] = hilo[j]
  <2>1. /\ hilo'[k].proceso = cola.exec[i] /\ hilo'[k].pc = Head(buzon[k]).op
        /\ \A j \in CPUs \ {k} : hilo'[j] = hilo[j]
    BY <1>1 DEF Tipos, TiposDeHilos, TipoHilos, EstadosHilo
  <2> QED
    BY <1>2, <2>1 DEF CpuTomaProceso
<1>7. hilo[k].proceso = NULO
  BY SinProcesoEnManos DEF CpuTomaProceso, ConProceso
<1>8. UNCHANGED <<consola, pcp>>
  BY DEF CpuTomaProceso
<1>9. \A q \in Consolas \ {p} : EstadoDe(q)' = EstadoDe(q)
  BY <1>5, <1>6, <1>7, <1>8, SoloUno
<1>10. EstadoDe(p) = "exec"
  BY <1>3 DEF SitiosBien, SitioBien
<1>11. EstadoDe(p)' = "exec"
  <2>1. hilo'[k].proceso = p => (hilo'[k].pc \notin {"343pone", "terminado"} => EstadoDe(p)' = "exec")
    BY <1>3 DEF SitiosBien, SitioBien
  <2> QED
    BY <1>6, <2>1 DEF Entregas
<1> QED
  BY <1>9, <1>10, <1>11 DEF Paso, Quietos

\* p leaves the hands of the thread for the queue n.
LEMMA DelHiloALaCola ==
  ASSUME Tipos, SitiosBien, NEW k \in CPUs, NEW p \in Consolas, p = hilo[k].proceso,
         NEW n \in Nombres, cola' = [cola EXCEPT ![n] = Append(@, p)],
         UNCHANGED <<consola, pcp>>, \A j \in CPUs \ {k} : hilo'[j] = hilo[j],
         hilo'[k].proceso \in {p, NULO}
  PROVE  /\ \A q \in Consolas \ {p} : EstadoDe(q)' = EstadoDe(q)
         /\ Contains(cola'[n], p)
         /\ hilo[k].pc \notin {"343pone", "terminado"} => EstadoDe(p) = "exec"
         /\ hilo[k].pc = "343pone" => EstadoDe(p) = "block"
<1>1. /\ \A q \in Consolas \ {p} : \A m \in Nombres : Contains(cola'[m], q) <=> Contains(cola[m], q)
      /\ Contains(cola'[n], p)
  BY ColaQueCrece
<1>2. \A q \in Consolas \ {p} : EstadoDe(q)' = EstadoDe(q)
  BY <1>1, SoloUno
<1> QED
  BY <1>1, <1>2 DEF SitiosBien, SitioBien

\* The steps that move it to a queue of the scheduler.
LEMMA EncolaPaso ==
  ASSUME Tipos, INormal, SitiosBien, SitiosBien', NEW k \in CPUs,
         Cpu304(k) \/ Cpu320Y370(k) \/ Cpu341Concede(k)
  PROVE  Paso
<1>0. PICK p : p = hilo[k].proceso
  OBVIOUS
<1>1. p \in Consolas /\ hilo[k].pc \notin {"343pone", "terminado"}
  <2>1. hilo[k].pc \in {"304", "320", "370", "341"}
    BY DEF Cpu304, Cpu320Y370, Cpu341Concede
  <2> QED
    BY <1>0, <2>1 DEF Tipos, ManosDeHilos, ConProceso
<1>2. UNCHANGED <<consola, pcp>>
  BY DEF Cpu304, Cpu320Y370, Cpu341Concede
<1>3. \A j \in CPUs \ {k} : hilo'[j] = hilo[j]
  BY DondeVa DEF Cpu304, Cpu320Y370, Cpu341Concede
<1>4. hilo'[k].proceso \in {p, NULO}
  BY <1>0, DondeVa DEF Cpu304, Cpu320Y370, Cpu341Concede
<1>5. /\ "ready" \in Nombres /\ "exit" \in Nombres /\ "exec" \in Nombres
      /\ cola'.ready = cola'["ready"] /\ cola'.exit = cola'["exit"] /\ cola'.exec = cola'["exec"]
  BY DEF Nombres
<1>6. CASE Cpu304(k)
  <2>1. EncolaReady(p)
    BY <1>0, <1>1, <1>6 DEF Cpu304, INormal, Sanos
  <2>2. cola' = [cola EXCEPT !["ready"] = Append(@, p)]
    BY <2>1 DEF EncolaReady
  <2>3. /\ \A q \in Consolas \ {p} : EstadoDe(q)' = EstadoDe(q)
        /\ Contains(cola'["ready"], p) /\ EstadoDe(p) = "exec"
    BY <1>0, <1>1, <1>2, <1>3, <1>4, <1>5, <2>2, DelHiloALaCola
  <2>4. EstadoDe(p)' = "ready"
    BY <1>1, <1>5, <2>3 DEF SitiosBien, SitioBien
  <2>5. Flecha(p, "exec", "ready")
    BY <1>1, <2>3, <2>4 DEF Flecha
  <2> QED
    BY <2>5 DEF Paso
<1>7. CASE Cpu320Y370(k)
  <2>1. cola' = [cola EXCEPT !["exit"] = Append(@, p)]
    BY <1>0, <1>7 DEF Cpu320Y370
  <2>2. /\ \A q \in Consolas \ {p} : EstadoDe(q)' = EstadoDe(q)
        /\ Contains(cola'["exit"], p) /\ EstadoDe(p) = "exec"
    BY <1>0, <1>1, <1>2, <1>3, <1>4, <1>5, <2>1, DelHiloALaCola
  <2>3. EstadoDe(p)' = "exit"
    BY <1>1, <1>5, <2>2 DEF SitiosBien, SitioBien
  <2>4. Flecha(p, "exec", "exit")
    BY <1>1, <2>2, <2>3 DEF Flecha
  <2> QED
    BY <2>4 DEF Paso
<1>8. CASE Cpu341Concede(k)
  <2>1. cola' = [cola EXCEPT !["exec"] = Append(@, p)]
    BY <1>0, <1>8 DEF Cpu341Concede
  <2>2. /\ \A q \in Consolas \ {p} : EstadoDe(q)' = EstadoDe(q)
        /\ Contains(cola'["exec"], p) /\ EstadoDe(p) = "exec"
    BY <1>0, <1>1, <1>2, <1>3, <1>4, <1>5, <2>1, DelHiloALaCola
  <2>3. EstadoDe(p)' = "exec"
    BY <1>1, <1>5, <2>2 DEF SitiosBien, SitioBien
  <2> QED
    BY <2>2, <2>3 DEF Paso, Quietos
<1> QED
  BY <1>6, <1>7, <1>8

\* 343: the process woken up, if there was one.
LEMMA PonePaso ==
  ASSUME Tipos, SitiosBien, SitiosBien', NEW k \in CPUs, Cpu343Pone(k)
  PROVE  Paso
<1>0. PICK p : p = hilo[k].proceso
  OBVIOUS
<1>1. UNCHANGED <<consola, pcp>> /\ hilo[k].pc = "343pone"
  BY DEF Cpu343Pone
<1>2. hilo'[k].proceso = NULO /\ \A j \in CPUs \ {k} : hilo'[j] = hilo[j]
  BY DondeVa DEF Cpu343Pone
<1>3. cola' = [cola EXCEPT !["ready"] = Append(@, p)] /\ "ready" \in Nombres
  BY <1>0 DEF Cpu343Pone, EncolaReady, Nombres
<1>4. CASE p \in Consolas
  <2>1. /\ \A q \in Consolas \ {p} : EstadoDe(q)' = EstadoDe(q)
        /\ Contains(cola'["ready"], p) /\ EstadoDe(p) = "block"
    BY <1>0, <1>1, <1>2, <1>3, <1>4, DelHiloALaCola
  <2>2. EstadoDe(p)' = "ready"
    BY <1>4, <2>1 DEF SitiosBien, SitioBien
  <2>3. Flecha(p, "block", "ready")
    BY <1>4, <2>1, <2>2 DEF Flecha
  <2> QED
    BY <2>3 DEF Paso
<1>5. CASE p \notin Consolas
  <2>1. p = NULO
    BY <1>0, <1>5 DEF Tipos, TiposDeHilos, TipoHilos, EstadosHilo
  <2>2. \A q \in Consolas \ {p} : \A m \in Nombres : Contains(cola'[m], q) <=> Contains(cola[m], q)
    BY <1>3, ColaQueCrece
  <2>3. \A q \in Consolas \ {p} : EstadoDe(q)' = EstadoDe(q)
    BY <1>0, <1>1, <1>2, <2>1, <2>2, SoloUno
  <2> QED
    BY <1>5, <2>3 DEF Paso, Quietos
<1> QED
  BY <1>4, <1>5

\* The queues of the scheduler stay as they are and so do the other threads: only
\* the process in the hands of k may change.
LEMMA SoloElDeK ==
  ASSUME NEW k \in CPUs, NEW p, \A n \in Nombres : cola'[n] = cola[n], UNCHANGED <<consola, pcp>>,
         \A j \in CPUs \ {k} : hilo'[j] = hilo[j],
         {hilo[k].proceso, hilo'[k].proceso} \subseteq {p, NULO}
  PROVE  \A q \in Consolas \ {p} : EstadoDe(q)' = EstadoDe(q)
  BY SoloUno

\* Still in the hands of the thread, or already in cola_exit.
LEMMA SigueIgualPaso ==
  ASSUME Tipos, SitiosBien, SitiosBien', NEW k \in CPUs,
         Cpu341Bloquea(k) \/ Cpu380Mira(k) \/ CpuTerminado(k)
  PROVE  Paso
<1>0. PICK p : p = hilo[k].proceso
  OBVIOUS
<1>1. UNCHANGED <<consola, pcp>> /\ (cola' = cola \/ LiberaCPU(k))
  BY DEF Cpu341Bloquea, Cpu380Mira, CpuTerminado
<1>2. \A n \in Nombres : cola'[n] = cola[n]
  BY <1>1, ColasIguales
<1>3. \A j \in CPUs \ {k} : hilo'[j] = hilo[j]
  BY DondeVa DEF Cpu341Bloquea, Cpu380Mira, CpuTerminado
<1>4. p \in Consolas
  <2>1. hilo[k].pc \in {"341", "380", "terminado"}
    BY DEF Cpu341Bloquea, Cpu380Mira, CpuTerminado
  <2> QED
    BY <1>0, <2>1 DEF Tipos, ManosDeHilos, ConProceso
<1>5. CASE Cpu341Bloquea(k) \/ Cpu380Mira(k)
  <2>1. hilo[k].pc \in {"341", "380"}
    BY <1>5 DEF Cpu341Bloquea, Cpu380Mira
  <2>2. CpuPasaA(k, "341pcb") \/ CpuPasaA(k, "380vacia") \/ CpuPasaA(k, "380ocupada")
    BY <1>5 DEF Cpu341Bloquea, Cpu380Mira
  <2>3. hilo'[k].proceso = p /\ hilo'[k].pc \in {"341pcb", "380vacia", "380ocupada"}
    BY <1>0, <2>2, DondeVa
  <2>4. \A q \in Consolas \ {p} : EstadoDe(q)' = EstadoDe(q)
    BY <1>0, <1>1, <1>2, <1>3, <2>3, SoloElDeK
  <2>5. EstadoDe(p) = "exec"
    BY <1>0, <1>4, <2>1 DEF SitiosBien, SitioBien
  <2>6. EstadoDe(p)' = "exec"
    BY <1>4, <2>3 DEF SitiosBien, SitioBien
  <2> QED
    BY <2>4, <2>5, <2>6 DEF Paso, Quietos
<1>6. CASE CpuTerminado(k)
  <2>1. hilo[k].pc = "terminado" /\ hilo'[k].proceso = NULO
    BY <1>6, DondeVa DEF CpuTerminado
  <2>2. \A q \in Consolas \ {p} : EstadoDe(q)' = EstadoDe(q)
    BY <1>0, <1>1, <1>2, <1>3, <2>1, SoloElDeK
  <2>3. EstadoDe(p) = "exit" /\ Contains(cola.exit, p)
    BY <1>0, <1>4, <2>1 DEF SitiosBien, SitioBien
  <2>4. Contains(cola'.exit, p)
    BY <1>2, <2>3 DEF Nombres
  <2>5. EstadoDe(p)' = "exit"
    BY <1>4, <2>4 DEF SitiosBien, SitioBien
  <2> QED
    BY <2>2, <2>3, <2>5 DEF Paso, Quietos
<1> QED
  BY <1>5, <1>6

\* The steps that leave it in the queue of a semaphore or of a device.
LEMMA BloqueaPaso ==
  ASSUME Tipos, INormal, SitiosBien, SitiosBien', NEW k \in CPUs, Cpu341PCB(k) \/ Cpu380Encola(k)
  PROVE  Paso
<1>0. PICK p : p = hilo[k].proceso
  OBVIOUS
<1>1. p \in Consolas /\ hilo[k].pc \in {"341pcb", "380vacia", "380ocupada"}
  <2>1. hilo[k].pc \in {"341pcb", "380vacia", "380ocupada"}
    BY DEF Cpu341PCB, Cpu380Encola
  <2> QED
    BY <1>0, <2>1 DEF Tipos, ManosDeHilos, ConProceso
<1>2. /\ cola' = cola /\ UNCHANGED <<consola, pcp>>
      /\ CpuSuelta(k, "liberaYSuelta") \/ CpuSuelta(k, "libera")
      /\ \/ hilo[k].pc = "341pcb"
            /\ colas_semaforos' = [colas_semaforos EXCEPT ![hilo[k].elPaquete.i] = Append(@, p)]
         \/ hilo[k].pc # "341pcb"
            /\ colas_ios' = [colas_ios EXCEPT ![hilo[k].elPaquete.i] = Append(@, p)]
  <2>1. ~t_proceso[hilo[k].proceso].abortado
    BY <1>0, <1>1 DEF INormal, Sanos
  <2>2. CASE Cpu341PCB(k)
    <3>1. /\ cola' = cola /\ UNCHANGED <<consola, pcp>> /\ CpuSuelta(k, "liberaYSuelta")
          /\ hilo[k].pc = "341pcb"
          /\ colas_semaforos' =
               [colas_semaforos EXCEPT ![hilo[k].elPaquete.i] = Append(@, hilo[k].proceso)]
      BY <2>1, <2>2, Zenon DEF Cpu341PCB
    <3> QED
      BY <1>0, <3>1, Zenon
  <2>3. CASE Cpu380Encola(k)
    <3>1. /\ cola' = cola /\ UNCHANGED <<consola, pcp>> /\ CpuSuelta(k, "libera")
          /\ colas_ios' = [colas_ios EXCEPT ![hilo[k].elPaquete.i] = Append(@, hilo[k].proceso)]
      BY <2>3, Zenon DEF Cpu380Encola
    <3>2. hilo[k].pc # "341pcb"
      BY <2>3 DEF Cpu380Encola
    <3> QED
      BY <1>0, <3>1, <3>2, Zenon
  <2> QED
    BY <2>2, <2>3
<1>3. hilo'[k].proceso = NULO /\ \A j \in CPUs \ {k} : hilo'[j] = hilo[j]
  BY <1>2, DondeVa
<1>4. \A q \in Consolas \ {p} : EstadoDe(q)' = EstadoDe(q)
  BY <1>0, <1>2, <1>3, SoloElDeK
<1>5. EstadoDe(p) = "exec"
  BY <1>0, <1>1 DEF SitiosBien, SitioBien
<1>6. \/ \E s \in Semaforos : Contains(colas_semaforos'[s], p)
      \/ \E d \in IOs : Contains(colas_ios'[d], p)
  <2>0. PICK i : i = hilo[k].elPaquete.i
    OBVIOUS
  <2>1. CASE hilo[k].pc = "341pcb"
    <3>1. i \in Semaforos /\ colas_semaforos[i] \in Seq(Consolas)
      BY <2>0, <2>1, SemaforoDelHilo DEF Tipos, TiposDeHilos, TipoBloqueados
    <3>2. colas_semaforos'[i] = Append(colas_semaforos[i], p)
      BY <1>2, <2>0, <2>1, <3>1 DEF Tipos, TiposDeHilos, TipoBloqueados
    <3>3. Contains(Append(colas_semaforos[i], p), p)
      BY <3>1, Pone
    <3> QED
      BY <3>1, <3>2, <3>3
  <2>2. CASE hilo[k].pc # "341pcb"
    <3>1. hilo[k].elPaquete.op = "380" /\ hilo[k].elPaquete \in Paquetes
      BY <1>1, <2>2 DEF Tipos, ManosDeHilos, TiposDeHilos, TipoHilos, EstadosHilo
    <3>2. i \in IOs /\ colas_ios \in [IOs -> Seq(Consolas)]
      BY <2>0, <3>1, PaqueteTipo DEF Tipos, TiposDeHilos, TipoBloqueados
    <3>3. colas_ios'[i] = Append(colas_ios[i], p)
      <4>1. colas_ios' = [colas_ios EXCEPT ![i] = Append(@, p)]
        BY <1>2, <2>0, <2>2, Zenon
      <4> QED
        BY <3>2, <4>1
    <3>4. Contains(Append(colas_ios[i], p), p)
      BY <3>2, Pone
    <3> QED
      BY <3>2, <3>3, <3>4
  <2> QED
    BY <2>1, <2>2
<1>7. EstadoDe(p)' = "block"
  BY <1>1, <1>6 DEF SitiosBien, SitioBien
<1>8. Flecha(p, "exec", "block")
  BY <1>1, <1>4, <1>5, <1>7 DEF Flecha
<1> QED
  BY <1>8 DEF Paso

\* 343: the process is still asleep in the hands of the thread.
LEMMA SacaPaso ==
  ASSUME Tipos, ILugares, SitiosBien, SitiosBien', NEW k \in CPUs, Cpu343Saca(k)
  PROVE  Paso
<1> DEFINE q == colas_semaforos[hilo[k].elPaquete.i]
<1>0. PICK p : p = Saca(q)
  OBVIOUS
<1>1. UNCHANGED <<cola, consola, pcp>> /\ hilo[k].pc = "343saca"
  BY DEF Cpu343Saca
<1>2. /\ hilo'[k].proceso = p /\ hilo'[k].pc = "343pone"
      /\ \A j \in CPUs \ {k} : hilo'[j] = hilo[j]
  <2>1. hilo' = [hilo EXCEPT ![k].pc = "343pone", ![k].proceso = p]
    BY <1>0, Zenon DEF Cpu343Saca
  <2> QED
    BY <2>1 DEF Tipos, TiposDeHilos, TipoHilos, EstadosHilo
<1>3. hilo[k].proceso = NULO
  BY <1>1, SinProcesoEnManos DEF ConProceso
<1>4. hilo[k].elPaquete.i \in Semaforos /\ q \in Seq(Consolas)
  BY <1>1, SemaforoDelHilo DEF Tipos, TiposDeHilos, TipoBloqueados
<1>5. \A x \in Consolas \ {p} : EstadoDe(x)' = EstadoDe(x)
  BY <1>1, <1>2, <1>3, SoloElDeK
<1>6. CASE q = <<>>
  <2>1. p = NULO
    BY <1>0, <1>6 DEF Saca, Vacia
  <2> QED
    BY <1>5, <2>1, ConstantesNucleo DEF Paso, Quietos
<1>7. CASE q # <<>>
  <2>1. p \in Consolas /\ Contains(q, p)
    BY <1>0, <1>4, <1>7, CabezaEsta DEF Saca, Vacia
  <2>2. EstadoDe(p) = "block"
    BY <1>4, <2>1 DEF SitiosBien, SitioBien
  <2>3. EstadoDe(p)' = "block"
    BY <1>2, <2>1 DEF SitiosBien, SitioBien
  <2> QED
    BY <1>5, <2>2, <2>3 DEF Paso, Quietos
<1> QED
  BY <1>6, <1>7

LEMMA HiloCPUPaso ==
  ASSUME SinFallas, Tipos, ILugares, IProtocolo, INormal, SitiosBien, SitiosBien', NEW k \in CPUs,
         CpuConecta(k) \/ HiloCPU(k)
  PROVE  Paso
<1>1. CASE CpuSinProceso(k) \/ CpuPCBIlegible(k)
  BY <1>1, MuerePaso DEF CpuSinProceso, CpuPCBIlegible
<1>2. CASE CpuCae(k) \/ CpuCaeAborta(k) \/ CpuCaeRecorre(k) \/ CpuCaeEspera(k) \/ Cpu380Aborta(k)
  <2>1. CASE Cpu380Aborta(k)
    <3>1. hilo[k].proceso \in Consolas
      BY <2>1 DEF Cpu380Aborta, Tipos, ManosDeHilos, ConProceso
    <3> QED
      BY <2>1, <3>1 DEF Cpu380Aborta, INormal, Sanos
  <2>2. CASE ~Cpu380Aborta(k)
    BY <1>2, <2>2, Viva DEF CpuCae, CpuCaeAborta, CpuCaeRecorre, CpuCaeEspera, Cayendo
  <2> QED
    BY <2>1, <2>2
<1> QED
  BY <1>1, <1>2, ManosVaciasPaso, DevuelvePaso, TomaPaso, EncolaPaso, PonePaso, SigueIgualPaso,
     BloqueaPaso, SacaPaso DEF HiloCPU

LEMMA ProgramaPaso ==
  ASSUME NEW k \in CPUs, Programa(k)
  PROVE  Paso
<1>1. ProgramaSigue
  BY DEF Programa, ProgramaLlama, ProgramaPCB, ProgramaQuantum, ProgramaAborta, ProgramaFinaliza,
     TerminaRafaga
<1>2. UNCHANGED <<cola, pcp, hilo, consola>>
  BY <1>1 DEF ProgramaSigue, hilos
<1> QED
  BY <1>2, NadieSeMueve
-----------------------------------------------------------------------------
LEMMA InicialDelCiclo == Init => Ciclo!Init
<1> SUFFICES ASSUME Init PROVE Ciclo!Init
  OBVIOUS
<1>1. SitiosBien
  BY InitTipos, InitLugares, Sitios
<1>2. \A p \in Consolas : ~consola[p].cargada
  BY DEF Init
<1>3. \A p \in Consolas : EstadoDe(p) = "ninguno"
  BY <1>1, <1>2 DEF SitiosBien, SitioBien
<1> QED
  BY <1>3 DEF Ciclo!Init

LEMMA NextPaso ==
  ASSUME SinFallas, IsFiniteSet(CPUs), Tipos, ILugares, IProtocolo, INormal, INormal',
         SitiosBien, SitiosBien', Next
  PROVE  Paso
<1>1. CASE Hilos
  <2>1. CASE PLP \/ HiloPCP
    BY <2>1, PLPPaso, HiloPCPPaso
  <2>2. CASE \E c \in Consolas : HiloConsola(c)
    BY <2>2, HiloConsolaPaso
  <2>3. ASSUME NEW k \in CPUs,
               CpuConecta(k) \/ HiloCPU(k) \/ Programa(k) \/ ProgramaSenial(k) \/ ProgramaCae(k)
        PROVE  Paso
    BY <2>3, HiloCPUPaso, ProgramaPaso, SinCaidas
  <2>4. CASE \E h \in Manejadores : AnalizarIO(h)
    BY <2>4, AnalizarIOPaso
  <2> QED
    BY <1>1, <2>1, <2>2, <2>3, <2>4 DEF Hilos
<1>2. CASE Principal
  BY <1>2, PrincipalPaso
<1> QED
  BY <1>1, <1>2 DEF Next, Sigue

LEMMA PasoDelNucleo ==
  ASSUME SinFallas, IsFiniteSet(CPUs)
  PROVE  /\ Tipos /\ ILugares /\ IProtocolo /\ INormal /\ INormal' /\ SitiosBien /\ SitiosBien'
         /\ [Next]_vars
         => [Ciclo!Next]_([p \in Consolas |-> EstadoDe(p)])
<1> SUFFICES ASSUME Tipos, ILugares, IProtocolo, INormal, INormal', SitiosBien, SitiosBien',
                    [Next]_vars
             PROVE  Ciclo!Next \/ UNCHANGED [p \in Consolas |-> EstadoDe(p)]
  OBVIOUS
<1>1. CASE Next
  BY <1>1, NextPaso, PasoDelCiclo
<1>2. CASE UNCHANGED vars
  <2>1. UNCHANGED <<cola, pcp, hilo, consola>>
    BY <1>2 DEF vars, hilos
  <2> QED
    BY <2>1, NadieSeMueve, PasoDelCiclo
<1> QED
  BY <1>1, <1>2

\* The NUCLEO implements the life cycle of Procesos, for any consoles, devices,
\* semaphores, system calls and reloads and any finite set of CPUs, as long as
\* nothing fails: each step moves at most one process along an arrow of the
\* cycle, and what the PCP dispatches always finds a CPU on which nothing runs.
THEOREM RefinaProcesosSiempre ==
  ASSUME SinFallas, IsFiniteSet(CPUs)
  PROVE  Spec => RefinaProcesos
<1>1. Tipos /\ ILugares => SitiosBien
  BY Sitios
<1>2. /\ Tipos /\ ILugares /\ IProtocolo /\ INormal /\ INormal' /\ SitiosBien /\ SitiosBien'
      /\ [Next]_vars
      => [Ciclo!Next]_([p \in Consolas |-> EstadoDe(p)])
  BY PasoDelNucleo
<1>3. Spec => []Tipos /\ []ILugares
  BY InitTipos, NextTipos, InitPrincipal, NextPrincipal, InitLugares, NextLugares, PTL DEF Spec
<1>4. Spec => Ciclo!Init /\ [][Ciclo!Next]_([p \in Consolas |-> EstadoDe(p)])
  BY <1>1, <1>2, <1>3, IProtocoloSiempre, INormalSiempre, InicialDelCiclo, PTL DEF Spec
<1> QED
  BY <1>4, PTL DEF RefinaProcesos, Ciclo!Spec
=============================================================================
