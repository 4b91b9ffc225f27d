--------------------------- MODULE NucleoLugares ---------------------------
(* Theorems about Nucleo: where the processes are.  Each one is in one       *)
(* place at most, and the UMC is told once that it ended, for any number of  *)
(* consoles, CPUs, semaphores and devices and whatever fails.                *)
EXTENDS NucleoPruebas

(* A place is a queue or the hands of a thread.  "ninguna" is that of a      *)
(* process that was not loaded, and of one that a reload threw away.         *)

Ninguna == <<"ninguna", 0>>
Salida == <<"exit", 0>>

Casas ==
  {<<n, 0>> : n \in {"ninguna", "new", "ready", "exec", "exit", "PCP", "consola"}}
  \cup {<<"semaforo", s>> : s \in Semaforos} \cup {<<"io", d>> : d \in IOs}
  \cup {<<"CPU", k>> : k \in CPUs} \cup {<<"SIGRTMIN", h>> : h \in Manejadores}

\* The processes of the queue q are those that donde says are at l, once each.
Vive(donde, q, l) ==
  /\ \A x \in Consolas : Contains(q, x) <=> donde[x] = l
  /\ \A i, j \in 1..Len(q) : q[i] = q[j] /\ q[i] \in Consolas => i = j

Nombres == {"new", "ready", "exec", "exit"}

EnColas(donde) == \A n \in Nombres : Vive(donde, cola[n], <<n, 0>>)

EnSemaforos(donde) == \A s \in Semaforos : Vive(donde, colas_semaforos[s], <<"semaforo", s>>)
EnIOs(donde) == \A d \in IOs : Vive(donde, colas_ios[d], <<"io", d>>)

EnPCP(donde) == \A x \in Consolas : pcp.proceso = x <=> donde[x] = <<"PCP", 0>>

EnCPU(donde, k) ==
  \A x \in Consolas :
    (hilo[k].proceso = x /\ hilo[k].pc # "terminado") <=> donde[x] = <<"CPU", k>>

EnManejador(donde, h) ==
  \A x \in Consolas : manejador[h].proceso = x <=> donde[x] = <<"SIGRTMIN", h>>

EnCPUs(donde) == \A k \in CPUs : EnCPU(donde, k)
EnManejadores(donde) == \A h \in Manejadores : EnManejador(donde, h)

EnConsolas(donde) ==
  \A x \in Consolas : consola[x].pc = "flag" <=> donde[x] = <<"consola", 0>>

\* A thread that is about to take a process has none.
ManosVacias ==
  /\ pcp.pc # "manda" => pcp.proceso = NULO
  /\ \A k \in CPUs : hilo[k].pc \notin ConProceso \cup {"343pone"} => hilo[k].proceso = NULO
  /\ \A h \in Manejadores : manejador[h].pc # "entrega" => manejador[h].proceso = NULO

\* Only a process that was loaded is anywhere, and without reloads it stays.
Cargas(donde) ==
  \A x \in Consolas :
    /\ consola[x].pc = "espera103" => ~consola[x].cargada /\ finalizados[x] = 0
    /\ ~consola[x].cargada => donde[x] = Ninguna
    /\ consola[x].cargada /\ MaxRecargas = 0 => donde[x] # Ninguna

\* FINALIZAR is the last thing that is done for a process; the thread of a CPU
\* sends it after it has put the process in cola_exit.
Finales(donde) ==
  /\ \A x \in Consolas :
       finalizados[x] # 0 => finalizados[x] = 1 /\ donde[x] \in {Ninguna, Salida}
  /\ \A k \in CPUs : hilo[k].pc = "terminado" =>
       /\ donde[hilo[k].proceso] = Salida /\ finalizados[hilo[k].proceso] = 0
       /\ \A j \in CPUs : hilo[j].pc = "terminado" /\ hilo[j].proceso = hilo[k].proceso => j = k

SinRecarga == MaxRecargas = 0 => recarga.pc = "lee"

LugaresBien(donde) ==
  /\ donde \in [Consolas -> Casas]
  /\ EnColas(donde) /\ EnSemaforos(donde) /\ EnIOs(donde)
  /\ EnPCP(donde) /\ EnCPUs(donde) /\ EnManejadores(donde) /\ EnConsolas(donde)
  /\ ManosVacias /\ Cargas(donde) /\ Finales(donde) /\ SinRecarga

ILugares == \E donde \in [Consolas -> Casas] : LugaresBien(donde)

-----------------------------------------------------------------------------
(* One queue.                                                               *)

\* RemoveAt, element by element.
LEMMA RemoveAtElementos ==
  ASSUME NEW S, NEW q \in Seq(S), NEW i \in 1..Len(q)
  PROVE  /\ RemoveAt(q, i) \in Seq(S) /\ Len(RemoveAt(q, i)) = Len(q) - 1
         /\ \A j \in 1..(Len(q) - 1) :
              RemoveAt(q, i)[j] = IF j < i THEN q[j] ELSE q[j + 1]
<1> DEFINE a == SubSeq(q, 1, i - 1)
           b == SubSeq(q, i + 1, Len(q))
<1>1. a \in Seq(S) /\ Len(a) = i - 1 /\ \A j \in 1..(i - 1) : a[j] = q[j]
  BY SubSeqProperties
<1>2. b \in Seq(S) /\ Len(b) = Len(q) - i /\ \A j \in 1..(Len(q) - i) : b[j] = q[i + j]
  BY SubSeqProperties
<1>3. RemoveAt(q, i) = a \o b
  BY DEF RemoveAt
<1> HIDE DEF a, b
<1>4. /\ a \o b \in Seq(S) /\ Len(a \o b) = Len(a) + Len(b)
      /\ \A j \in 1..(Len(a) + Len(b)) :
           (a \o b)[j] = IF j <= Len(a) THEN a[j] ELSE b[j - Len(a)]
  BY <1>1, <1>2, ConcatProperties
<1>5. ASSUME NEW j \in 1..(Len(q) - 1), j >= i
      PROVE  (a \o b)[j] = q[j + 1]
  <2>1. j - Len(a) \in 1..(Len(q) - i) /\ i + (j - Len(a)) = j + 1
    BY <1>1, <1>5
  <2>2. (a \o b)[j] = b[j - Len(a)]
    BY <1>1, <1>2, <1>4, <1>5
  <2> QED
    BY <1>2, <2>1, <2>2
<1> QED
  BY <1>1, <1>2, <1>3, <1>4, <1>5

\* p goes from where donde says to b, and the rest stay: then they are where e says.
Mueve(donde, e, p, b) ==
  /\ e \in [Consolas -> Casas] /\ e[p] = b
  /\ \A x \in Consolas \ {p} : e[x] = donde[x]

Fuera(donde, p, b, l) == donde[p] # l /\ b # l

LEMMA EstaEn ==
  ASSUME NEW q, NEW i \in 1..Len(q), NEW p \in Consolas, q[i] = p, NEW l, NEW donde,
         Vive(donde, q, l)
  PROVE  donde[p] = l
  BY DEF Vive, Contains

\* A queue that a process leaves: what stays is what was there but for it.
LEMMA Sale ==
  ASSUME NEW S, NEW q \in Seq(S), NEW i \in 1..Len(q), NEW p \in Consolas, q[i] = p,
         NEW l, NEW b, b # l, NEW donde, NEW e, Mueve(donde, e, p, b), Vive(donde, q, l)
  PROVE  Vive(e, RemoveAt(q, i), l) /\ donde[p] = l
<1> DEFINE r == RemoveAt(q, i)
<1>1. /\ r \in Seq(S) /\ Len(r) = Len(q) - 1
      /\ \A j \in 1..(Len(q) - 1) : r[j] = IF j < i THEN q[j] ELSE q[j + 1]
  BY RemoveAtElementos
<1> HIDE DEF r
<1>2. \A j, k \in 1..Len(q) : q[j] = q[k] /\ q[j] \in Consolas => j = k
  BY DEF Vive
<1>3. \A x \in Consolas : Contains(r, x) <=> Contains(q, x) /\ x # p
  <2>1. ASSUME NEW x \in Consolas, Contains(r, x)
        PROVE  Contains(q, x) /\ x # p
    <3>1. PICK j \in 1..(Len(q) - 1) : r[j] = x
      BY <1>1, <2>1 DEF Contains
    <3>2. CASE j < i
      BY <1>1, <1>2, <3>1, <3>2 DEF Contains
    <3>3. CASE j >= i
      <4>1. j + 1 \in 1..Len(q) /\ q[j + 1] = x /\ j + 1 # i
        BY <1>1, <3>1, <3>3
      <4> QED
        BY <1>2, <4>1 DEF Contains
    <3> QED
      BY <3>2, <3>3
  <2>2. ASSUME NEW x \in Consolas, Contains(q, x), x # p
        PROVE  Contains(r, x)
    <3>1. PICK j \in 1..Len(q) : q[j] = x
      BY <2>2 DEF Contains
    <3>2. CASE j < i
      <4>1. j \in 1..Len(r) /\ r[j] = x
        BY <1>1, <3>1, <3>2
      <4> QED
        BY <4>1 DEF Contains
    <3>3. CASE j > i
      <4>1. j - 1 \in 1..Len(r) /\ r[j - 1] = q[(j - 1) + 1] /\ (j - 1) + 1 = j
        BY <1>1, <3>3
      <4> QED
        BY <3>1, <4>1 DEF Contains
    <3> QED
      BY <2>2, <3>1, <3>2, <3>3
  <2> QED
    BY <2>1, <2>2
<1>4. ASSUME NEW j \in 1..Len(r), NEW k \in 1..Len(r), r[j] = r[k], r[j] \in Consolas
      PROVE  j = k
  <2> DEFINE u(n) == IF n < i THEN n ELSE n + 1
  <2>1. r[j] = q[u(j)] /\ r[k] = q[u(k)]
    BY <1>1
  <2>2. u(j) \in 1..Len(q) /\ u(k) \in 1..Len(q)
    BY <1>1
  <2>3. u(j) = u(k)
    <3> HIDE DEF u
    <3> QED
      BY <1>2, <1>4, <2>1, <2>2
  <2> QED
    BY <1>1, <2>3
<1>5. donde[p] = l
  BY DEF Vive, Contains
<1>6. \A x \in Consolas : Contains(r, x) <=> e[x] = l
  BY <1>3 DEF Vive, Mueve
<1>7. Vive(e, r, l)
  BY <1>4, <1>6 DEF Vive
<1> QED
  BY <1>5, <1>7 DEF r

LEMMA SaleElPrimero ==
  ASSUME NEW S, NEW q \in Seq(S), q # <<>>, NEW p \in Consolas, Head(q) = p,
         NEW l, NEW b, b # l, NEW donde, NEW e, Mueve(donde, e, p, b), Vive(donde, q, l)
  PROVE  Vive(e, Tail(q), l) /\ donde[p] = l
<1>1. PICK i \in 1..Len(q) : i = 1 /\ q[i] = p
  OBVIOUS
<1>2. RemoveAt(q, i) = Tail(q)
  <2>1. /\ RemoveAt(q, i) \in Seq(S) /\ Len(RemoveAt(q, i)) = Len(q) - 1
        /\ \A j \in 1..(Len(q) - 1) : RemoveAt(q, i)[j] = q[j + 1]
    BY <1>1, RemoveAtElementos
  <2>2. /\ Tail(q) \in Seq(S) /\ Len(Tail(q)) = Len(q) - 1
        /\ \A j \in 1..(Len(q) - 1) : Tail(q)[j] = q[j + 1]
    BY HeadTailProperties
  <2> QED
    BY <2>1, <2>2, SeqEqual
<1>3. q[i] = p
  BY <1>1
<1>4. Vive(e, RemoveAt(q, i), l)
  BY <1>3, Sale
<1>5. donde[p] = l
  BY <1>3 DEF Vive, Contains
<1> QED
  BY <1>2, <1>4, <1>5

LEMMA AppendElementos ==
  ASSUME NEW S, NEW q \in Seq(S), NEW p
  PROVE  /\ Len(Append(q, p)) = Len(q) + 1
         /\ \A j \in 1..Len(q) : Append(q, p)[j] = q[j]
         /\ Append(q, p)[Len(q) + 1] = p
         /\ \A x : Contains(Append(q, p), x) <=> Contains(q, x) \/ x = p
<1>1. /\ Len(Append(q, p)) = Len(q) + 1
      /\ \A j \in 1..Len(q) : Append(q, p)[j] = q[j]
      /\ Append(q, p)[Len(q) + 1] = p
  OBVIOUS
<1>2. Len(q) \in Nat
  OBVIOUS
<1> QED
  BY <1>1, <1>2 DEF Contains

\* A queue that a process enters.
LEMMA Entra ==
  ASSUME NEW S, NEW q \in Seq(S), NEW p \in Consolas, NEW l,
         NEW donde, NEW e, Mueve(donde, e, p, l), Vive(donde, q, l), donde[p] # l
  PROVE  Vive(e, Append(q, p), l)
<1> DEFINE r == Append(q, p)
<1>1. /\ Len(r) = Len(q) + 1
      /\ \A j \in 1..Len(q) : r[j] = q[j]
      /\ r[Len(q) + 1] = p
      /\ \A x : Contains(r, x) <=> Contains(q, x) \/ x = p
  BY AppendElementos
<1> HIDE DEF r
<1>2. \A x \in Consolas : Contains(r, x) <=> e[x] = l
  BY <1>1 DEF Vive, Mueve
<1>3. \A j \in 1..Len(q) : q[j] # p
  BY DEF Vive, Contains
<1>4. ASSUME NEW j \in 1..Len(r), NEW k \in 1..Len(r), r[j] = r[k], r[j] \in Consolas
      PROVE  j = k
  <2>1. \A j1, k1 \in 1..Len(q) : q[j1] = q[k1] /\ q[j1] \in Consolas => j1 = k1
    BY DEF Vive
  <2>2. Len(q) \in Nat
    OBVIOUS
  <2> QED
    BY <1>1, <1>3, <1>4, <2>1, <2>2
<1>5. Vive(e, r, l)
  BY <1>2, <1>4 DEF Vive
<1> QED
  BY <1>5 DEF r

\* The NULL that a signal may put in cola_ready is no process.
LEMMA EntraNulo ==
  ASSUME NEW S, NEW q \in Seq(S), NEW l, NEW donde, Vive(donde, q, l)
  PROVE  Vive(donde, Append(q, NULO), l)
<1> DEFINE r == Append(q, NULO)
<1>1. /\ Len(r) = Len(q) + 1
      /\ \A j \in 1..Len(q) : r[j] = q[j]
      /\ r[Len(q) + 1] = NULO
      /\ \A x : Contains(r, x) <=> Contains(q, x) \/ x = NULO
  BY AppendElementos
<1> HIDE DEF r
<1>2. \A x \in Consolas : Contains(r, x) <=> donde[x] = l
  BY <1>1, ConstantesNucleo DEF Vive
<1>3. ASSUME NEW j \in 1..Len(r), NEW k \in 1..Len(r), r[j] = r[k], r[j] \in Consolas
      PROVE  j = k
  <2>1. j # Len(q) + 1 /\ k # Len(q) + 1
    BY <1>1, <1>3, ConstantesNucleo
  <2>2. Len(q) \in Nat
    OBVIOUS
  <2> QED
    BY <1>1, <1>3, <2>1, <2>2 DEF Vive
<1>4. Vive(donde, r, l)
  BY <1>2, <1>3 DEF Vive
<1> QED
  BY <1>4 DEF r

\* A queue that a process neither leaves nor enters.
LEMMA Queda ==
  ASSUME NEW q, NEW p \in Consolas, NEW l, NEW b, NEW donde, NEW e,
         Mueve(donde, e, p, b), Fuera(donde, p, b, l), Vive(donde, q, l)
  PROVE  Vive(e, q, l)
<1>1. \A x \in Consolas : Contains(q, x) <=> e[x] = l
  BY DEF Vive, Mueve, Fuera
<1> QED
  BY <1>1 DEF Vive

-----------------------------------------------------------------------------
(* All the places.                                                          *)

\* The thread of a CPU may go on with what it has in its hands.
SigueCPU(k) ==
  \/ hilo'[k] = hilo[k]
  \/ /\ hilo'[k].proceso = hilo[k].proceso
     /\ hilo[k].pc # "terminado" /\ hilo'[k].pc # "terminado"

\* What a step that takes p to b does to each place: either it has now who e
\* says, or it is not one of the two and does not change.
TrasladoColas(donde, e, p, b) ==
  \A n \in Nombres :
    \/ Vive(e, cola'[n], <<n, 0>>)
    \/ cola'[n] = cola[n] /\ Fuera(donde, p, b, <<n, 0>>)

TrasladoSemaforos(donde, e, p, b) ==
  \A s \in Semaforos :
    \/ Vive(e, colas_semaforos'[s], <<"semaforo", s>>)
    \/ colas_semaforos'[s] = colas_semaforos[s] /\ Fuera(donde, p, b, <<"semaforo", s>>)

TrasladoIOs(donde, e, p, b) ==
  \A d \in IOs :
    \/ Vive(e, colas_ios'[d], <<"io", d>>)
    \/ colas_ios'[d] = colas_ios[d] /\ Fuera(donde, p, b, <<"io", d>>)

TrasladoPCP(donde, e, p, b) ==
  \/ EnPCP(e)'
  \/ pcp' = pcp /\ Fuera(donde, p, b, <<"PCP", 0>>)

TrasladoCPUs(donde, e, p, b) ==
  \A k \in CPUs :
    \/ EnCPU(e, k)'
    \/ SigueCPU(k) /\ Fuera(donde, p, b, <<"CPU", k>>)

TrasladoManejadores(donde, e, p, b) ==
  \A h \in Manejadores :
    \/ EnManejador(e, h)'
    \/ manejador'[h].proceso = manejador[h].proceso /\ Fuera(donde, p, b, <<"SIGRTMIN", h>>)

TrasladoConsolas(donde, e, p, b) ==
  \/ EnConsolas(e)'
  \/ /\ \A x \in Consolas : consola'[x].pc = "flag" <=> consola[x].pc = "flag"
     /\ Fuera(donde, p, b, <<"consola", 0>>)

Traslado(donde, e, p, b) ==
  /\ TrasladoColas(donde, e, p, b) /\ TrasladoSemaforos(donde, e, p, b)
  /\ TrasladoIOs(donde, e, p, b) /\ TrasladoPCP(donde, e, p, b)
  /\ TrasladoCPUs(donde, e, p, b) /\ TrasladoManejadores(donde, e, p, b)
  /\ TrasladoConsolas(donde, e, p, b)

LEMMA Trasladado ==
  ASSUME NEW p \in Consolas, NEW b, NEW donde, NEW e, LugaresBien(donde),
         Mueve(donde, e, p, b), Traslado(donde, e, p, b)
  PROVE  /\ EnColas(e)' /\ EnSemaforos(e)' /\ EnIOs(e)' /\ EnPCP(e)' /\ EnCPUs(e)'
         /\ EnManejadores(e)' /\ EnConsolas(e)'
<1>1. EnColas(e)' /\ EnSemaforos(e)' /\ EnIOs(e)'
  BY Queda DEF Traslado, TrasladoColas, TrasladoSemaforos, TrasladoIOs, LugaresBien, EnColas,
     EnSemaforos, EnIOs
<1>2. EnPCP(e)' /\ EnConsolas(e)'
  BY DEF Traslado, TrasladoPCP, TrasladoConsolas, LugaresBien, EnPCP, EnConsolas, Mueve, Fuera
<1>3. EnManejadores(e)'
  <2>1. ASSUME NEW h \in Manejadores, manejador'[h].proceso = manejador[h].proceso,
               Fuera(donde, p, b, <<"SIGRTMIN", h>>)
        PROVE  EnManejador(e, h)'
    BY <2>1 DEF LugaresBien, EnManejadores, EnManejador, Mueve, Fuera
  <2> QED
    BY <2>1 DEF Traslado, TrasladoManejadores, EnManejadores
<1>4. ASSUME NEW k \in CPUs, SigueCPU(k), Fuera(donde, p, b, <<"CPU", k>>)
      PROVE  EnCPU(e, k)'
  BY <1>4 DEF LugaresBien, EnCPUs, EnCPU, Mueve, Fuera, SigueCPU
<1>5. EnCPUs(e)'
  BY <1>4 DEF Traslado, TrasladoCPUs, EnCPUs
<1> QED
  BY <1>1, <1>2, <1>3, <1>5

\* What such a step leaves alone: the reload, who was loaded, the FINALIZAR of
\* the others, and the threads that have one pending.
LoDemas(p, b) ==
  /\ UNCHANGED recarga
  /\ \A x \in Consolas : /\ consola'[x].pc = "espera103" => consola[x].pc = "espera103"
                         /\ consola'[x].cargada = consola[x].cargada
  /\ \/ finalizados' = finalizados
     \/ b = Salida /\ FinalizarEnUMC(p)
  /\ \A k \in CPUs : hilo'[k].pc = "terminado" =>
       hilo[k].pc = "terminado" /\ hilo'[k].proceso = hilo[k].proceso

\* A loaded process that is not in cola_exit moves, and ends only if that is
\* where it goes.
LEMMA Muda ==
  ASSUME Tipos, NEW p \in Consolas, NEW b, b # Ninguna, NEW donde, NEW e,
         LugaresBien(donde), donde[p] \notin {Ninguna, Salida},
         Mueve(donde, e, p, b), Traslado(donde, e, p, b), LoDemas(p, b), ManosVacias'
  PROVE  ILugares'
<1>1. /\ e \in [Consolas -> Casas] /\ e[p] = b
      /\ \A x \in Consolas \ {p} : e[x] = donde[x]
  BY DEF Mueve
<1>2. consola[p].cargada /\ consola[p].pc # "espera103" /\ finalizados[p] = 0
  BY DEF LugaresBien, Cargas, Finales
<1>0. finalizados \in [Consolas -> Nat]
  BY DEF Tipos, TiposDeHilos, TipoHistoria
<1>3. \A x \in Consolas \ {p} : finalizados'[x] = finalizados[x]
  BY <1>0 DEF FinalizarEnUMC, LoDemas
<1>4. \/ finalizados'[p] = 0
      \/ finalizados'[p] = 1 /\ b = Salida
  BY <1>0, <1>2 DEF FinalizarEnUMC, LoDemas
<1>5. Cargas(e)'
  BY <1>1, <1>2, <1>3 DEF LugaresBien, Cargas, LoDemas
<1>6. \A x \in Consolas : finalizados'[x] # 0 => finalizados'[x] = 1 /\ e[x] \in {Ninguna, Salida}
  BY <1>1, <1>3, <1>4 DEF LugaresBien, Finales
<1>7. ASSUME NEW k \in CPUs, hilo'[k].pc = "terminado"
      PROVE  /\ e[hilo'[k].proceso] = Salida /\ finalizados'[hilo'[k].proceso] = 0
             /\ \A j \in CPUs : hilo'[j].pc = "terminado" /\ hilo'[j].proceso = hilo'[k].proceso => j = k
  <2>1. hilo[k].pc = "terminado" /\ hilo'[k].proceso = hilo[k].proceso
    BY <1>7 DEF LoDemas
  <2>2. donde[hilo[k].proceso] = Salida /\ finalizados[hilo[k].proceso] = 0
    BY <2>1 DEF LugaresBien, Finales
  <2>3. hilo[k].proceso \in Consolas \ {p}
    BY <2>1, <2>2 DEF Tipos, ManosDeHilos, ConProceso
  <2>4. e[hilo[k].proceso] = Salida /\ finalizados'[hilo[k].proceso] = 0
    BY <1>1, <1>3, <2>2, <2>3
  <2> QED
    BY <2>1, <2>4 DEF LugaresBien, Finales, LoDemas
<1>8. Finales(e)'
  BY <1>6, <1>7 DEF Finales
<1>9. SinRecarga'
  BY DEF LugaresBien, SinRecarga, LoDemas
<1>10. LugaresBien(e)'
  BY <1>1, <1>5, <1>8, <1>9, Trasladado DEF LugaresBien
<1> QED
  BY <1>1, <1>10 DEF ILugares

\* Nobody moves.
LEMMA QuietoEn ==
  ASSUME NEW donde \in [Consolas -> Casas], LugaresBien(donde), EnColas(donde)',
         UNCHANGED <<colas_semaforos, colas_ios, finalizados>>, pcp'.proceso = pcp.proceso,
         \A k \in CPUs : SigueCPU(k),
         \A h \in Manejadores : manejador'[h].proceso = manejador[h].proceso,
         \A x \in Consolas : /\ consola'[x].pc = "flag" <=> consola[x].pc = "flag"
                             /\ consola'[x].pc = "espera103" => consola[x].pc = "espera103"
                             /\ consola'[x].cargada = consola[x].cargada,
         ManosVacias', SinRecarga'
  PROVE  ILugares'
<1>1. EnSemaforos(donde)' /\ EnIOs(donde)' /\ EnPCP(donde)'
  BY DEF LugaresBien, EnSemaforos, EnIOs, EnPCP
<1>2. EnCPUs(donde)' /\ EnManejadores(donde)' /\ EnConsolas(donde)'
  BY DEF LugaresBien, EnCPUs, EnCPU, EnManejadores, EnManejador, EnConsolas, SigueCPU
<1>3. Cargas(donde)' /\ Finales(donde)'
  BY DEF LugaresBien, Cargas, Finales, SigueCPU
<1> QED
  BY <1>1, <1>2, <1>3 DEF LugaresBien, ILugares

LEMMA Quieto ==
  ASSUME ILugares, \A n \in Nombres : cola'[n] = cola[n],
         UNCHANGED <<colas_semaforos, colas_ios, finalizados>>, pcp'.proceso = pcp.proceso,
         \A k \in CPUs : SigueCPU(k),
         \A h \in Manejadores : manejador'[h].proceso = manejador[h].proceso,
         \A x \in Consolas : /\ consola'[x].pc = "flag" <=> consola[x].pc = "flag"
                             /\ consola'[x].pc = "espera103" => consola[x].pc = "espera103"
                             /\ consola'[x].cargada = consola[x].cargada,
         ManosVacias', SinRecarga'
  PROVE  ILugares'
<1>1. PICK donde \in [Consolas -> Casas] : LugaresBien(donde)
  BY DEF ILugares
<1>2. EnColas(donde)'
  BY <1>1 DEF LugaresBien, EnColas
<1> QED
  BY <1>1, <1>2, QuietoEn

-----------------------------------------------------------------------------
(* hilo_PLP and hilo_PCP.                                                   *)

\* There is always a function that says where they are after a move.
LEMMA Destino ==
  ASSUME NEW donde, LugaresBien(donde), NEW p \in Consolas, NEW b \in Casas
  PROVE  \E e : Mueve(donde, e, p, b)
<1>1. Mueve(donde, [donde EXCEPT ![p] = b], p, b)
  BY DEF LugaresBien, Mueve
<1> QED
  BY <1>1

\* The places of a kind that is neither where p was nor where it goes.
LEMMA Ajenos ==
  ASSUME NEW p, NEW b, NEW donde, NEW e, NEW l, donde[p] = l
  PROVE  /\ (\A n \in Nombres : cola'[n] = cola[n]) /\ l[1] \notin Nombres /\ b[1] \notin Nombres
              => TrasladoColas(donde, e, p, b)
         /\ UNCHANGED colas_semaforos /\ l[1] # "semaforo" /\ b[1] # "semaforo"
              => TrasladoSemaforos(donde, e, p, b)
         /\ UNCHANGED colas_ios /\ l[1] # "io" /\ b[1] # "io"
              => TrasladoIOs(donde, e, p, b)
         /\ UNCHANGED pcp /\ l[1] # "PCP" /\ b[1] # "PCP"
              => TrasladoPCP(donde, e, p, b)
         /\ (\A k \in CPUs : SigueCPU(k)) /\ l[1] # "CPU" /\ b[1] # "CPU"
              => TrasladoCPUs(donde, e, p, b)
         /\ UNCHANGED manejador /\ l[1] # "SIGRTMIN" /\ b[1] # "SIGRTMIN"
              => TrasladoManejadores(donde, e, p, b)
         /\ (\A x \in Consolas : consola'[x].pc = "flag" <=> consola[x].pc = "flag")
               /\ l[1] # "consola" /\ b[1] # "consola"
              => TrasladoConsolas(donde, e, p, b)
  BY DEF TrasladoColas, TrasladoSemaforos, TrasladoIOs, TrasladoPCP, TrasladoCPUs,
     TrasladoManejadores, TrasladoConsolas, Fuera

\* p enters the queue n of cola, from a place that is none of them.
LEMMA EntraEnCola ==
  ASSUME Tipos, NEW n \in Nombres, NEW p \in Consolas, NEW donde, NEW e, LugaresBien(donde),
         cola'[n] = Append(cola[n], p), \A m \in Nombres \ {n} : cola'[m] = cola[m],
         donde[p][1] \notin Nombres, Mueve(donde, e, p, <<n, 0>>)
  PROVE  TrasladoColas(donde, e, p, <<n, 0>>)
<1> DEFINE l == <<n, 0>>
<1>1. Vive(donde, cola[n], l) /\ donde[p] # l
  BY DEF LugaresBien, EnColas
<1>2. cola[n] \in Seq(Consolas \cup {NULO})
  BY DEF Nombres, Tipos, TiposDeHilos, TipoColas, Colas
<1>3. \A m \in Nombres \ {n} : Fuera(donde, p, l, <<m, 0>>)
  BY DEF Fuera
<1> HIDE DEF l
<1>4. Vive(e, Append(cola[n], p), l)
  BY <1>1, <1>2, Entra DEF l
<1> QED
  BY <1>3, <1>4 DEF TrasladoColas, l

\* p leaves the queue n of cola for a place that is none of them.
LEMMA SaleDeCola ==
  ASSUME Tipos, NEW n \in Nombres, NEW i \in 1..Len(cola[n]), NEW p \in Consolas,
         NEW b, NEW donde, NEW e, LugaresBien(donde), cola[n][i] = p,
         cola'[n] = RemoveAt(cola[n], i), \A m \in Nombres \ {n} : cola'[m] = cola[m],
         b[1] \notin Nombres, Mueve(donde, e, p, b)
  PROVE  TrasladoColas(donde, e, p, b) /\ donde[p] = <<n, 0>>
<1> DEFINE l == <<n, 0>>
<1>1. Vive(donde, cola[n], l) /\ b # l
  BY DEF LugaresBien, EnColas
<1>2. cola[n] \in Seq(Consolas \cup {NULO})
  BY DEF Nombres, Tipos, TiposDeHilos, TipoColas, Colas
<1> HIDE DEF l
<1>3. donde[p] = l
  BY <1>1, EstaEn
<1>4. Vive(e, RemoveAt(cola[n], i), l)
  BY <1>1, <1>2, Sale
<1>5. \A m \in Nombres \ {n} : Fuera(donde, p, b, <<m, 0>>)
  BY <1>3 DEF Fuera, l
<1> QED
  BY <1>3, <1>4, <1>5 DEF TrasladoColas, l

\* p enters the hands of the thread of the CPU k, that were empty.
LEMMA EntraEnCPU ==
  ASSUME NEW k \in CPUs, NEW p \in Consolas, NEW donde, NEW e, LugaresBien(donde),
         hilo[k].proceso = NULO, hilo'[k].proceso = p, hilo'[k].pc # "terminado",
         \A j \in CPUs \ {k} : hilo'[j] = hilo[j],
         donde[p][1] # "CPU", Mueve(donde, e, p, <<"CPU", k>>)
  PROVE  TrasladoCPUs(donde, e, p, <<"CPU", k>>)
<1>1. EnCPU(e, k)'
  BY ConstantesNucleo DEF LugaresBien, EnCPUs, EnCPU, Mueve
<1>2. \A j \in CPUs \ {k} : SigueCPU(j) /\ Fuera(donde, p, <<"CPU", k>>, <<"CPU", j>>)
  BY DEF SigueCPU, Fuera
<1> QED
  BY <1>1, <1>2 DEF TrasladoCPUs

\* p leaves them, for good or to be ended.
LEMMA SaleDeCPU ==
  ASSUME NEW k \in CPUs, NEW p \in Consolas, NEW b, NEW donde, NEW e, LugaresBien(donde),
         hilo[k].proceso = p, hilo[k].pc # "terminado",
         hilo'[k].proceso = NULO \/ hilo'[k].pc = "terminado",
         \A j \in CPUs \ {k} : hilo'[j] = hilo[j],
         b[1] # "CPU", Mueve(donde, e, p, b)
  PROVE  TrasladoCPUs(donde, e, p, b) /\ donde[p] = <<"CPU", k>>
<1>1. donde[p] = <<"CPU", k>>
  BY DEF LugaresBien, EnCPUs, EnCPU
<1>2. EnCPU(e, k)'
  BY ConstantesNucleo DEF LugaresBien, EnCPUs, EnCPU, Mueve
<1>3. \A j \in CPUs \ {k} : SigueCPU(j) /\ Fuera(donde, p, b, <<"CPU", j>>)
  BY <1>1 DEF SigueCPU, Fuera
<1> QED
  BY <1>1, <1>2, <1>3 DEF TrasladoCPUs

-----------------------------------------------------------------------------
(* hilo_PLP and hilo_PCP.                                                   *)

LEMMA PLPLugares ==
  ASSUME Tipos, ILugares, PLP, UNCHANGED principal
  PROVE  ILugares'
<1>1. PICK donde \in [Consolas -> Casas] : LugaresBien(donde)
  BY DEF ILugares
<1>2. cola.new \in Seq(Consolas) /\ cola.new # <<>>
  BY DEF PLP, Tipos, TiposDeHilos, TipoColas, Colas, Admision
<1>3. PICK p \in Consolas : p = Head(cola.new)
  BY <1>2
<1> DEFINE l == <<"new", 0>>
           b == <<"ready", 0>>
<1>4. PICK e : Mueve(donde, e, p, b)
  BY <1>1, Destino DEF Casas
<1>5. Vive(donde, cola.new, l) /\ Vive(donde, cola.ready, b) /\ l # b
  BY <1>1 DEF LugaresBien, EnColas, Nombres
<1>6. donde[p] = l
  BY <1>2, <1>3, <1>5 DEF Vive, Contains
<1>7. /\ cola'.new = Tail(cola.new) /\ cola'.ready = Append(cola.ready, p)
      /\ cola'.exec = cola.exec /\ cola'.exit = cola.exit
      /\ UNCHANGED <<colas_semaforos, colas_ios, pcp, hilo, manejador, consola, finalizados, recarga>>
  BY <1>3 DEF PLP, Tipos, TiposDeHilos, TipoColas, Colas, bloqueados, hilos, historia, principal
<1>8. TrasladoColas(donde, e, p, b)
  <2>1. Fuera(donde, p, b, <<"exec", 0>>) /\ Fuera(donde, p, b, <<"exit", 0>>)
    BY <1>6 DEF Fuera
  <2>2. cola.ready \in Seq(Consolas \cup {NULO})
    BY DEF Tipos, TiposDeHilos, TipoColas, Colas
  <2> HIDE DEF l, b
  <2>3. Vive(e, Tail(cola.new), l)
    BY <1>2, <1>3, <1>4, <1>5, SaleElPrimero
  <2>4. Vive(e, cola'.ready, b)
    BY <1>4, <1>5, <1>6, <1>7, <2>2, Entra
  <2> QED
    BY <1>7, <2>1, <2>3, <2>4 DEF TrasladoColas, Nombres, l, b
<1>9. Traslado(donde, e, p, b)
  BY <1>6, <1>7, <1>8, Ajenos DEF Traslado, SigueCPU
<1>10. ManosVacias'
  BY <1>1, <1>7 DEF LugaresBien, ManosVacias
<1>11. donde[p] \notin {Ninguna, Salida} /\ b # Ninguna
  BY <1>6 DEF Ninguna, Salida
<1> HIDE DEF b
<1>12. LoDemas(p, b)
  BY <1>7 DEF LoDemas
<1> QED
  BY <1>1, <1>4, <1>9, <1>10, <1>11, <1>12, Muda

\* The end of the NUCLEO moves nobody.
LEMMA MuereLugares ==
  ASSUME ILugares, NEW como, Muere(como), UNCHANGED recarga
  PROVE  ILugares'
<1>1. UNCHANGED <<cola, colas_semaforos, colas_ios, finalizados, pcp, hilo, manejador, consola, recarga>>
  BY DEF Muere, bloqueados, hilos
<1>2. ManosVacias /\ SinRecarga
  BY DEF ILugares, LugaresBien
<1>3. ManosVacias' /\ SinRecarga'
  BY <1>1, <1>2 DEF ManosVacias, SinRecarga
<1> QED
  BY <1>1, <1>3, Quieto DEF SigueCPU

LEMMA PCPEsperaLugares ==
  ASSUME Tipos, ILugares, PCPEspera, UNCHANGED principal
  PROVE  ILugares'
<1>1. /\ UNCHANGED <<cola, colas_semaforos, colas_ios, finalizados, hilo, manejador, consola, recarga>>
      /\ pcp'.proceso = pcp.proceso /\ pcp.pc = "espera"
  BY DEF PCPEspera, bloqueados, historia, principal, Tipos, TiposDeHilos, TipoHilos, EstadosPCP
<1>2. ManosVacias /\ SinRecarga
  BY DEF ILugares, LugaresBien
<1>3. ManosVacias' /\ SinRecarga'
  BY <1>1, <1>2 DEF ManosVacias, SinRecarga
<1> QED
  BY <1>1, <1>3, Quieto DEF SigueCPU

LEMMA PCPTomaLugares ==
  ASSUME Tipos, ILugares, PCPToma, UNCHANGED principal
  PROVE  ILugares'
<1>1. PICK donde \in [Consolas -> Casas] : LugaresBien(donde)
  BY DEF ILugares
<1>2. /\ cola.ready \in Seq(Consolas \cup {NULO}) /\ cola.ready # <<>>
      /\ Saca(cola.ready) = Head(cola.ready) /\ Resto(cola.ready) = Tail(cola.ready)
  BY DEF PCPToma, Saca, Resto, Vacia, Tipos, TiposDeHilos, TipoColas, Colas
<1>3. PICK p \in Consolas : p = Head(cola.ready)
  BY <1>2 DEF PCPToma
<1> DEFINE l == <<"ready", 0>>
           b == <<"PCP", 0>>
<1>4. PICK e : Mueve(donde, e, p, b)
  BY <1>1, Destino DEF Casas
<1>5. Vive(donde, cola.ready, l) /\ l # b
  BY <1>1 DEF LugaresBien, EnColas, Nombres
<1>6. donde[p] = l
  BY <1>2, <1>3, <1>5 DEF Vive, Contains
<1>7. /\ cola'.new = cola.new /\ cola'.ready = Tail(cola.ready)
      /\ cola'.exec = cola.exec /\ cola'.exit = cola.exit
      /\ pcp.pc = "toma" /\ pcp'.pc = "manda" /\ pcp'.proceso = p
      /\ UNCHANGED <<colas_semaforos, colas_ios, hilo, manejador, consola, finalizados, recarga>>
  BY <1>2, <1>3 DEF PCPToma, Tipos, TiposDeHilos, TipoColas, Colas, bloqueados, historia, principal
<1>8. TrasladoColas(donde, e, p, b)
  <2>1. \A n \in Nombres \ {"ready"} : Fuera(donde, p, b, <<n, 0>>)
    BY <1>6 DEF Fuera, Nombres
  <2> HIDE DEF l, b
  <2>2. Vive(e, Tail(cola.ready), l)
    BY <1>2, <1>3, <1>4, <1>5, SaleElPrimero
  <2> QED
    BY <1>7, <2>1, <2>2 DEF TrasladoColas, Nombres, l
<1>9. TrasladoPCP(donde, e, p, b)
  <2>1. pcp.proceso = NULO
    BY <1>1, <1>7 DEF LugaresBien, ManosVacias
  <2> QED
    BY <1>1, <1>4, <1>7, <2>1, ConstantesNucleo DEF TrasladoPCP, EnPCP, LugaresBien, Mueve
<1>10. Traslado(donde, e, p, b)
  BY <1>6, <1>7, <1>8, <1>9, Ajenos DEF Traslado, SigueCPU
<1>11. ManosVacias'
  BY <1>1, <1>7 DEF LugaresBien, ManosVacias
<1>12. donde[p] \notin {Ninguna, Salida} /\ b # Ninguna
  BY <1>6 DEF Ninguna, Salida
<1> HIDE DEF b
<1>13. LoDemas(p, b)
  BY <1>7 DEF LoDemas
<1> QED
  BY <1>1, <1>4, <1>10, <1>11, <1>12, <1>13, Muda

LEMMA MandarLugares ==
  ASSUME Tipos, ILugares, MandarAEjecutar, UNCHANGED principal
  PROVE  ILugares'
<1>1. PICK donde \in [Consolas -> Casas] : LugaresBien(donde)
  BY DEF ILugares
<1>2. PICK p \in Consolas : p = pcp.proceso
  BY DEF MandarAEjecutar, Tipos, ManosDeOtros
<1> DEFINE l == <<"PCP", 0>>
           b == <<"exec", 0>>
<1>3. PICK e : Mueve(donde, e, p, b)
  BY <1>1, Destino DEF Casas
<1>4. donde[p] = l
  BY <1>1, <1>2 DEF LugaresBien, EnPCP
<1>5. /\ cola'["exec"] = Append(cola["exec"], p)
      /\ \A n \in Nombres \ {"exec"} : cola'[n] = cola[n]
      /\ pcp'.pc = "espera" /\ pcp'.proceso = NULO
      /\ UNCHANGED <<colas_semaforos, colas_ios, hilo, manejador, consola, finalizados, recarga>>
  BY <1>2 DEF MandarAEjecutar, Tipos, TiposDeHilos, TipoColas, Colas, Nombres, bloqueados, historia,
     principal
<1>6. TrasladoColas(donde, e, p, b)
  BY <1>1, <1>3, <1>4, <1>5, EntraEnCola DEF Nombres
<1>7. TrasladoPCP(donde, e, p, b)
  BY <1>1, <1>2, <1>3, <1>4, <1>5, ConstantesNucleo DEF TrasladoPCP, EnPCP, LugaresBien, Mueve
<1>8. Traslado(donde, e, p, b)
  BY <1>4, <1>5, <1>6, <1>7, Ajenos DEF Traslado, SigueCPU
<1>9. ManosVacias'
  BY <1>1, <1>5 DEF LugaresBien, ManosVacias
<1>10. donde[p] \notin {Ninguna, Salida} /\ b # Ninguna
  BY <1>4 DEF Ninguna, Salida
<1> HIDE DEF b
<1>11. LoDemas(p, b)
  BY <1>5 DEF LoDemas
<1> QED
  BY <1>1, <1>3, <1>8, <1>9, <1>10, <1>11, Muda

LEMMA HiloPCPLugares ==
  ASSUME Tipos, ILugares, HiloPCP, UNCHANGED principal
  PROVE  ILugares'
<1>1. CASE PCPTomaNada
  BY <1>1, MuereLugares DEF PCPTomaNada, principal
<1> QED
  BY <1>1, PCPEsperaLugares, PCPTomaLugares, MandarLugares DEF HiloPCP

-----------------------------------------------------------------------------
(* hilo_CONEXION_CONSOLA.                                                   *)

LEMMA ConPasa ==
  ASSUME Tipos, NEW c \in Consolas, NEW pc, NEW i, ConPasaA(c, pc, i)
  PROVE  /\ consola'[c].pc = pc /\ consola'[c].cargada = consola[c].cargada
         /\ \A x \in Consolas \ {c} : consola'[x] = consola[x]
  BY DEF ConPasaA, Tipos, TiposDeHilos, TipoHilos, EstadosConsola

\* An abort puts in cola_exit a process that is in no queue of the scheduler.
LEMMA AbortarLugar ==
  ASSUME Tipos, NEW p \in Consolas, NEW donde, NEW e, LugaresBien(donde), Abortar(p),
         donde[p][1] \notin Nombres, Mueve(donde, e, p, Salida)
  PROVE  TrasladoColas(donde, e, p, Salida)
<1>1. /\ cola'["exit"] = Append(cola["exit"], p)
      /\ \A n \in Nombres \ {"exit"} : cola'[n] = cola[n]
  BY DEF Abortar, Tipos, TiposDeHilos, TipoColas, Colas, Nombres
<1>2. "exit" \in Nombres /\ Salida = <<"exit", 0>>
  BY DEF Nombres, Salida
<1> QED
  BY <1>1, <1>2, EntraEnCola

\* The steps of a console that only look.
LEMMA ConsolaQuieta ==
  ASSUME Tipos, ILugares, UNCHANGED principal, NEW c \in Consolas,
         NEW pc, NEW i, ConPasaA(c, pc, i), pc \notin {"flag", "espera103"},
         consola[c].pc # "flag",
         UNCHANGED <<cola, colas_semaforos, colas_ios, finalizados, pcp, hilo, manejador>>
  PROVE  ILugares'
<1>1. UNCHANGED recarga
  BY DEF principal
<1>2. ManosVacias /\ SinRecarga
  BY DEF ILugares, LugaresBien
<1>3. ManosVacias' /\ SinRecarga'
  BY <1>1, <1>2 DEF ManosVacias, SinRecarga
<1>4. \A x \in Consolas : /\ consola'[x].pc = "flag" <=> consola[x].pc = "flag"
                          /\ consola'[x].pc = "espera103" => consola[x].pc = "espera103"
                          /\ consola'[x].cargada = consola[x].cargada
  BY ConPasa
<1> QED
  BY <1>3, <1>4, Quieto DEF SigueCPU

LEMMA ConCargaOkLugares ==
  ASSUME Tipos, ILugares, NEW c \in Consolas, ConCargaOk(c), UNCHANGED principal
  PROVE  ILugares'
<1>1. PICK donde \in [Consolas -> Casas] : LugaresBien(donde)
  BY DEF ILugares
<1> DEFINE b == <<"new", 0>>
<1>2. PICK e : Mueve(donde, e, c, b)
  BY <1>1, Destino DEF Casas
<1>3. donde[c] = Ninguna /\ finalizados[c] = 0
  BY <1>1 DEF LugaresBien, Cargas, ConCargaOk
<1>4. /\ cola'["new"] = Append(cola["new"], c)
      /\ \A n \in Nombres \ {"new"} : cola'[n] = cola[n]
      /\ UNCHANGED <<colas_semaforos, colas_ios, pcp, hilo, manejador, finalizados, recarga>>
  BY DEF ConCargaOk, Tipos, TiposDeHilos, TipoColas, Colas, Nombres, bloqueados, historia, principal
<1>5. /\ consola'[c].pc = "lee" /\ consola'[c].cargada /\ consola[c].pc = "espera103"
      /\ \A x \in Consolas \ {c} : consola'[x] = consola[x]
  BY DEF ConCargaOk, Tipos, TiposDeHilos, TipoHilos, EstadosConsola
<1>6. TrasladoColas(donde, e, c, b)
  <2>1. donde[c][1] \notin Nombres /\ "new" \in Nombres
    BY <1>3 DEF Ninguna, Nombres
  <2> QED
    BY <1>1, <1>2, <1>4, <2>1, EntraEnCola
<1>7. Traslado(donde, e, c, b)
  BY <1>3, <1>4, <1>5, <1>6, Ajenos DEF Traslado, SigueCPU, Ninguna
<1>8. /\ EnColas(e)' /\ EnSemaforos(e)' /\ EnIOs(e)' /\ EnPCP(e)' /\ EnCPUs(e)'
      /\ EnManejadores(e)' /\ EnConsolas(e)'
  <2> HIDE DEF b
  <2> QED
    BY <1>1, <1>2, <1>7, Trasladado
<1>9. ManosVacias' /\ SinRecarga'
  BY <1>1, <1>4 DEF LugaresBien, ManosVacias, SinRecarga
<1>10. Cargas(e)'
  BY <1>1, <1>2, <1>4, <1>5 DEF LugaresBien, Cargas, Mueve, Ninguna
<1>11. Finales(e)'
  <2>1. ASSUME NEW k \in CPUs, hilo[k].pc = "terminado"
        PROVE  e[hilo[k].proceso] = Salida
    <3>1. donde[hilo[k].proceso] = Salida /\ hilo[k].proceso \in Consolas
      BY <1>1, <2>1 DEF LugaresBien, Finales, Tipos, ManosDeHilos, ConProceso
    <3>2. hilo[k].proceso # c
      BY <1>3, <3>1 DEF Ninguna, Salida
    <3> QED
      BY <1>2, <3>1, <3>2 DEF Mueve
  <2>2. \A x \in Consolas :
          finalizados[x] # 0 => finalizados[x] = 1 /\ e[x] \in {Ninguna, Salida}
    BY <1>1, <1>2, <1>3 DEF LugaresBien, Finales, Mueve
  <2> QED
    BY <1>1, <1>4, <2>1, <2>2 DEF LugaresBien, Finales
<1>12. LugaresBien(e)'
  BY <1>2, <1>8, <1>9, <1>10, <1>11 DEF LugaresBien, Mueve
<1> QED
  BY <1>2, <1>12 DEF ILugares, Mueve

LEMMA ConCargaFallaLugares ==
  ASSUME Tipos, ILugares, NEW c \in Consolas, ConCargaFalla(c), UNCHANGED principal
  PROVE  ILugares'
<1>1. PICK donde \in [Consolas -> Casas] : LugaresBien(donde)
  BY DEF ILugares
<1>2. donde[c] = Ninguna /\ finalizados[c] = 0 /\ ~consola[c].cargada
  BY <1>1 DEF LugaresBien, Cargas, ConCargaFalla
<1>3. UNCHANGED <<cola, colas_semaforos, colas_ios, pcp, hilo, manejador, recarga>>
  BY DEF ConCargaFalla, bloqueados, principal
<1>4. /\ consola'[c].pc = "fin" /\ ~consola'[c].cargada /\ consola[c].pc = "espera103"
      /\ \A x \in Consolas \ {c} : consola'[x] = consola[x]
  BY <1>2, ConPasa DEF ConCargaFalla
<1>5. finalizados'[c] = 1 /\ \A x \in Consolas \ {c} : finalizados'[x] = finalizados[x]
  BY <1>2 DEF ConCargaFalla, FinalizarEnUMC, Tipos, TiposDeHilos, TipoHistoria
<1>6. /\ EnColas(donde)' /\ EnSemaforos(donde)' /\ EnIOs(donde)' /\ EnPCP(donde)'
      /\ ManosVacias' /\ SinRecarga'
  BY <1>1, <1>3 DEF LugaresBien, EnColas, EnSemaforos, EnIOs, EnPCP, ManosVacias, SinRecarga
<1>7. EnCPUs(donde)' /\ EnManejadores(donde)'
  BY <1>1, <1>3 DEF LugaresBien, EnCPUs, EnCPU, EnManejadores, EnManejador
<1>8. EnConsolas(donde)'
  BY <1>1, <1>4 DEF LugaresBien, EnConsolas
<1>9. Cargas(donde)'
  BY <1>1, <1>4, <1>5 DEF LugaresBien, Cargas
<1>10. Finales(donde)'
  <2>1. ASSUME NEW k \in CPUs, hilo[k].pc = "terminado"
        PROVE  hilo[k].proceso \in Consolas \ {c}
    <3>1. donde[hilo[k].proceso] = Salida /\ hilo[k].proceso \in Consolas
      BY <1>1, <2>1 DEF LugaresBien, Finales, Tipos, ManosDeHilos, ConProceso
    <3> QED
      BY <1>2, <3>1 DEF Ninguna, Salida
  <2>2. \A x \in Consolas :
          finalizados'[x] # 0 => finalizados'[x] = 1 /\ donde[x] \in {Ninguna, Salida}
    BY <1>1, <1>2, <1>5 DEF LugaresBien, Finales
  <2> QED
    BY <1>1, <1>3, <1>5, <2>1, <2>2 DEF LugaresBien, Finales
<1>11. LugaresBien(donde)'
  BY <1>1, <1>6, <1>7, <1>8, <1>9, <1>10 DEF LugaresBien
<1> QED
  BY <1>11 DEF ILugares

LEMMA ConSacaReadyLugares ==
  ASSUME Tipos, ILugares, NEW c \in Consolas, ConSacaReady(c), UNCHANGED principal
  PROVE  ILugares'
<1>1. PICK donde \in [Consolas -> Casas] : LugaresBien(donde)
  BY DEF ILugares
<1> DEFINE l == <<"ready", 0>>
           b == <<"consola", 0>>
<1>2. PICK e : Mueve(donde, e, c, b)
  BY <1>1, Destino DEF Casas
<1>3. PICK i \in 1..Len(cola.ready) :
        cola.ready[i] = c /\ cola' = [cola EXCEPT !.ready = RemoveAt(@, i)]
  BY DEF ConSacaReady, EsPrimero
<1>4. /\ cola'["ready"] = RemoveAt(cola["ready"], i)
      /\ \A n \in Nombres \ {"ready"} : cola'[n] = cola[n]
      /\ UNCHANGED <<colas_semaforos, colas_ios, pcp, hilo, manejador, finalizados, recarga>>
  BY <1>3 DEF ConSacaReady, Tipos, TiposDeHilos, TipoColas, Colas, Nombres, bloqueados, historia,
     principal
<1>5. /\ consola'[c].pc = "flag" /\ consola[c].pc = "ready"
      /\ consola'[c].cargada = consola[c].cargada
      /\ \A x \in Consolas \ {c} : consola'[x] = consola[x]
  BY ConPasa DEF ConSacaReady
<1>6. "ready" \in Nombres /\ b[1] \notin Nombres
  BY DEF Nombres
<1>7. TrasladoColas(donde, e, c, b)
  BY <1>1, <1>2, <1>3, <1>4, <1>6, SaleDeCola
<1>8. donde[c] = l
  BY <1>1, <1>3, <1>6, EstaEn DEF LugaresBien, EnColas
<1>9. TrasladoConsolas(donde, e, c, b)
  BY <1>1, <1>2, <1>5 DEF TrasladoConsolas, LugaresBien, EnConsolas, Mueve
<1>10. Traslado(donde, e, c, b)
  BY <1>4, <1>7, <1>8, <1>9, Ajenos DEF Traslado, SigueCPU
<1>11. ManosVacias'
  BY <1>1, <1>4 DEF LugaresBien, ManosVacias
<1>12. donde[c] \notin {Ninguna, Salida} /\ b # Ninguna
  BY <1>8 DEF Ninguna, Salida
<1> HIDE DEF b
<1>13. LoDemas(c, b)
  BY <1>4, <1>5 DEF LoDemas
<1> QED
  BY <1>1, <1>2, <1>10, <1>11, <1>12, <1>13, Muda

LEMMA ConSubeFlagLugares ==
  ASSUME Tipos, ILugares, NEW c \in Consolas, ConSubeFlag(c), UNCHANGED principal
  PROVE  ILugares'
<1>1. PICK donde \in [Consolas -> Casas] : LugaresBien(donde)
  BY DEF ILugares
<1>2. PICK e : Mueve(donde, e, c, Salida)
  BY <1>1, Destino DEF Casas, Salida
<1>3. donde[c] = <<"consola", 0>>
  BY <1>1 DEF LugaresBien, EnConsolas, ConSubeFlag
<1>4. TrasladoColas(donde, e, c, Salida)
  BY <1>1, <1>2, <1>3, AbortarLugar DEF ConSubeFlag, Nombres
<1>5. UNCHANGED <<colas_semaforos, colas_ios, pcp, hilo, manejador, recarga>>
  BY DEF ConSubeFlag, bloqueados, principal
<1>6. /\ consola'[c].pc = "fin" /\ consola'[c].cargada = consola[c].cargada
      /\ \A x \in Consolas \ {c} : consola'[x] = consola[x]
  BY ConPasa DEF ConSubeFlag
<1>7. TrasladoConsolas(donde, e, c, Salida)
  BY <1>1, <1>2, <1>6 DEF TrasladoConsolas, LugaresBien, EnConsolas, Mueve, Salida
<1>8. Traslado(donde, e, c, Salida)
  BY <1>3, <1>4, <1>5, <1>7, Ajenos DEF Traslado, SigueCPU, Salida
<1>9. ManosVacias'
  BY <1>1, <1>5 DEF LugaresBien, ManosVacias
<1>10. donde[c] \notin {Ninguna, Salida} /\ Salida # Ninguna
  BY <1>3 DEF Ninguna, Salida
<1>11. LoDemas(c, Salida)
  BY <1>5, <1>6 DEF LoDemas, ConSubeFlag, Abortar
<1> QED
  BY <1>1, <1>2, <1>8, <1>9, <1>10, <1>11, Muda

LEMMA ConSacaSemaforoLugares ==
  ASSUME Tipos, ILugares, NEW c \in Consolas, ConSacaSemaforo(c), UNCHANGED principal
  PROVE  ILugares'
<1>1. PICK donde \in [Consolas -> Casas] : LugaresBien(donde)
  BY DEF ILugares
<1>2. PICK e : Mueve(donde, e, c, Salida)
  BY <1>1, Destino DEF Casas, Salida
<1>3. PICK s \in Semaforos : s = consola[c].i
  BY DEF ConSacaSemaforo
<1> DEFINE l == <<"semaforo", s>>
<1>4. PICK i \in 1..Len(colas_semaforos[s]) :
        /\ colas_semaforos[s][i] = c
        /\ colas_semaforos' = [colas_semaforos EXCEPT ![s] = RemoveAt(@, i)]
  BY <1>3 DEF ConSacaSemaforo, EsPrimero
<1>5. Vive(donde, colas_semaforos[s], l) /\ colas_semaforos[s] \in Seq(Consolas)
  BY <1>1 DEF LugaresBien, EnSemaforos, Tipos, TiposDeHilos, TipoBloqueados
<1>6. donde[c] = l
  BY <1>4, <1>5 DEF Vive, Contains
<1>7. TrasladoColas(donde, e, c, Salida)
  BY <1>1, <1>2, <1>6, AbortarLugar DEF ConSacaSemaforo, Nombres
<1>8. TrasladoSemaforos(donde, e, c, Salida)
  <2>1. Vive(e, RemoveAt(colas_semaforos[s], i), l)
    <3>1. Salida # l
      BY DEF Salida
    <3> HIDE DEF l
    <3> QED
      BY <1>2, <1>4, <1>5, <3>1, Sale
  <2>2. /\ colas_semaforos'[s] = RemoveAt(colas_semaforos[s], i)
        /\ \A t \in Semaforos \ {s} : colas_semaforos'[t] = colas_semaforos[t]
    BY <1>4 DEF Tipos, TiposDeHilos, TipoBloqueados
  <2> QED
    BY <1>6, <2>1, <2>2 DEF TrasladoSemaforos, Fuera, Salida
<1>9. UNCHANGED <<colas_ios, pcp, hilo, manejador, recarga>>
  BY DEF ConSacaSemaforo, principal
<1>10. /\ consola'[c].pc = "fin" /\ consola'[c].cargada = consola[c].cargada
       /\ consola[c].pc = "semaforos" /\ \A x \in Consolas \ {c} : consola'[x] = consola[x]
  BY ConPasa DEF ConSacaSemaforo
<1>11. Traslado(donde, e, c, Salida)
  BY <1>6, <1>7, <1>8, <1>9, <1>10, Ajenos DEF Traslado, SigueCPU, Salida
<1>12. ManosVacias'
  BY <1>1, <1>9 DEF LugaresBien, ManosVacias
<1>13. donde[c] \notin {Ninguna, Salida} /\ Salida # Ninguna
  BY <1>6 DEF Ninguna, Salida
<1>14. LoDemas(c, Salida)
  BY <1>9, <1>10 DEF LoDemas, ConSacaSemaforo, Abortar
<1> QED
  BY <1>1, <1>2, <1>11, <1>12, <1>13, <1>14, Muda

LEMMA ConSacaIOLugares ==
  ASSUME Tipos, ILugares, NEW c \in Consolas, ConSacaIO(c), UNCHANGED principal
  PROVE  ILugares'
<1>1. PICK donde \in [Consolas -> Casas] : LugaresBien(donde)
  BY DEF ILugares
<1>2. PICK d \in IOs : d = consola[c].i
  BY DEF ConSacaIO, Tipos, ManosDeConsolas
<1>3. UNCHANGED <<colas_semaforos, pcp, hilo, manejador, recarga>>
  BY DEF ConSacaIO, principal
<1>4. /\ consola'[c].pc = "ios" /\ consola'[c].cargada = consola[c].cargada
      /\ consola[c].pc = "sacaIO" /\ \A x \in Consolas \ {c} : consola'[x] = consola[x]
  BY ConPasa DEF ConSacaIO
<1>5. CASE UNCHANGED <<cola, colas_ios, finalizados>>
  BY <1>3, <1>5, ConsolaQuieta DEF ConSacaIO
<1>6. ASSUME NEW i \in 1..Len(colas_ios[d]), colas_ios[d][i] = c,
             colas_ios' = [colas_ios EXCEPT ![d] = RemoveAt(@, i)], Abortar(c)
      PROVE  ILugares'
  <2> DEFINE l == <<"io", d>>
  <2>1. PICK e : Mueve(donde, e, c, Salida)
    BY <1>1, Destino DEF Casas, Salida
  <2>2. Vive(donde, colas_ios[d], l) /\ colas_ios[d] \in Seq(Consolas)
    BY <1>1 DEF LugaresBien, EnIOs, Tipos, TiposDeHilos, TipoBloqueados
  <2>3. donde[c] = l
    BY <1>6, <2>2 DEF Vive, Contains
  <2>4. TrasladoColas(donde, e, c, Salida)
    BY <1>1, <1>6, <2>1, <2>3, AbortarLugar DEF Nombres
  <2>5. TrasladoIOs(donde, e, c, Salida)
    <3>1. Salida # l
      BY DEF Salida
    <3> HIDE DEF l
    <3>2. Vive(e, RemoveAt(colas_ios[d], i), l)
      BY <1>6, <2>1, <2>2, <3>1, Sale
    <3>3. /\ colas_ios'[d] = RemoveAt(colas_ios[d], i)
          /\ \A t \in IOs \ {d} : colas_ios'[t] = colas_ios[t]
      BY <1>6 DEF Tipos, TiposDeHilos, TipoBloqueados
    <3> QED
      BY <2>3, <3>2, <3>3 DEF TrasladoIOs, Fuera, Salida, l
  <2>6. Traslado(donde, e, c, Salida)
    BY <1>3, <1>4, <2>3, <2>4, <2>5, Ajenos DEF Traslado, SigueCPU, Salida
  <2>7. ManosVacias'
    BY <1>1, <1>3 DEF LugaresBien, ManosVacias
  <2>8. donde[c] \notin {Ninguna, Salida} /\ Salida # Ninguna
    BY <2>3 DEF Ninguna, Salida
  <2>9. LoDemas(c, Salida)
    BY <1>3, <1>4, <1>6 DEF LoDemas, Abortar
  <2> QED
    BY <1>1, <2>1, <2>6, <2>7, <2>8, <2>9, Muda
<1> QED
  BY <1>2, <1>5, <1>6 DEF ConSacaIO, EsPrimero

LEMMA HiloConsolaLugares ==
  ASSUME Tipos, ILugares, NEW c \in Consolas, HiloConsola(c), UNCHANGED principal
  PROVE  ILugares'
<1>1. CASE ConBuscaNulo(c)
  BY <1>1, MuereLugares DEF ConBuscaNulo, principal
<1>2. ASSUME ConDesconecta(c) \/ ConNoEstaEnReady(c) \/ ConBuscaExec(c) \/ ConMarca(c)
               \/ ConSiguienteSemaforo(c) \/ ConMiraIO(c) \/ ConMarcaIO(c) \/ ConArmaIO(c)
               \/ ConTermina(c)
      PROVE  ILugares'
  <2>1. /\ UNCHANGED <<cola, colas_semaforos, colas_ios, finalizados, pcp, hilo, manejador>>
        /\ consola[c].pc # "flag"
    BY <1>2 DEF ConDesconecta, ConNoEstaEnReady, ConBuscaExec, ConMarca, ConSiguienteSemaforo,
       ConMiraIO, ConMarcaIO, ConArmaIO, ConTermina, bloqueados, historia
  <2> DEFINE Pasos == {"fin", "ready", "exec", "marca", "semaforos", "ios", "marcaIO", "armaIO",
                       "sacaIO"}
  <2>2. \E pc \in Pasos : \E i : ConPasaA(c, pc, i)
    BY <1>2 DEF ConDesconecta, ConNoEstaEnReady, ConBuscaExec, ConMarca, ConSiguienteSemaforo,
       ConMiraIO, ConMarcaIO, ConArmaIO, ConTermina
  <2>3. PICK pc \in Pasos : \E i : ConPasaA(c, pc, i)
    BY <2>2
  <2>4. PICK i : ConPasaA(c, pc, i)
    BY <2>3
  <2> QED
    BY <2>1, <2>3, <2>4, ConsolaQuieta
<1> QED
  BY <1>1, <1>2, ConCargaOkLugares, ConCargaFallaLugares, ConSacaReadyLugares,
     ConSubeFlagLugares, ConSacaSemaforoLugares, ConSacaIOLugares DEF HiloConsola

-----------------------------------------------------------------------------
(* hilo_CONEXION_CPU.                                                       *)

\* A thread that is not in the middle of ending a process is left with no
\* process, or with one if it is where it uses it.
LEMMA ManosDelHilo ==
  ASSUME NEW donde, LugaresBien(donde), NEW k \in CPUs,
         \A j \in CPUs \ {k} : hilo'[j] = hilo[j],
         hilo'[k].pc \notin ConProceso \cup {"343pone"} => hilo'[k].proceso = NULO,
         UNCHANGED <<pcp, manejador>>
  PROVE  ManosVacias'
  BY DEF LugaresBien, ManosVacias

\* The steps of a thread of a CPU that only look.
LEMMA HiloQuieto ==
  ASSUME Tipos, ILugares, UNCHANGED principal, NEW k \in CPUs,
         hilo'[k].proceso = hilo[k].proceso,
         hilo[k].pc # "terminado" /\ hilo'[k].pc # "terminado",
         hilo[k].pc # "343pone", hilo[k].pc \in ConProceso => hilo'[k].pc \in ConProceso,
         \A j \in CPUs \ {k} : hilo'[j] = hilo[j],
         \A n \in Nombres : cola'[n] = cola[n],
         UNCHANGED <<colas_semaforos, colas_ios, finalizados, pcp, consola, manejador>>
  PROVE  ILugares'
<1>1. PICK donde \in [Consolas -> Casas] : LugaresBien(donde)
  BY DEF ILugares
<1>2. ManosVacias'
  <2>1. hilo'[k].pc \notin ConProceso \cup {"343pone"} => hilo'[k].proceso = NULO
    BY <1>1 DEF LugaresBien, ManosVacias
  <2> QED
    BY <1>1, <2>1, ManosDelHilo
<1>3. SinRecarga'
  BY <1>1 DEF LugaresBien, SinRecarga, principal
<1>4. \A j \in CPUs : SigueCPU(j)
  BY DEF SigueCPU
<1> QED
  BY <1>2, <1>3, <1>4, Quieto

\* p goes from the hands of a CPU's thread, that it leaves, to a queue of cola.
LEMMA DelHiloACola ==
  ASSUME Tipos, ILugares, UNCHANGED principal, NEW k \in CPUs, NEW p \in Consolas,
         hilo[k].proceso = p, hilo[k].pc # "terminado",
         NEW pc \in {"recibe", "libera", "recorre"}, CpuSuelta(k, pc),
         NEW n \in Nombres, cola'[n] = Append(cola[n], p),
         \A m \in Nombres \ {n} : cola'[m] = cola[m],
         \/ UNCHANGED finalizados
         \/ n = "exit" /\ FinalizarEnUMC(p),
         UNCHANGED <<colas_semaforos, colas_ios, pcp, consola, manejador>>
  PROVE  ILugares'
<1>1. PICK donde \in [Consolas -> Casas] : LugaresBien(donde)
  BY DEF ILugares
<1> DEFINE b == <<n, 0>>
<1>2. PICK e : Mueve(donde, e, p, b)
  BY <1>1, Destino DEF Casas, Nombres
<1>3. /\ hilo'[k].pc = pc /\ hilo'[k].proceso = NULO
      /\ \A j \in CPUs \ {k} : hilo'[j] = hilo[j]
  BY DEF CpuSuelta, Tipos, TiposDeHilos, TipoHilos, EstadosHilo
<1>4. b[1] # "CPU"
  BY DEF Nombres
<1>5. TrasladoCPUs(donde, e, p, b) /\ donde[p] = <<"CPU", k>>
  <2>1. donde[p] = <<"CPU", k>>
    BY <1>1 DEF LugaresBien, EnCPUs, EnCPU
  <2> HIDE DEF b
  <2>2. TrasladoCPUs(donde, e, p, b)
    BY <1>1, <1>2, <1>3, <1>4, SaleDeCPU
  <2> QED
    BY <2>1, <2>2
<1>6. TrasladoColas(donde, e, p, b)
  <2>1. donde[p][1] \notin Nombres
    BY <1>5 DEF Nombres
  <2> QED
    BY <1>1, <1>2, <2>1, EntraEnCola
<1>7. Traslado(donde, e, p, b)
  BY <1>5, <1>6, Ajenos DEF Traslado, Nombres
<1>8. ManosVacias'
  BY <1>1, <1>3, ManosDelHilo
<1>9. donde[p] \notin {Ninguna, Salida} /\ b # Ninguna
  BY <1>5 DEF Ninguna, Salida, Nombres
<1>10. LoDemas(p, b)
  <2>1. n = "exit" => b = Salida
    BY DEF Salida
  <2> HIDE DEF b
  <2> QED
    BY <1>3, <2>1 DEF LoDemas, principal
<1> HIDE DEF b
<1> QED
  BY <1>1, <1>2, <1>7, <1>8, <1>9, <1>10, Muda

\* The process of a CPU goes from cola_exec to the hands of its thread.
LEMMA DeExecAlHilo ==
  ASSUME Tipos, ILugares, UNCHANGED principal, NEW k \in CPUs, NEW i \in 1..Len(cola.exec),
         cola.exec[i] \in Consolas, cola' = [cola EXCEPT !.exec = RemoveAt(@, i)],
         hilo[k].pc = "recibe", hilo'[k].pc \in Entregas \cup {"aborta"},
         hilo'[k].proceso = cola.exec[i], \A j \in CPUs \ {k} : hilo'[j] = hilo[j],
         UNCHANGED <<colas_semaforos, colas_ios, pcp, consola, manejador, finalizados>>
  PROVE  ILugares'
<1>1. PICK donde \in [Consolas -> Casas] : LugaresBien(donde)
  BY DEF ILugares
<1>2. PICK p \in Consolas : p = cola.exec[i]
  OBVIOUS
<1> DEFINE l == <<"exec", 0>>
           b == <<"CPU", k>>
<1>3. PICK e : Mueve(donde, e, p, b)
  BY <1>1, Destino DEF Casas
<1>4. donde[p] = l
  BY <1>1, <1>2 DEF LugaresBien, EnColas, Nombres, Vive, Contains
<1>5. /\ cola'["exec"] = RemoveAt(cola["exec"], i)
      /\ \A n \in Nombres \ {"exec"} : cola'[n] = cola[n]
  BY DEF Tipos, TiposDeHilos, TipoColas, Colas, Nombres
<1>6. TrasladoColas(donde, e, p, b)
  <2>1. "exec" \in Nombres /\ b[1] \notin Nombres
    BY DEF Nombres
  <2> QED
    BY <1>1, <1>2, <1>3, <1>5, <2>1, SaleDeCola
<1>7. TrasladoCPUs(donde, e, p, b)
  <2>1. hilo[k].proceso = NULO
    BY <1>1 DEF LugaresBien, ManosVacias, ConProceso
  <2>2. hilo'[k].pc # "terminado" /\ donde[p][1] # "CPU"
    BY <1>4 DEF Entregas
  <2> QED
    BY <1>1, <1>2, <1>3, <2>1, <2>2, EntraEnCPU
<1>8. Traslado(donde, e, p, b)
  BY <1>4, <1>6, <1>7, Ajenos DEF Traslado
<1>9. ManosVacias'
  <2>1. hilo'[k].pc \in ConProceso
    BY DEF Entregas, ConProceso
  <2> QED
    BY <1>1, <2>1, ManosDelHilo
<1>10. donde[p] \notin {Ninguna, Salida} /\ b # Ninguna
  BY <1>4 DEF Ninguna, Salida
<1> HIDE DEF b
<1>11. LoDemas(p, b)
  BY DEF LoDemas, Entregas, principal
<1> QED
  BY <1>1, <1>3, <1>8, <1>9, <1>10, <1>11, Muda

LEMMA DevuelveLugares ==
  ASSUME Tipos, ILugares, NEW k \in CPUs, CpuTomaYDevuelve(k), UNCHANGED principal
  PROVE  ILugares'
<1>1. PICK donde \in [Consolas -> Casas] : LugaresBien(donde)
  BY DEF ILugares
<1>2. PICK i \in 1..Len(cola.exec) :
        /\ cola.exec[i] \in Consolas
        /\ cola' = [cola EXCEPT !.exec = Append(RemoveAt(@, i), cola.exec[i])]
  BY DEF CpuTomaYDevuelve, EsSuProceso, EsPrimero
<1>3. PICK p \in Consolas : p = cola.exec[i]
  BY <1>2
<1> DEFINE l == <<"exec", 0>>
           q == RemoveAt(cola.exec, i)
<1>4. PICK e : Mueve(donde, e, p, Ninguna)
  BY <1>1, Destino DEF Casas, Ninguna
<1>5. Vive(donde, cola.exec, l) /\ cola.exec \in Seq(Consolas) /\ l # Ninguna
  BY <1>1 DEF LugaresBien, EnColas, Nombres, Tipos, TiposDeHilos, TipoColas, Colas, Ninguna
<1>6. donde[p] = l
  BY <1>3, <1>5 DEF Vive, Contains
<1>7. q \in Seq(Consolas)
  BY <1>5, RemoveAtElementos
<1> HIDE DEF l
<1>8. Vive(e, q, l)
  BY <1>3, <1>4, <1>5, Sale
<1>9. Mueve(e, donde, p, l) /\ e[p] # l
  BY <1>1, <1>4, <1>5, <1>6 DEF Mueve
<1>10. Vive(donde, Append(q, p), l)
  <2> HIDE DEF q
  <2> QED
    BY <1>7, <1>8, <1>9, Entra
<1>11. EnColas(donde)'
  <2>1. /\ cola'["exec"] = Append(q, p)
        /\ \A n \in Nombres \ {"exec"} : cola'[n] = cola[n]
    BY <1>2, <1>3 DEF Tipos, TiposDeHilos, TipoColas, Colas, Nombres
  <2>2. ASSUME NEW n \in Nombres PROVE Vive(donde, cola'[n], <<n, 0>>)
    BY <1>1, <1>10, <2>1 DEF LugaresBien, EnColas, l
  <2> QED
    BY <2>2 DEF EnColas
<1>12. /\ hilo'[k].proceso = hilo[k].proceso /\ hilo[k].pc = "recibe"
       /\ hilo'[k].pc \in Consultas \cup {"recibe"}
       /\ \A j \in CPUs \ {k} : hilo'[j] = hilo[j]
  BY DEF CpuTomaYDevuelve, Tipos, TiposDeHilos, TipoHilos, EstadosHilo
<1>13. UNCHANGED <<colas_semaforos, colas_ios, pcp, consola, manejador, finalizados, recarga>>
  BY DEF CpuTomaYDevuelve, bloqueados, historia, principal
<1>14. ManosVacias' /\ SinRecarga'
  BY <1>1, <1>12, <1>13 DEF LugaresBien, ManosVacias, SinRecarga, Consultas, ConProceso
<1>15. \A j \in CPUs : SigueCPU(j)
  BY <1>12 DEF SigueCPU, Consultas
<1> QED
  BY <1>1, <1>11, <1>13, <1>14, <1>15, QuietoEn

\* 320 and 370: the process is in cola_exit, and FINALIZAR is still to be sent.
LEMMA Cpu320Y370Lugares ==
  ASSUME Tipos, ILugares, NEW k \in CPUs, Cpu320Y370(k), UNCHANGED principal
  PROVE  ILugares'
<1>1. PICK donde \in [Consolas -> Casas] : LugaresBien(donde)
  BY DEF ILugares
<1>2. PICK p \in Consolas : p = hilo[k].proceso
  BY DEF Cpu320Y370, Tipos, ManosDeHilos, ConProceso
<1>3. PICK e : Mueve(donde, e, p, Salida)
  BY <1>1, Destino DEF Casas, Salida
<1>4. /\ hilo'[k].pc = "terminado" /\ hilo'[k].proceso = p /\ hilo[k].pc # "terminado"
      /\ \A j \in CPUs \ {k} : hilo'[j] = hilo[j]
  BY <1>2 DEF Cpu320Y370, CpuPasaA, Tipos, TiposDeHilos, TipoHilos, EstadosHilo
<1>5. /\ cola'["exit"] = Append(cola["exit"], p)
      /\ \A n \in Nombres \ {"exit"} : cola'[n] = cola[n]
      /\ UNCHANGED <<colas_semaforos, colas_ios, pcp, consola, manejador, finalizados, recarga>>
  BY <1>2 DEF Cpu320Y370, Tipos, TiposDeHilos, TipoColas, Colas, Nombres, bloqueados, historia,
     principal
<1>6. donde[p] = <<"CPU", k>>
  BY <1>1, <1>2, <1>4 DEF LugaresBien, EnCPUs, EnCPU
<1>7. TrasladoCPUs(donde, e, p, Salida)
  <2>1. Salida[1] # "CPU"
    BY DEF Salida
  <2> QED
    BY <1>1, <1>2, <1>3, <1>4, <2>1, SaleDeCPU
<1>8. TrasladoColas(donde, e, p, Salida)
  <2>1. donde[p][1] \notin Nombres /\ "exit" \in Nombres /\ Salida = <<"exit", 0>>
    BY <1>6 DEF Nombres, Salida
  <2> QED
    BY <1>1, <1>3, <1>5, <2>1, EntraEnCola
<1>9. Traslado(donde, e, p, Salida)
  BY <1>5, <1>6, <1>7, <1>8, Ajenos DEF Traslado, Salida
<1>10. /\ EnColas(e)' /\ EnSemaforos(e)' /\ EnIOs(e)' /\ EnPCP(e)' /\ EnCPUs(e)'
       /\ EnManejadores(e)' /\ EnConsolas(e)'
  BY <1>1, <1>3, <1>9, Trasladado
<1>11. ManosVacias' /\ SinRecarga'
  BY <1>1, <1>4, <1>5 DEF LugaresBien, ManosVacias, SinRecarga, ConProceso
<1>12. donde[p] \notin {Ninguna, Salida} /\ Salida # Ninguna
  BY <1>6 DEF Ninguna, Salida
<1>13. Cargas(e)'
  BY <1>1, <1>3, <1>5, <1>12 DEF LugaresBien, Cargas, Mueve
<1>14. Finales(e)'
  <2>1. \A x \in Consolas :
          finalizados[x] # 0 => finalizados[x] = 1 /\ e[x] \in {Ninguna, Salida}
    BY <1>1, <1>3 DEF LugaresBien, Finales, Mueve
  <2>2. ASSUME NEW j \in CPUs, hilo[j].pc = "terminado"
        PROVE  hilo[j].proceso \in Consolas \ {p} /\ e[hilo[j].proceso] = Salida
    <3>1. donde[hilo[j].proceso] = Salida /\ hilo[j].proceso \in Consolas
      BY <1>1, <2>2 DEF LugaresBien, Finales, Tipos, ManosDeHilos, ConProceso
    <3> QED
      BY <1>3, <1>12, <3>1 DEF Mueve
  <2>3. finalizados[p] = 0 /\ e[p] = Salida
    BY <1>1, <1>3, <1>12 DEF LugaresBien, Finales, Mueve
  <2>4. ASSUME NEW j \in CPUs, hilo'[j].pc = "terminado"
        PROVE  /\ e[hilo'[j].proceso] = Salida /\ finalizados[hilo'[j].proceso] = 0
               /\ \A m \in CPUs : hilo'[m].pc = "terminado" /\ hilo'[m].proceso = hilo'[j].proceso => m = j
    <3>1. CASE j = k
      BY <1>4, <2>2, <2>3, <3>1
    <3>2. CASE j # k
      BY <1>1, <1>4, <2>2, <2>4, <3>2 DEF LugaresBien, Finales
    <3> QED
      BY <3>1, <3>2
  <2> QED
    BY <1>5, <2>1, <2>4 DEF Finales
<1>15. LugaresBien(e)'
  BY <1>3, <1>10, <1>11, <1>13, <1>14 DEF LugaresBien, Mueve
<1> QED
  BY <1>3, <1>15 DEF ILugares, Mueve

LEMMA CpuTerminadoLugares ==
  ASSUME Tipos, ILugares, NEW k \in CPUs, CpuTerminado(k), UNCHANGED principal
  PROVE  ILugares'
<1>1. PICK donde \in [Consolas -> Casas] : LugaresBien(donde)
  BY DEF ILugares
<1>2. PICK p \in Consolas : p = hilo[k].proceso
  BY DEF CpuTerminado, Tipos, ManosDeHilos, ConProceso
<1>3. donde[p] = Salida /\ finalizados[p] = 0 /\ hilo[k].pc = "terminado"
  BY <1>1, <1>2 DEF LugaresBien, Finales, CpuTerminado
<1>4. /\ hilo'[k].pc = "recibe" /\ hilo'[k].proceso = NULO
      /\ \A j \in CPUs \ {k} : hilo'[j] = hilo[j]
  BY DEF CpuTerminado, CpuSuelta, Tipos, TiposDeHilos, TipoHilos, EstadosHilo
<1>5. /\ \A n \in Nombres : cola'[n] = cola[n]
      /\ UNCHANGED <<colas_semaforos, colas_ios, pcp, consola, manejador, recarga>>
  BY DEF CpuTerminado, LiberaCPU, Tipos, TiposDeHilos, TipoColas, Colas, Nombres, bloqueados,
     principal
<1>6. finalizados'[p] = 1 /\ \A x \in Consolas \ {p} : finalizados'[x] = finalizados[x]
  BY <1>2, <1>3 DEF CpuTerminado, FinalizarEnUMC, Tipos, TiposDeHilos, TipoHistoria
<1>7. EnColas(donde)'
  BY <1>1, <1>5 DEF LugaresBien, EnColas
<1>8. EnSemaforos(donde)' /\ EnIOs(donde)' /\ EnPCP(donde)' /\ EnConsolas(donde)'
  BY <1>1, <1>5 DEF LugaresBien, EnSemaforos, EnIOs, EnPCP, EnConsolas
<1>9. EnManejadores(donde)'
  BY <1>1, <1>5 DEF LugaresBien, EnManejadores, EnManejador
<1>10. EnCPUs(donde)'
  <2>1. EnCPU(donde, k)'
    BY <1>1, <1>3, <1>4, ConstantesNucleo DEF LugaresBien, EnCPUs, EnCPU
  <2>2. \A j \in CPUs \ {k} : EnCPU(donde, j)'
    BY <1>1, <1>4 DEF LugaresBien, EnCPUs, EnCPU
  <2> QED
    BY <2>1, <2>2 DEF EnCPUs
<1>11. ManosVacias' /\ SinRecarga'
  BY <1>1, <1>4, <1>5 DEF LugaresBien, ManosVacias, SinRecarga
<1>12. Cargas(donde)'
  BY <1>1, <1>3, <1>5, <1>6 DEF LugaresBien, Cargas, Ninguna, Salida
<1>13. Finales(donde)'
  <2>1. \A x \in Consolas :
          finalizados'[x] # 0 => finalizados'[x] = 1 /\ donde[x] \in {Ninguna, Salida}
    BY <1>1, <1>3, <1>6 DEF LugaresBien, Finales
  <2>2. ASSUME NEW j \in CPUs, hilo'[j].pc = "terminado"
        PROVE  /\ j # k /\ hilo'[j] = hilo[j] /\ hilo[j].proceso \in Consolas \ {p}
               /\ donde[hilo[j].proceso] = Salida /\ finalizados[hilo[j].proceso] = 0
    <3>1. j # k /\ hilo'[j] = hilo[j] /\ hilo[j].pc = "terminado"
      BY <1>4, <2>2
    <3>2. hilo[j].proceso # p
      BY <1>1, <1>2, <1>3, <3>1 DEF LugaresBien, Finales
    <3> QED
      BY <1>1, <3>1, <3>2 DEF LugaresBien, Finales, Tipos, ManosDeHilos, ConProceso
  <2> QED
    BY <1>1, <1>6, <2>1, <2>2 DEF LugaresBien, Finales
<1>14. LugaresBien(donde)'
  BY <1>1, <1>7, <1>8, <1>9, <1>10, <1>11, <1>12, <1>13 DEF LugaresBien
<1> QED
  BY <1>14 DEF ILugares

\* The steps that let go of a process that goes on: 304, 341 granted, 343, and
\* those that abort it.
LEMMA SueltanLugares ==
  ASSUME Tipos, ILugares, NEW k \in CPUs, UNCHANGED principal,
         Cpu304(k) \/ Cpu341Concede(k) \/ Cpu380Aborta(k) \/ CpuCaeAborta(k)
  PROVE  ILugares'
<1>1. hilo[k].pc # "terminado"
  BY DEF Cpu304, Cpu341Concede, Cpu380Aborta, CpuCaeAborta
<1>2. PICK p \in Consolas : p = hilo[k].proceso
  BY DEF Cpu304, Cpu341Concede, Cpu380Aborta, CpuCaeAborta, Tipos, ManosDeHilos, ConProceso
<1>3. UNCHANGED <<colas_semaforos, colas_ios, pcp, consola, manejador>>
  BY DEF Cpu304, Cpu341Concede, Cpu380Aborta, CpuCaeAborta, bloqueados
<1>4. PICK pc \in {"recibe", "libera", "recorre"} : CpuSuelta(k, pc)
  BY DEF Cpu304, Cpu341Concede, Cpu380Aborta, CpuCaeAborta
<1>5. CASE Abortar(p)
  <2>1. /\ cola'["exit"] = Append(cola["exit"], p) /\ "exit" \in Nombres
        /\ \A n \in Nombres \ {"exit"} : cola'[n] = cola[n]
    BY <1>5 DEF Abortar, Tipos, TiposDeHilos, TipoColas, Colas, Nombres
  <2>2. FinalizarEnUMC(p)
    BY <1>5 DEF Abortar
  <2> QED
    BY <1>1, <1>2, <1>3, <1>4, <2>1, <2>2, DelHiloACola
<1>6. CASE EncolaReady(p) /\ UNCHANGED finalizados
  <2>1. /\ cola'["ready"] = Append(cola["ready"], p) /\ "ready" \in Nombres
        /\ \A n \in Nombres \ {"ready"} : cola'[n] = cola[n]
    BY <1>6 DEF EncolaReady, Tipos, TiposDeHilos, TipoColas, Colas, Nombres
  <2> QED
    BY <1>1, <1>2, <1>3, <1>4, <1>6, <2>1, DelHiloACola
<1>7. CASE Cpu341Concede(k)
  <2>1. /\ cola'["exec"] = Append(cola["exec"], p) /\ "exec" \in Nombres
        /\ \A n \in Nombres \ {"exec"} : cola'[n] = cola[n] /\ UNCHANGED finalizados
    BY <1>2, <1>7 DEF Cpu341Concede, Tipos, TiposDeHilos, TipoColas, Colas, Nombres, historia
  <2>2. UNCHANGED finalizados
    BY <1>7 DEF Cpu341Concede, historia
  <2> QED
    BY <1>1, <1>2, <1>3, <1>4, <2>1, <2>2, DelHiloACola
<1> QED
  BY <1>2, <1>5, <1>6, <1>7 DEF Cpu304, Cpu380Aborta, CpuCaeAborta

\* The 340 of a wait that blocks.
LEMMA Cpu341PCBLugares ==
  ASSUME Tipos, ILugares, NEW k \in CPUs, Cpu341PCB(k), UNCHANGED principal
  PROVE  ILugares'
<1>1. PICK donde \in [Consolas -> Casas] : LugaresBien(donde)
  BY DEF ILugares
<1>2. PICK p \in Consolas : p = hilo[k].proceso
  BY DEF Cpu341PCB, Tipos, ManosDeHilos, ConProceso
<1>3. PICK s \in Semaforos : s = hilo[k].elPaquete.i
  BY SemaforoDelHilo DEF Cpu341PCB
<1>4. UNCHANGED <<colas_ios, pcp, consola, manejador, recarga>> /\ hilo[k].pc = "341pcb"
  BY DEF Cpu341PCB, principal
<1>5. CASE t_proceso[p].abortado
  <2>1. Abortar(p) /\ CpuSuelta(k, "recibe") /\ UNCHANGED colas_semaforos
    BY <1>2, <1>5 DEF Cpu341PCB
  <2>2. /\ cola'["exit"] = Append(cola["exit"], p) /\ "exit" \in Nombres
        /\ \A n \in Nombres \ {"exit"} : cola'[n] = cola[n]
    BY <2>1 DEF Abortar, Tipos, TiposDeHilos, TipoColas, Colas, Nombres
  <2>3. FinalizarEnUMC(p)
    BY <2>1 DEF Abortar
  <2> QED
    BY <1>2, <1>4, <2>1, <2>2, <2>3, DelHiloACola
<1>6. CASE ~t_proceso[p].abortado
  <2> DEFINE b == <<"semaforo", s>>
  <2>1. PICK e : Mueve(donde, e, p, b)
    BY <1>1, Destino DEF Casas
  <2>2. /\ colas_semaforos' = [colas_semaforos EXCEPT ![s] = Append(@, p)]
        /\ CpuSuelta(k, "liberaYSuelta") /\ UNCHANGED <<cola, finalizados>>
    BY <1>2, <1>3, <1>6 DEF Cpu341PCB
  <2>3. /\ hilo'[k].pc = "liberaYSuelta" /\ hilo'[k].proceso = NULO
        /\ \A j \in CPUs \ {k} : hilo'[j] = hilo[j]
    BY <2>2 DEF CpuSuelta, Tipos, TiposDeHilos, TipoHilos, EstadosHilo
  <2>4. donde[p] = <<"CPU", k>>
    BY <1>1, <1>2, <1>4 DEF LugaresBien, EnCPUs, EnCPU
  <2>5. TrasladoCPUs(donde, e, p, b)
    <3>1. b[1] # "CPU" /\ hilo[k].pc # "terminado" /\ hilo[k].proceso = p
      BY <1>2, <1>4
    <3> HIDE DEF b
    <3> QED
      BY <1>1, <2>1, <2>3, <3>1, SaleDeCPU
  <2>6. TrasladoSemaforos(donde, e, p, b)
    <3>1. Vive(donde, colas_semaforos[s], b) /\ donde[p] # b
      BY <1>1, <2>4 DEF LugaresBien, EnSemaforos
    <3>2. colas_semaforos[s] \in Seq(Consolas)
      BY DEF Tipos, TiposDeHilos, TipoBloqueados
    <3>3. Vive(e, Append(colas_semaforos[s], p), b)
      <4> HIDE DEF b
      <4> QED
        BY <2>1, <3>1, <3>2, Entra
    <3>4. /\ colas_semaforos'[s] = Append(colas_semaforos[s], p)
          /\ \A t \in Semaforos \ {s} : colas_semaforos'[t] = colas_semaforos[t]
      BY <2>2 DEF Tipos, TiposDeHilos, TipoBloqueados
    <3>5. \A t \in Semaforos \ {s} : Fuera(donde, p, b, <<"semaforo", t>>)
      BY <2>4 DEF Fuera
    <3>6. Vive(e, colas_semaforos'[s], <<"semaforo", s>>)
      BY <3>3, <3>4
    <3> HIDE DEF b
    <3> QED
      BY <3>4, <3>5, <3>6 DEF TrasladoSemaforos
  <2>7. Traslado(donde, e, p, b)
    BY <1>4, <2>2, <2>4, <2>5, <2>6, Ajenos DEF Traslado, Nombres
  <2>8. ManosVacias'
    BY <1>1, <1>4, <2>3, ManosDelHilo
  <2>9. donde[p] \notin {Ninguna, Salida} /\ b # Ninguna
    BY <2>4 DEF Ninguna, Salida
  <2> HIDE DEF b
  <2>10. LoDemas(p, b)
    BY <1>4, <2>2, <2>3 DEF LoDemas
  <2> QED
    BY <1>1, <2>1, <2>7, <2>8, <2>9, <2>10, Muda
<1> QED
  BY <1>5, <1>6

\* A signal takes the first of the semaphore, or nothing.
LEMMA Cpu343SacaLugares ==
  ASSUME Tipos, ILugares, NEW k \in CPUs, Cpu343Saca(k), UNCHANGED principal
  PROVE  ILugares'
<1>1. PICK donde \in [Consolas -> Casas] : LugaresBien(donde)
  BY DEF ILugares
<1>2. PICK s \in Semaforos : s = hilo[k].elPaquete.i
  BY SemaforoDelHilo DEF Cpu343Saca
<1> DEFINE q == colas_semaforos[s]
           l == <<"semaforo", s>>
           b == <<"CPU", k>>
<1>3. /\ hilo[k].pc = "343saca" /\ hilo'[k].pc = "343pone" /\ hilo'[k].proceso = Saca(q)
      /\ \A j \in CPUs \ {k} : hilo'[j] = hilo[j]
      /\ colas_semaforos' = [colas_semaforos EXCEPT ![s] = Resto(q)]
      /\ UNCHANGED <<cola, colas_ios, pcp, consola, manejador, finalizados, recarga>>
  BY <1>2 DEF Cpu343Saca, Tipos, TiposDeHilos, TipoHilos, EstadosHilo, historia, principal
<1>4. hilo[k].proceso = NULO
  BY <1>1, <1>3 DEF LugaresBien, ManosVacias, ConProceso
<1>5. q \in Seq(Consolas)
  BY DEF Tipos, TiposDeHilos, TipoBloqueados
<1>6. CASE Vacia(q)
  <2>1. Saca(q) = NULO /\ Resto(q) = q
    BY <1>6 DEF Saca, Resto
  <2>2. UNCHANGED colas_semaforos
    BY <1>3, <2>1 DEF Tipos, TiposDeHilos, TipoBloqueados
  <2>3. hilo'[k].proceso = hilo[k].proceso
    BY <1>3, <1>4, <2>1
  <2> QED
    BY <1>3, <2>2, <2>3, HiloQuieto DEF ConProceso
<1>7. CASE ~Vacia(q)
  <2>1. q # <<>> /\ Saca(q) = Head(q) /\ Resto(q) = Tail(q)
    BY <1>7 DEF Saca, Resto, Vacia
  <2>2. PICK p \in Consolas : p = Head(q)
    BY <1>5, <2>1
  <2>3. PICK e : Mueve(donde, e, p, b)
    BY <1>1, Destino DEF Casas
  <2>4. Vive(donde, q, l) /\ l # b
    BY <1>1 DEF LugaresBien, EnSemaforos
  <2>5. donde[p] = l
    BY <1>5, <2>1, <2>2, <2>4 DEF Vive, Contains
  <2>6. TrasladoSemaforos(donde, e, p, b)
    <3>1. Vive(e, Tail(q), l)
      <4> HIDE DEF q, l, b
      <4> QED
        BY <1>5, <2>1, <2>2, <2>3, <2>4, SaleElPrimero
    <3>2. /\ colas_semaforos'[s] = Tail(q)
          /\ \A t \in Semaforos \ {s} : colas_semaforos'[t] = colas_semaforos[t]
      BY <1>3, <2>1 DEF Tipos, TiposDeHilos, TipoBloqueados
    <3> QED
      BY <2>5, <3>1, <3>2 DEF TrasladoSemaforos, Fuera
  <2>7. TrasladoCPUs(donde, e, p, b)
    <3>1. donde[p][1] # "CPU" /\ hilo'[k].proceso = p /\ hilo'[k].pc # "terminado"
      BY <1>3, <2>1, <2>2, <2>5
    <3> QED
      BY <1>1, <1>3, <1>4, <2>3, <3>1, EntraEnCPU
  <2>8. Traslado(donde, e, p, b)
    BY <1>3, <2>5, <2>6, <2>7, Ajenos DEF Traslado, Nombres
  <2>9. ManosVacias'
    BY <1>1, <1>3, ManosDelHilo
  <2>10. donde[p] \notin {Ninguna, Salida} /\ b # Ninguna
    BY <2>5 DEF Ninguna, Salida
  <2> HIDE DEF b
  <2>11. LoDemas(p, b)
    BY <1>3 DEF LoDemas
  <2> QED
    BY <1>1, <2>3, <2>8, <2>9, <2>10, <2>11, Muda
<1> QED
  BY <1>6, <1>7

LEMMA Cpu343PoneLugares ==
  ASSUME Tipos, ILugares, NEW k \in CPUs, Cpu343Pone(k), UNCHANGED principal
  PROVE  ILugares'
<1>1. UNCHANGED <<colas_semaforos, colas_ios, pcp, consola, manejador, finalizados, recarga>>
  BY DEF Cpu343Pone, bloqueados, historia, principal
<1>2. /\ cola'["ready"] = Append(cola["ready"], hilo[k].proceso)
      /\ \A n \in Nombres \ {"ready"} : cola'[n] = cola[n]
  BY DEF Cpu343Pone, EncolaReady, Tipos, TiposDeHilos, TipoColas, Colas, Nombres
<1>3. CpuSuelta(k, "recibe") /\ hilo[k].pc = "343pone"
  BY DEF Cpu343Pone
<1>4. CASE hilo[k].proceso \in Consolas
  BY <1>1, <1>2, <1>3, <1>4, DelHiloACola DEF Nombres
<1>5. CASE hilo[k].proceso = NULO
  <2>1. PICK donde \in [Consolas -> Casas] : LugaresBien(donde)
    BY DEF ILugares
  <2>2. cola["ready"] \in Seq(Consolas \cup {NULO})
    BY DEF Tipos, TiposDeHilos, TipoColas, Colas
  <2>3. Vive(donde, cola["ready"], <<"ready", 0>>)
    BY <2>1 DEF LugaresBien, EnColas, Nombres
  <2>4. Vive(donde, cola'["ready"], <<"ready", 0>>)
    BY <1>2, <1>5, <2>2, <2>3, EntraNulo
  <2>5. EnColas(donde)'
    <3>1. ASSUME NEW n \in Nombres PROVE Vive(donde, cola'[n], <<n, 0>>)
      BY <1>2, <2>1, <2>4 DEF LugaresBien, EnColas
    <3> QED
      BY <3>1 DEF EnColas
  <2>6. /\ hilo'[k].pc = "recibe" /\ hilo'[k].proceso = NULO
        /\ \A j \in CPUs \ {k} : hilo'[j] = hilo[j]
    BY <1>3 DEF CpuSuelta, Tipos, TiposDeHilos, TipoHilos, EstadosHilo
  <2>7. ManosVacias' /\ SinRecarga'
    BY <1>1, <2>1, <2>6, ManosDelHilo DEF LugaresBien, SinRecarga
  <2>8. \A j \in CPUs : SigueCPU(j)
    BY <1>3, <1>5, <2>6 DEF SigueCPU
  <2> QED
    BY <1>1, <2>1, <2>5, <2>7, <2>8, QuietoEn
<1>6. hilo[k].proceso \in Consolas \cup {NULO}
  BY DEF Tipos, TiposDeHilos, TipoHilos, EstadosHilo
<1> QED
  BY <1>4, <1>5, <1>6

\* The entradaSalida: the process enters the queue of its device.
LEMMA Cpu380EncolaLugares ==
  ASSUME Tipos, ILugares, NEW k \in CPUs, Cpu380Encola(k), UNCHANGED principal
  PROVE  ILugares'
<1>1. PICK donde \in [Consolas -> Casas] : LugaresBien(donde)
  BY DEF ILugares
<1>2. PICK p \in Consolas : p = hilo[k].proceso
  BY DEF Cpu380Encola, Tipos, ManosDeHilos, ConProceso
<1>3. PICK d \in IOs : d = hilo[k].elPaquete.i
  <2>1. hilo[k].elPaquete \in Paquetes /\ hilo[k].elPaquete.op = "380"
    BY DEF Cpu380Encola, Tipos, TiposDeHilos, TipoHilos, EstadosHilo, ManosDeHilos
  <2> QED
    BY <2>1, PaqueteTipo
<1> DEFINE b == <<"io", d>>
<1>4. PICK e : Mueve(donde, e, p, b)
  BY <1>1, Destino DEF Casas
<1>5. /\ colas_ios' = [colas_ios EXCEPT ![d] = Append(@, p)] /\ CpuSuelta(k, "libera")
      /\ hilo[k].pc \in {"380vacia", "380ocupada"}
      /\ UNCHANGED <<cola, colas_semaforos, pcp, consola, manejador, finalizados, recarga>>
  BY <1>2, <1>3 DEF Cpu380Encola, historia, principal
<1>6. /\ hilo'[k].pc = "libera" /\ hilo'[k].proceso = NULO
      /\ \A j \in CPUs \ {k} : hilo'[j] = hilo[j]
  BY <1>5 DEF CpuSuelta, Tipos, TiposDeHilos, TipoHilos, EstadosHilo
<1>7. donde[p] = <<"CPU", k>>
  BY <1>1, <1>2, <1>5 DEF LugaresBien, EnCPUs, EnCPU
<1>8. TrasladoCPUs(donde, e, p, b)
  <2>1. b[1] # "CPU" /\ hilo[k].pc # "terminado" /\ hilo[k].proceso = p
    BY <1>2, <1>5
  <2> HIDE DEF b
  <2> QED
    BY <1>1, <1>4, <1>6, <2>1, SaleDeCPU
<1>9. TrasladoIOs(donde, e, p, b)
  <2>1. Vive(donde, colas_ios[d], b) /\ donde[p] # b
    BY <1>1, <1>7 DEF LugaresBien, EnIOs
  <2>2. colas_ios[d] \in Seq(Consolas)
    BY DEF Tipos, TiposDeHilos, TipoBloqueados
  <2>3. Vive(e, Append(colas_ios[d], p), b)
    <3> HIDE DEF b
    <3> QED
      BY <1>4, <2>1, <2>2, Entra
  <2>4. /\ colas_ios'[d] = Append(colas_ios[d], p)
        /\ \A t \in IOs \ {d} : colas_ios'[t] = colas_ios[t]
    BY <1>5 DEF Tipos, TiposDeHilos, TipoBloqueados
  <2>5. \A t \in IOs \ {d} : Fuera(donde, p, b, <<"io", t>>)
    BY <1>7 DEF Fuera
  <2>6. Vive(e, colas_ios'[d], <<"io", d>>)
    BY <2>3, <2>4
  <2> HIDE DEF b
  <2> QED
    BY <2>4, <2>5, <2>6 DEF TrasladoIOs
<1>10. Traslado(donde, e, p, b)
  BY <1>5, <1>7, <1>8, <1>9, Ajenos DEF Traslado, Nombres
<1>11. ManosVacias'
  BY <1>1, <1>5, <1>6, ManosDelHilo
<1>12. donde[p] \notin {Ninguna, Salida} /\ b # Ninguna
  BY <1>7 DEF Ninguna, Salida
<1> HIDE DEF b
<1>13. LoDemas(p, b)
  BY <1>5, <1>6 DEF LoDemas
<1> QED
  BY <1>1, <1>4, <1>10, <1>11, <1>12, <1>13, Muda

\* A CPU that dies: its process, if it has one, goes to the hands of its thread.
LEMMA CpuCaeLugares ==
  ASSUME Tipos, ILugares, NEW k \in CPUs, CpuCae(k), UNCHANGED principal
  PROVE  ILugares'
<1>1. /\ UNCHANGED <<colas_semaforos, colas_ios, pcp, consola, manejador, finalizados>>
      /\ hilo[k].pc = "recibe"
  BY DEF CpuCae, bloqueados, historia
<1>2. CASE CpuPasaA(k, "recorre") /\ UNCHANGED cola
  <2>1. /\ hilo'[k].pc = "recorre" /\ hilo'[k].proceso = hilo[k].proceso
        /\ \A j \in CPUs \ {k} : hilo'[j] = hilo[j]
    BY <1>2 DEF CpuPasaA, Tipos, TiposDeHilos, TipoHilos, EstadosHilo
  <2> QED
    BY <1>1, <1>2, <2>1, HiloQuieto DEF ConProceso
<1>3. ASSUME NEW i \in 1..Len(cola.exec), cola.exec[i] \in Consolas,
             hilo' = [hilo EXCEPT ![k].pc = "aborta", ![k].proceso = cola.exec[i]],
             cola' = [cola EXCEPT !.exec = RemoveAt(@, i)]
      PROVE  ILugares'
  <2>1. /\ hilo'[k].pc = "aborta" /\ hilo'[k].proceso = cola.exec[i]
        /\ \A j \in CPUs \ {k} : hilo'[j] = hilo[j]
    BY <1>3 DEF Tipos, TiposDeHilos, TipoHilos, EstadosHilo
  <2> QED
    BY <1>1, <1>3, <2>1, DeExecAlHilo
<1> QED
  BY <1>2, <1>3 DEF CpuCae, EsSuProceso, EsPrimero

LEMMA CpuTomaProcesoLugares ==
  ASSUME Tipos, ILugares, NEW k \in CPUs, CpuTomaProceso(k), UNCHANGED principal
  PROVE  ILugares'
<1>1. PICK i \in 1..Len(cola.exec) :
        /\ cola.exec[i] \in Consolas
        /\ hilo' = [hilo EXCEPT ![k] = [@ EXCEPT !.pc = Head(buzon[k]).op,
                                                 !.proceso = cola.exec[i],
                                                 !.elPaquete = Head(buzon[k])]]
        /\ cola' = [cola EXCEPT !.exec = RemoveAt(@, i)]
  BY DEF CpuTomaProceso, EsSuProceso, EsPrimero
<1>2. /\ hilo[k].pc = "recibe" /\ hilo'[k].pc \in Entregas /\ hilo'[k].proceso = cola.exec[i]
      /\ \A j \in CPUs \ {k} : hilo'[j] = hilo[j]
  <2>1. PICK p : p = cola.exec[i]
    OBVIOUS
  <2>2. hilo'[k].pc \in Entregas /\ hilo'[k].proceso = p /\ hilo[k].pc = "recibe"
    <3>1. PICK op, q : op = Head(buzon[k]).op /\ q = Head(buzon[k])
      OBVIOUS
    <3>2. op \in Entregas /\ hilo[k].pc = "recibe"
      BY <3>1 DEF CpuTomaProceso
    <3>3. DOMAIN hilo = CPUs /\ hilo[k] \in EstadosHilo
      BY DEF Tipos, TiposDeHilos, TipoHilos
    <3>4. hilo'[k] = [hilo[k] EXCEPT !.pc = op, !.proceso = p, !.elPaquete = q]
      BY <1>1, <2>1, <3>1, <3>3
    <3> QED
      BY <3>2, <3>3, <3>4 DEF EstadosHilo
  <2>3. \A j \in CPUs \ {k} : hilo'[j] = hilo[j]
    BY <1>1 DEF Tipos, TiposDeHilos, TipoHilos
  <2> QED
    BY <2>1, <2>2, <2>3
<1>3. UNCHANGED <<colas_semaforos, colas_ios, pcp, consola, manejador, finalizados>>
  BY DEF CpuTomaProceso, bloqueados, historia
<1> QED
  BY <1>1, <1>2, <1>3, DeExecAlHilo

\* The steps of a CPU's thread that move no process.
LEMMA CpuQuieta ==
  ASSUME Tipos, ILugares, NEW k \in CPUs, UNCHANGED principal,
         CpuConecta(k) \/ CpuAviso(k) \/ CpuLibera(k) \/ Cpu341Bloquea(k) \/ Cpu343Suma(k)
           \/ Cpu343HayEspera(k) \/ Cpu350Y351(k) \/ Cpu380Mira(k) \/ CpuCaeRecorre(k)
           \/ CpuCaeEspera(k)
  PROVE  ILugares'
<1>1. UNCHANGED <<colas_semaforos, colas_ios, pcp, consola, manejador, finalizados>>
  BY DEF CpuConecta, CpuAviso, CpuLibera, Cpu341Bloquea, Cpu343Suma, Cpu343HayEspera, Cpu350Y351,
     Cpu380Mira, CpuCaeRecorre, CpuCaeEspera, bloqueados, historia
<1>2. \A n \in Nombres : cola'[n] = cola[n]
  BY DEF CpuConecta, CpuAviso, CpuLibera, Cpu341Bloquea, Cpu343Suma, Cpu343HayEspera, Cpu350Y351,
     Cpu380Mira, CpuCaeRecorre, CpuCaeEspera, LiberaCPU, Nombres, Tipos, TiposDeHilos, TipoColas,
     Colas
<1>3. CASE CpuAviso(k)
  <2>1. DOMAIN hilo = CPUs /\ hilo[k] \in EstadosHilo
    BY DEF Tipos, TiposDeHilos, TipoHilos
  <2>2. hilo'[k] = [hilo[k] EXCEPT !.flag = @ \/ Head(buzon[k]).op = "399"]
    BY <1>3, <2>1 DEF CpuAviso
  <2>3. hilo'[k].pc = hilo[k].pc /\ hilo'[k].proceso = hilo[k].proceso /\ hilo[k].pc = "recibe"
    BY <1>3, <2>1, <2>2 DEF EstadosHilo, CpuAviso
  <2>4. \A j \in CPUs \ {k} : hilo'[j] = hilo[j]
    BY <1>3, <2>1 DEF CpuAviso
  <2> QED
    BY <1>1, <1>2, <2>3, <2>4, HiloQuieto DEF ConProceso
<1>4. CASE ~CpuAviso(k)
  <2>1. \E pc \in {"recibe", "341pcb", "343saca", "380vacia", "380ocupada", "fin", "sem_wait"} :
          CpuPasaA(k, pc)
    BY <1>4 DEF CpuConecta, CpuLibera, Cpu341Bloquea, Cpu343Suma, Cpu343HayEspera, Cpu350Y351,
       Cpu380Mira, CpuCaeRecorre, CpuCaeEspera
  <2>2. PICK pc \in {"recibe", "341pcb", "343saca", "380vacia", "380ocupada", "fin", "sem_wait"} :
          CpuPasaA(k, pc)
    BY <2>1
  <2>3. /\ hilo'[k].pc = pc /\ hilo'[k].proceso = hilo[k].proceso
        /\ \A j \in CPUs \ {k} : hilo'[j] = hilo[j]
    BY <2>2 DEF CpuPasaA, Tipos, TiposDeHilos, TipoHilos, EstadosHilo
  <2>4. /\ hilo[k].pc \notin {"terminado", "343pone"}
        /\ hilo[k].pc \in ConProceso => pc \in ConProceso
    <3>1. /\ hilo[k].pc \in {"accept", "recibe", "libera", "liberaYSuelta", "341", "343", "350", "351",
                             "380", "recorre", "sem_wait"}
          /\ hilo[k].pc = "341" => hilo'[k].pc = "341pcb"
          /\ hilo[k].pc = "380" => hilo'[k].pc \in {"380vacia", "380ocupada"}
      BY <1>4, <2>2, PasaA DEF CpuConecta, CpuLibera, Cpu341Bloquea, Cpu343Suma,
         Cpu343HayEspera, Cpu350Y351, Cpu380Mira, CpuCaeRecorre, CpuCaeEspera
    <3> QED
      BY <2>3, <3>1 DEF ConProceso
  <2>5. pc # "terminado"
    OBVIOUS
  <2> QED
    BY <1>1, <1>2, <2>3, <2>4, <2>5, HiloQuieto
<1> QED
  BY <1>3, <1>4

LEMMA HiloCPULugares ==
  ASSUME Tipos, ILugares, NEW k \in CPUs, HiloCPU(k), UNCHANGED principal
  PROVE  ILugares'
<1>1. CASE CpuSinProceso(k) \/ CpuPCBIlegible(k)
  BY <1>1, MuereLugares DEF CpuSinProceso, CpuPCBIlegible, principal
<1> QED
  BY <1>1, CpuTomaProcesoLugares, DevuelveLugares, Cpu320Y370Lugares, CpuTerminadoLugares,
     SueltanLugares, Cpu341PCBLugares, Cpu343SacaLugares, Cpu343PoneLugares,
     Cpu380EncolaLugares, CpuCaeLugares, CpuQuieta DEF HiloCPU

-----------------------------------------------------------------------------
(* analizarIO, the reload and the programs.                                 *)

\* An expiration, of a timer of now or of before, takes the first of a device.
LEMMA SenialSacaLugares ==
  ASSUME Tipos, ILugares, NEW h \in Manejadores, NEW d \in IOs, ~Vacia(colas_ios[d]),
         manejador[h].pc = "libre",
         manejador' = [manejador EXCEPT ![h] = [pc |-> "entrega", io |-> d,
                                                proceso |-> Head(colas_ios[d])]],
         colas_ios' = [colas_ios EXCEPT ![d] = Tail(@)],
         UNCHANGED <<cola, colas_semaforos, pcp, hilo, consola, finalizados, recarga>>
  PROVE  ILugares'
<1>1. PICK donde \in [Consolas -> Casas] : LugaresBien(donde)
  BY DEF ILugares
<1> DEFINE q == colas_ios[d]
           l == <<"io", d>>
           b == <<"SIGRTMIN", h>>
<1>2. q \in Seq(Consolas) /\ q # <<>>
  BY DEF Vacia, Tipos, TiposDeHilos, TipoBloqueados
<1>3. PICK p \in Consolas : p = Head(q)
  BY <1>2
<1>4. PICK e : Mueve(donde, e, p, b)
  BY <1>1, Destino DEF Casas
<1>5. Vive(donde, q, l) /\ l # b
  BY <1>1 DEF LugaresBien, EnIOs
<1>6. donde[p] = l
  BY <1>2, <1>3, <1>5 DEF Vive, Contains
<1>7. /\ manejador'[h].pc = "entrega" /\ manejador'[h].proceso = p
      /\ \A g \in Manejadores \ {h} : manejador'[g] = manejador[g]
  BY <1>3 DEF Tipos, TiposDeHilos, TipoHilos
<1>8. TrasladoIOs(donde, e, p, b)
  <2>1. Vive(e, Tail(q), l)
    <3> HIDE DEF q, l, b
    <3> QED
      BY <1>2, <1>3, <1>4, <1>5, SaleElPrimero
  <2>2. /\ colas_ios'[d] = Tail(q)
        /\ \A t \in IOs \ {d} : colas_ios'[t] = colas_ios[t]
    BY DEF Tipos, TiposDeHilos, TipoBloqueados
  <2> QED
    BY <1>6, <2>1, <2>2 DEF TrasladoIOs, Fuera
<1>9. TrasladoManejadores(donde, e, p, b)
  <2>1. manejador[h].proceso = NULO
    BY <1>1 DEF LugaresBien, ManosVacias
  <2>2. EnManejador(e, h)'
    <3>1. NULO \notin Consolas
      BY ConstantesNucleo
    <3>2. \A x \in Consolas : donde[x] # b
      BY <1>1, <2>1, <3>1 DEF LugaresBien, EnManejadores, EnManejador
    <3> QED
      BY <1>4, <1>7, <3>2 DEF EnManejador, Mueve
  <2>3. \A g \in Manejadores \ {h} : Fuera(donde, p, b, <<"SIGRTMIN", g>>)
    BY <1>6 DEF Fuera
  <2> QED
    BY <1>7, <2>2, <2>3 DEF TrasladoManejadores
<1>10. Traslado(donde, e, p, b)
  BY <1>6, <1>8, <1>9, Ajenos DEF Traslado, Nombres, SigueCPU
<1>11. ManosVacias'
  BY <1>1, <1>7 DEF LugaresBien, ManosVacias
<1>12. donde[p] \notin {Ninguna, Salida} /\ b # Ninguna
  BY <1>6 DEF Ninguna, Salida
<1> HIDE DEF b
<1>13. LoDemas(p, b)
  BY DEF LoDemas
<1> QED
  BY <1>1, <1>4, <1>10, <1>11, <1>12, <1>13, Muda

LEMMA SenialEntregaLugares ==
  ASSUME Tipos, ILugares, NEW h \in Manejadores, SenialEntrega(h), UNCHANGED principal
  PROVE  ILugares'
<1>1. PICK donde \in [Consolas -> Casas] : LugaresBien(donde)
  BY DEF ILugares
<1>2. PICK p \in Consolas : p = manejador[h].proceso
  BY DEF SenialEntrega, Tipos, ManosDeOtros
<1>3. donde[p] = <<"SIGRTMIN", h>>
  BY <1>1, <1>2 DEF LugaresBien, EnManejadores, EnManejador
<1>4. UNCHANGED <<colas_semaforos, colas_ios, pcp, hilo, consola, recarga>>
  BY DEF SenialEntrega, bloqueados, principal
<1>5. /\ manejador'[h].pc = "rearma" /\ manejador'[h].proceso = NULO
      /\ \A g \in Manejadores \ {h} : manejador'[g] = manejador[g]
  BY DEF SenialEntrega, Tipos, TiposDeHilos, TipoHilos, EstadosManejador
<1>6. ManosVacias'
  BY <1>1, <1>4, <1>5 DEF LugaresBien, ManosVacias
<1>7. ASSUME NEW n \in Nombres, cola'[n] = Append(cola[n], p),
             \A m \in Nombres \ {n} : cola'[m] = cola[m],
             \/ UNCHANGED finalizados
             \/ n = "exit" /\ FinalizarEnUMC(p)
      PROVE  ILugares'
  <2> DEFINE b == <<n, 0>>
  <2>1. PICK e : Mueve(donde, e, p, b)
    BY <1>1, Destino DEF Casas, Nombres
  <2>2. TrasladoColas(donde, e, p, b)
    <3>1. donde[p][1] \notin Nombres
      BY <1>3 DEF Nombres
    <3> QED
      BY <1>1, <1>7, <2>1, <3>1, EntraEnCola
  <2>3. TrasladoManejadores(donde, e, p, b)
    <3>1. \A g \in Manejadores : b # <<"SIGRTMIN", g>>
      BY DEF Nombres
    <3> HIDE DEF b
    <3>2. EnManejador(e, h)'
      <4>1. \A x \in Consolas \ {p} : donde[x] # <<"SIGRTMIN", h>>
        BY <1>1, <1>2 DEF LugaresBien, EnManejadores, EnManejador
      <4>2. \A x \in Consolas : e[x] # <<"SIGRTMIN", h>>
        BY <2>1, <3>1, <4>1 DEF Mueve
      <4> QED
        BY <1>5, <4>2, ConstantesNucleo DEF EnManejador
    <3>3. \A g \in Manejadores \ {h} : Fuera(donde, p, b, <<"SIGRTMIN", g>>)
      BY <1>3, <3>1 DEF Fuera
    <3> QED
      BY <1>5, <3>2, <3>3 DEF TrasladoManejadores
  <2>4. Traslado(donde, e, p, b)
    BY <1>3, <1>4, <2>2, <2>3, Ajenos DEF Traslado, Nombres, SigueCPU
  <2>5. donde[p] \notin {Ninguna, Salida} /\ b # Ninguna
    BY <1>3 DEF Ninguna, Salida, Nombres
  <2>6. n = "exit" => b = Salida
    BY DEF Salida
  <2> HIDE DEF b
  <2>7. LoDemas(p, b)
    BY <1>4, <1>7, <2>6 DEF LoDemas
  <2> QED
    BY <1>1, <1>6, <2>1, <2>4, <2>5, <2>7, Muda
<1>8. CASE Abortar(p)
  <2>1. /\ cola'["exit"] = Append(cola["exit"], p) /\ "exit" \in Nombres
        /\ \A n \in Nombres \ {"exit"} : cola'[n] = cola[n]
    BY <1>8 DEF Abortar, Tipos, TiposDeHilos, TipoColas, Colas, Nombres
  <2>2. FinalizarEnUMC(p)
    BY <1>8 DEF Abortar
  <2> QED
    BY <1>7, <2>1, <2>2
<1>9. CASE EncolaReady(p) /\ UNCHANGED finalizados
  <2>1. /\ cola'["ready"] = Append(cola["ready"], p) /\ "ready" \in Nombres
        /\ \A n \in Nombres \ {"ready"} : cola'[n] = cola[n]
    BY <1>9 DEF EncolaReady, Tipos, TiposDeHilos, TipoColas, Colas, Nombres
  <2> QED
    BY <1>7, <1>9, <2>1
<1> QED
  BY <1>2, <1>8, <1>9 DEF SenialEntrega

LEMMA AnalizarIOLugares ==
  ASSUME Tipos, ILugares, NEW h \in Manejadores, AnalizarIO(h), UNCHANGED principal
  PROVE  ILugares'
<1>1. ASSUME NEW d \in IOs, SenialNada(h, d) PROVE ILugares'
  BY <1>1, MuereLugares DEF SenialNada, principal
<1>2. ASSUME NEW d \in IOs, SenialSaca(h, d) PROVE ILugares'
  <2>1. UNCHANGED <<cola, colas_semaforos, pcp, hilo, consola, finalizados, recarga>>
    BY <1>2 DEF SenialSaca, historia, principal
  <2> QED
    BY <1>2, <2>1, SenialSacaLugares DEF SenialSaca
<1>3. CASE SenialRearma(h)
  <2>1. UNCHANGED <<cola, colas_semaforos, colas_ios, pcp, hilo, consola, finalizados, recarga>>
    BY <1>3 DEF SenialRearma, historia, principal
  <2>2. /\ manejador[h].pc = "rearma" /\ manejador'[h].pc = "libre"
        /\ manejador'[h].proceso = manejador[h].proceso
        /\ \A g \in Manejadores \ {h} : manejador'[g] = manejador[g]
    BY <1>3 DEF SenialRearma, Tipos, TiposDeHilos, TipoHilos, EstadosManejador
  <2>3. ManosVacias /\ SinRecarga
    BY DEF ILugares, LugaresBien
  <2>4. ManosVacias' /\ SinRecarga'
    BY <2>1, <2>2, <2>3 DEF ManosVacias, SinRecarga
  <2> QED
    BY <2>1, <2>2, <2>4, Quieto DEF SigueCPU
<1>4. CASE SenialPantalla(h) \/ PantallaDibuja(h)
  <2>1. UNCHANGED <<cola, colas_semaforos, colas_ios, pcp, hilo, consola, finalizados, recarga>>
    BY <1>4 DEF SenialPantalla, PantallaDibuja, bloqueados, historia, principal
  <2>2. /\ manejador[h].pc # "entrega" /\ manejador'[h].proceso = manejador[h].proceso
        /\ \A g \in Manejadores \ {h} : manejador'[g] = manejador[g]
    BY <1>4 DEF SenialPantalla, PantallaDibuja, Tipos, TiposDeHilos, TipoHilos, EstadosManejador
  <2>3. ManosVacias /\ SinRecarga
    BY DEF ILugares, LugaresBien
  <2>4. ManosVacias' /\ SinRecarga'
    BY <2>1, <2>2, <2>3 DEF ManosVacias, SinRecarga
  <2> QED
    BY <2>1, <2>2, <2>4, Quieto DEF SigueCPU
<1> QED
  BY <1>1, <1>2, <1>3, <1>4, SenialEntregaLugares DEF AnalizarIO, AtiendeIO

\* The steps of main and of the programs that touch no process.
LEMMA AjenosLugares ==
  ASSUME ILugares, SinRecarga',
         UNCHANGED <<cola, colas_semaforos, colas_ios, finalizados, pcp, hilo, consola, manejador>>
  PROVE  ILugares'
<1>1. ManosVacias
  BY DEF ILugares, LugaresBien
<1>2. ManosVacias'
  BY <1>1 DEF ManosVacias
<1> QED
  BY <1>2, Quieto DEF SigueCPU

\* The reload throws away the processes that are blocked: they are nowhere.
LEMMA RecargaCambiaLugares ==
  ASSUME Tipos, ILugares, RecargaCambia
  PROVE  ILugares'
<1>1. PICK donde \in [Consolas -> Casas] : LugaresBien(donde)
  BY DEF ILugares
<1>2. MaxRecargas # 0
  BY <1>1 DEF RecargaCambia, LugaresBien, SinRecarga
<1> DEFINE Blq == {<<"semaforo", s>> : s \in Semaforos} \cup {<<"io", d>> : d \in IOs}
           e == [x \in Consolas |-> IF donde[x] \in Blq THEN Ninguna ELSE donde[x]]
<1>3. e \in [Consolas -> Casas]
  BY DEF Casas, Ninguna
<1>4. \A x \in Consolas : donde[x] \in Blq => e[x] = Ninguna
  OBVIOUS
<1>5. \A x \in Consolas : donde[x] \notin Blq => e[x] = donde[x]
  OBVIOUS
<1>6. ASSUME NEW l, l \notin Blq, l # Ninguna
      PROVE  \A x \in Consolas : e[x] = l <=> donde[x] = l
  <2> HIDE DEF e, Blq
  <2> QED
    BY <1>4, <1>5, <1>6
<1>7. \A x \in Consolas : e[x] \notin Blq
  <2>1. Ninguna \notin Blq
    BY DEF Ninguna
  <2> HIDE DEF e, Blq
  <2> QED
    BY <1>4, <1>5, <2>1
<1>8. /\ UNCHANGED <<cola, finalizados, pcp, hilo, consola, manejador>>
      /\ colas_semaforos' = [s \in Semaforos |-> <<>>] /\ colas_ios' = [d \in IOs |-> <<>>]
  BY DEF RecargaCambia, hilos, historia
<1>9. EnColas(e)'
  <2>1. \A n \in Nombres : <<n, 0>> \notin Blq /\ <<n, 0>> # Ninguna
    BY DEF Nombres, Ninguna
  <2> HIDE DEF e, Blq
  <2>2. ASSUME NEW n \in Nombres PROVE Vive(e, cola[n], <<n, 0>>)
    <3>1. \A x \in Consolas : e[x] = <<n, 0>> <=> donde[x] = <<n, 0>>
      BY <1>6, <2>1
    <3> QED
      BY <1>1, <3>1 DEF LugaresBien, EnColas, Vive
  <2> QED
    BY <1>8, <2>2 DEF EnColas
<1>10. EnSemaforos(e)' /\ EnIOs(e)'
  <2>1. /\ \A s \in Semaforos : \A x \in Consolas : e[x] # <<"semaforo", s>>
        /\ \A d \in IOs : \A x \in Consolas : e[x] # <<"io", d>>
    <3> HIDE DEF e
    <3> QED
      BY <1>7
  <2> HIDE DEF e, Blq
  <2>2. \A x : ~Contains(<<>>, x)
    BY DEF Contains
  <2>3. \A s \in Semaforos : Vive(e, <<>>, <<"semaforo", s>>)
    BY <2>1, <2>2 DEF Vive
  <2>4. \A d \in IOs : Vive(e, <<>>, <<"io", d>>)
    BY <2>1, <2>2 DEF Vive
  <2> QED
    BY <1>8, <2>3, <2>4 DEF EnSemaforos, EnIOs
<1>11. EnPCP(e)' /\ EnConsolas(e)'
  <2>1. /\ <<"PCP", 0>> \notin Blq /\ <<"PCP", 0>> # Ninguna
        /\ <<"consola", 0>> \notin Blq /\ <<"consola", 0>> # Ninguna
    BY DEF Ninguna
  <2> HIDE DEF e, Blq
  <2>2. \A x \in Consolas : /\ e[x] = <<"PCP", 0>> <=> donde[x] = <<"PCP", 0>>
                            /\ e[x] = <<"consola", 0>> <=> donde[x] = <<"consola", 0>>
    BY <1>6, <2>1
  <2> QED
    BY <1>1, <1>8, <2>2 DEF LugaresBien, EnPCP, EnConsolas
<1>12. EnCPUs(e)' /\ EnManejadores(e)'
  <2>1. /\ \A k \in CPUs : <<"CPU", k>> \notin Blq /\ <<"CPU", k>> # Ninguna
        /\ \A h \in Manejadores : <<"SIGRTMIN", h>> \notin Blq /\ <<"SIGRTMIN", h>> # Ninguna
    BY DEF Ninguna
  <2> HIDE DEF e, Blq
  <2>2. \A k \in CPUs : \A x \in Consolas : e[x] = <<"CPU", k>> <=> donde[x] = <<"CPU", k>>
    BY <1>6, <2>1
  <2>3. \A h \in Manejadores : \A x \in Consolas :
          e[x] = <<"SIGRTMIN", h>> <=> donde[x] = <<"SIGRTMIN", h>>
    BY <1>6, <2>1
  <2> QED
    BY <1>1, <1>8, <2>2, <2>3 DEF LugaresBien, EnCPUs, EnCPU, EnManejadores, EnManejador
<1>13. ManosVacias' /\ SinRecarga'
  BY <1>1, <1>2, <1>8 DEF LugaresBien, ManosVacias, SinRecarga
<1>14. Ninguna \notin Blq /\ Salida \notin Blq
  BY DEF Ninguna, Salida
<1> HIDE DEF e, Blq
<1>15. Cargas(e)'
  BY <1>1, <1>2, <1>5, <1>8, <1>14 DEF LugaresBien, Cargas
<1>16. Finales(e)'
  <2>1. \A x \in Consolas : donde[x] \in {Ninguna, Salida} => e[x] = donde[x]
    BY <1>5, <1>14
  <2>2. \A k \in CPUs : hilo[k].pc = "terminado" => hilo[k].proceso \in Consolas
    BY DEF Tipos, ManosDeHilos, ConProceso
  <2> QED
    BY <1>1, <1>8, <2>1, <2>2 DEF LugaresBien, Finales
<1>17. LugaresBien(e)'
  BY <1>3, <1>9, <1>10, <1>11, <1>12, <1>13, <1>15, <1>16 DEF LugaresBien
<1> QED
  BY <1>3, <1>17 DEF ILugares

LEMMA PrincipalLugares ==
  ASSUME Tipos, TipoPrincipal, ILugares, Principal
  PROVE  ILugares'
<1>1. SinRecarga
  BY DEF ILugares, LugaresBien
<1>2. CASE RecargaEmpieza
  <2>1. SinRecarga'
    BY <1>2 DEF RecargaEmpieza, SinRecarga, TipoPrincipal
  <2> QED
    BY <1>2, <2>1, AjenosLugares DEF RecargaEmpieza, bloqueados, hilos, historia
<1>3. CASE RecargaMira \/ RecargaToma \/ RecargaSuelta
  <2>1. SinRecarga'
    BY <1>1, <1>3 DEF RecargaMira, RecargaToma, RecargaSuelta, SinRecarga
  <2> QED
    BY <1>3, <2>1, AjenosLugares DEF RecargaMira, RecargaToma, RecargaSuelta, bloqueados,
       hilos, historia
<1>4. ASSUME NEW h \in Manejadores, SenialVieja(h) PROVE ILugares'
  <2>1. CASE Muere("segv")
    BY <1>4, <2>1, MuereLugares DEF SenialVieja
  <2>2. ASSUME NEW d \in IOs, ~Vacia(colas_ios[d]),
               manejador' = [manejador EXCEPT ![h] = [pc |-> "entrega", io |-> d,
                                                      proceso |-> Head(colas_ios[d])]],
               colas_ios' = [colas_ios EXCEPT ![d] = Tail(@)],
               UNCHANGED <<cola, colas_semaforos, pcp, hilo, consola, historia>>
        PROVE  ILugares'
    <3>1. UNCHANGED <<cola, colas_semaforos, pcp, hilo, consola, finalizados, recarga>>
      BY <1>4, <2>2 DEF SenialVieja, historia
    <3>2. manejador[h].pc = "libre"
      BY <1>4 DEF SenialVieja
    <3> QED
      BY <2>2, <3>1, <3>2, SenialSacaLugares
  <2> QED
    BY <1>4, <2>1, <2>2 DEF SenialVieja
<1> QED
  BY <1>2, <1>3, <1>4, RecargaCambiaLugares DEF Principal, Recarga

LEMMA InitLugares == Init => ILugares
<1> SUFFICES ASSUME Init PROVE ILugares
  OBVIOUS
<1>1. PICK donde : donde = [x \in Consolas |-> Ninguna]
  OBVIOUS
<1>2. donde \in [Consolas -> Casas] /\ \A x \in Consolas : donde[x] = Ninguna
  BY <1>1 DEF Casas, Ninguna
<1>3. ASSUME NEW l, l # Ninguna PROVE Vive(donde, <<>>, l)
  BY <1>2, <1>3 DEF Vive, Contains
<1>4. EnColas(donde)
  <2>1. \A n \in Nombres : cola[n] = <<>> /\ <<n, 0>> # Ninguna
    BY DEF Init, Nombres, Ninguna
  <2> QED
    BY <1>3, <2>1 DEF EnColas
<1>5. EnSemaforos(donde) /\ EnIOs(donde)
  <2>1. /\ \A s \in Semaforos : colas_semaforos[s] = <<>> /\ <<"semaforo", s>> # Ninguna
        /\ \A d \in IOs : colas_ios[d] = <<>> /\ <<"io", d>> # Ninguna
    BY DEF Init, Ninguna
  <2> QED
    BY <1>3, <2>1 DEF EnSemaforos, EnIOs
<1>6. EnPCP(donde) /\ EnConsolas(donde)
  BY <1>2, ConstantesNucleo DEF Init, EnPCP, EnConsolas, Ninguna
<1>7. EnCPUs(donde) /\ EnManejadores(donde)
  BY <1>2, ConstantesNucleo DEF Init, EnCPUs, EnCPU, EnManejadores, EnManejador, Ninguna
<1>8. ManosVacias /\ SinRecarga
  BY DEF Init, ManosVacias, SinRecarga
<1>9. Cargas(donde) /\ Finales(donde)
  BY <1>2 DEF Init, Cargas, Finales
<1> QED
  BY <1>2, <1>4, <1>5, <1>6, <1>7, <1>8, <1>9 DEF ILugares, LugaresBien

LEMMA NextLugares == Tipos /\ TipoPrincipal /\ ILugares /\ [Next]_vars => ILugares'
<1> SUFFICES ASSUME Tipos, TipoPrincipal, ILugares, [Next]_vars PROVE ILugares'
  OBVIOUS
<1>1. ASSUME UNCHANGED recarga,
             UNCHANGED <<cola, colas_semaforos, colas_ios, finalizados, pcp, hilo, consola,
                         manejador>>
      PROVE  ILugares'
  <2>1. SinRecarga
    BY DEF ILugares, LugaresBien
  <2>2. SinRecarga'
    BY <1>1, <2>1 DEF SinRecarga
  <2> QED
    BY <1>1, <2>2, AjenosLugares
<1>2. CASE UNCHANGED vars
  BY <1>1, <1>2 DEF vars, bloqueados, hilos, historia, principal
<1>3. ASSUME NEW k \in CPUs, Programa(k) \/ ProgramaSenial(k) \/ ProgramaCae(k), UNCHANGED principal
      PROVE  ILugares'
  <2>1. UNCHANGED <<cola, colas_semaforos, colas_ios, finalizados, pcp, hilo, consola, manejador>>
    <3>1. ProgramaSigue
      BY <1>3 DEF Programa, ProgramaLlama, ProgramaPCB, ProgramaQuantum, ProgramaAborta,
         ProgramaFinaliza, TerminaRafaga, ProgramaSenial, ProgramaCae
    <3> QED
      BY <3>1 DEF ProgramaSigue, bloqueados, hilos, historia
  <2> QED
    BY <1>1, <1>3, <2>1 DEF principal
<1>4. ASSUME Hilos, UNCHANGED principal PROVE ILugares'
  BY <1>3, <1>4, PLPLugares, HiloPCPLugares, HiloConsolaLugares, HiloCPULugares, CpuQuieta,
     AnalizarIOLugares DEF Hilos
<1> QED
  BY <1>2, <1>4, PrincipalLugares DEF Next, Sigue

-----------------------------------------------------------------------------
(* What it says of each process.                                            *)

\* The places where it is are of the kind that donde says.
LEMMA LugarDe ==
  ASSUME Tipos, NEW donde, LugaresBien(donde), NEW p \in Consolas, NEW l \in Lugares(p)
  PROVE  \/ \E n \in Nombres : \E i \in 1..Len(cola[n]) :
              l = <<n, i>> /\ cola[n][i] = p /\ donde[p] = <<n, 0>>
         \/ \E s \in Semaforos : \E i \in 1..Len(colas_semaforos[s]) :
              /\ l = <<<<"semaforo", s>>, i>> /\ colas_semaforos[s][i] = p
              /\ donde[p] = <<"semaforo", s>>
         \/ \E d \in IOs : \E i \in 1..Len(colas_ios[d]) :
              l = <<<<"io", d>>, i>> /\ colas_ios[d][i] = p /\ donde[p] = <<"io", d>>
         \/ l = donde[p] /\ donde[p][1] \in {"PCP", "CPU", "SIGRTMIN"}
         \/ l = <<"consola", p>> /\ donde[p] = <<"consola", 0>>
<1>1. ASSUME NEW n \in Nombres, l \in En(n, cola[n], p)
      PROVE  \E i \in 1..Len(cola[n]) : l = <<n, i>> /\ cola[n][i] = p /\ donde[p] = <<n, 0>>
  <2>1. PICK i \in DOMAIN cola[n] : cola[n][i] = p /\ l = <<n, i>>
    BY <1>1 DEF En
  <2>2. DOMAIN cola[n] = 1..Len(cola[n]) /\ Vive(donde, cola[n], <<n, 0>>)
    <3>1. DOMAIN cola[n] = 1..Len(cola[n])
      <4>1. /\ cola.new \in Seq(Consolas) /\ cola.ready \in Seq(Consolas \cup {NULO})
            /\ cola.exec \in Seq(Consolas) /\ cola.exit \in Seq(Consolas)
        BY DEF Tipos, TiposDeHilos, TipoColas, Colas
      <4> QED
        BY <4>1 DEF Nombres
    <3>2. Vive(donde, cola[n], <<n, 0>>)
      BY DEF LugaresBien, EnColas
    <3> QED
      BY <3>1, <3>2
  <2>3. i \in 1..Len(cola[n])
    BY <2>1, <2>2
  <2>4. donde[p] = <<n, 0>>
    BY <2>1, <2>2, <2>3 DEF Vive, Contains
  <2> QED
    BY <2>1, <2>3, <2>4
<1>2. ASSUME NEW s \in Semaforos, l \in En(<<"semaforo", s>>, colas_semaforos[s], p)
      PROVE  \E i \in 1..Len(colas_semaforos[s]) :
               /\ l = <<<<"semaforo", s>>, i>> /\ colas_semaforos[s][i] = p
               /\ donde[p] = <<"semaforo", s>>
  <2>1. PICK i \in DOMAIN colas_semaforos[s] :
          colas_semaforos[s][i] = p /\ l = <<<<"semaforo", s>>, i>>
    BY <1>2 DEF En
  <2>2. colas_semaforos[s] \in Seq(Consolas) /\ Vive(donde, colas_semaforos[s], <<"semaforo", s>>)
    BY DEF LugaresBien, EnSemaforos, Tipos, TiposDeHilos, TipoBloqueados
  <2>3. i \in 1..Len(colas_semaforos[s])
    BY <2>1, <2>2
  <2>4. donde[p] = <<"semaforo", s>>
    BY <2>1, <2>2, <2>3 DEF Vive, Contains
  <2> QED
    BY <2>1, <2>3, <2>4
<1>3. ASSUME NEW d \in IOs, l \in En(<<"io", d>>, colas_ios[d], p)
      PROVE  \E i \in 1..Len(colas_ios[d]) :
               l = <<<<"io", d>>, i>> /\ colas_ios[d][i] = p /\ donde[p] = <<"io", d>>
  <2>1. PICK i \in DOMAIN colas_ios[d] : colas_ios[d][i] = p /\ l = <<<<"io", d>>, i>>
    BY <1>3 DEF En
  <2>2. colas_ios[d] \in Seq(Consolas) /\ Vive(donde, colas_ios[d], <<"io", d>>)
    BY DEF LugaresBien, EnIOs, Tipos, TiposDeHilos, TipoBloqueados
  <2>3. i \in 1..Len(colas_ios[d])
    BY <2>1, <2>2
  <2>4. donde[p] = <<"io", d>>
    BY <2>1, <2>2, <2>3 DEF Vive, Contains
  <2> QED
    BY <2>1, <2>3, <2>4
<1>4. ASSUME \/ l = <<"PCP", 0>> /\ pcp.proceso = p
             \/ \E k \in CPUs : l = <<"CPU", k>> /\ hilo[k].proceso = p /\ hilo[k].pc # "terminado"
             \/ \E h \in Manejadores : l = <<"SIGRTMIN", h>> /\ manejador[h].proceso = p
      PROVE  l = donde[p] /\ donde[p][1] \in {"PCP", "CPU", "SIGRTMIN"}
  BY <1>4 DEF LugaresBien, EnPCP, EnCPUs, EnCPU, EnManejadores, EnManejador
<1>5. ASSUME l = <<"consola", p>>, consola[p].pc = "flag"
      PROVE  donde[p] = <<"consola", 0>>
  BY <1>5 DEF LugaresBien, EnConsolas
<1>6. \/ \E n \in Nombres : l \in En(n, cola[n], p)
      \/ \E s \in Semaforos : l \in En(<<"semaforo", s>>, colas_semaforos[s], p)
      \/ \E d \in IOs : l \in En(<<"io", d>>, colas_ios[d], p)
      \/ l = <<"PCP", 0>> /\ pcp.proceso = p
      \/ \E k \in CPUs : l = <<"CPU", k>> /\ hilo[k].proceso = p /\ hilo[k].pc # "terminado"
      \/ \E h \in Manejadores : l = <<"SIGRTMIN", h>> /\ manejador[h].proceso = p
      \/ l = <<"consola", p>> /\ consola[p].pc = "flag"
  BY DEF Lugares, Nombres
<1> QED
  BY <1>1, <1>2, <1>3, <1>4, <1>5, <1>6

LEMMA HayLugar ==
  ASSUME Tipos, NEW donde, LugaresBien(donde), NEW p \in Consolas, donde[p] # Ninguna
  PROVE  \E l : l \in Lugares(p)
<1>1. donde[p] \in Casas
  BY DEF LugaresBien
<1>2. ASSUME NEW n \in Nombres, donde[p] = <<n, 0>>
      PROVE  \E l : l \in Lugares(p)
  <2>1. cola[n] \in Seq(Consolas \cup {NULO}) /\ Contains(cola[n], p)
    BY <1>2 DEF LugaresBien, EnColas, Vive, Nombres, Tipos, TiposDeHilos, TipoColas, Colas
  <2>2. PICK i \in DOMAIN cola[n] : cola[n][i] = p
    BY <2>1 DEF Contains
  <2>3. <<n, i>> \in En(n, cola[n], p)
    BY <2>2 DEF En
  <2> QED
    BY <2>3 DEF Lugares, Nombres
<1>3. ASSUME NEW s \in Semaforos, donde[p] = <<"semaforo", s>>
      PROVE  \E l : l \in Lugares(p)
  <2>1. colas_semaforos[s] \in Seq(Consolas) /\ Contains(colas_semaforos[s], p)
    BY <1>3 DEF LugaresBien, EnSemaforos, Vive, Tipos, TiposDeHilos, TipoBloqueados
  <2>2. PICK i \in DOMAIN colas_semaforos[s] : colas_semaforos[s][i] = p
    BY <2>1 DEF Contains
  <2>3. <<<<"semaforo", s>>, i>> \in En(<<"semaforo", s>>, colas_semaforos[s], p)
    BY <2>2 DEF En
  <2> QED
    BY <2>3 DEF Lugares
<1>4. ASSUME NEW d \in IOs, donde[p] = <<"io", d>>
      PROVE  \E l : l \in Lugares(p)
  <2>1. colas_ios[d] \in Seq(Consolas) /\ Contains(colas_ios[d], p)
    BY <1>4 DEF LugaresBien, EnIOs, Vive, Tipos, TiposDeHilos, TipoBloqueados
  <2>2. PICK i \in DOMAIN colas_ios[d] : colas_ios[d][i] = p
    BY <2>1 DEF Contains
  <2>3. <<<<"io", d>>, i>> \in En(<<"io", d>>, colas_ios[d], p)
    BY <2>2 DEF En
  <2> QED
    BY <2>3 DEF Lugares
<1>5. CASE donde[p] = <<"PCP", 0>>
  BY <1>5 DEF LugaresBien, EnPCP, Lugares
<1>6. ASSUME NEW k \in CPUs, donde[p] = <<"CPU", k>>
      PROVE  \E l : l \in Lugares(p)
  BY <1>6 DEF LugaresBien, EnCPUs, EnCPU, Lugares
<1>7. ASSUME NEW h \in Manejadores, donde[p] = <<"SIGRTMIN", h>>
      PROVE  \E l : l \in Lugares(p)
  BY <1>7 DEF LugaresBien, EnManejadores, EnManejador, Lugares
<1>8. CASE donde[p] = <<"consola", 0>>
  <2>1. consola[p].pc = "flag"
    BY <1>8 DEF LugaresBien, EnConsolas
  <2>2. <<"consola", p>> \in {<<"consola", c>> : c \in {x \in {p} : consola[x].pc = "flag"}}
    BY <2>1
  <2> QED
    BY <2>2 DEF Lugares
<1> QED
  BY <1>1, <1>2, <1>3, <1>4, <1>5, <1>6, <1>7, <1>8 DEF Casas, Nombres, Ninguna

LEMMA UnLugar ==
  ASSUME Tipos, NEW donde, LugaresBien(donde), NEW p \in Consolas,
         NEW l \in Lugares(p), NEW m \in Lugares(p)
  PROVE  l = m
<1>1. ASSUME NEW n \in Nombres, NEW i \in 1..Len(cola[n]), NEW j \in 1..Len(cola[n]),
             cola[n][i] = p, cola[n][j] = p
      PROVE  i = j
  BY <1>1 DEF LugaresBien, EnColas, Vive
<1>2. ASSUME NEW s \in Semaforos, NEW i \in 1..Len(colas_semaforos[s]),
             NEW j \in 1..Len(colas_semaforos[s]), colas_semaforos[s][i] = p, colas_semaforos[s][j] = p
      PROVE  i = j
  BY <1>2 DEF LugaresBien, EnSemaforos, Vive
<1>3. ASSUME NEW d \in IOs, NEW i \in 1..Len(colas_ios[d]), NEW j \in 1..Len(colas_ios[d]),
             colas_ios[d][i] = p, colas_ios[d][j] = p
      PROVE  i = j
  BY <1>3 DEF LugaresBien, EnIOs, Vive
<1>4. ASSUME NEW n \in Nombres, NEW i \in 1..Len(cola[n]),
             l = <<n, i>>, cola[n][i] = p, donde[p] = <<n, 0>>
      PROVE  l = m
  <2>1. \E j \in 1..Len(cola[n]) : m = <<n, j>> /\ cola[n][j] = p
    BY <1>4, LugarDe DEF Nombres
  <2> QED
    BY <1>1, <1>4, <2>1
<1>5. ASSUME NEW s \in Semaforos, NEW i \in 1..Len(colas_semaforos[s]),
             l = <<<<"semaforo", s>>, i>>, colas_semaforos[s][i] = p, donde[p] = <<"semaforo", s>>
      PROVE  l = m
  <2>1. \E j \in 1..Len(colas_semaforos[s]) :
          m = <<<<"semaforo", s>>, j>> /\ colas_semaforos[s][j] = p
    BY <1>5, LugarDe DEF Nombres
  <2> QED
    BY <1>2, <1>5, <2>1
<1>6. ASSUME NEW d \in IOs, NEW i \in 1..Len(colas_ios[d]),
             l = <<<<"io", d>>, i>>, colas_ios[d][i] = p, donde[p] = <<"io", d>>
      PROVE  l = m
  <2>1. \E j \in 1..Len(colas_ios[d]) : m = <<<<"io", d>>, j>> /\ colas_ios[d][j] = p
    BY <1>6, LugarDe DEF Nombres
  <2> QED
    BY <1>3, <1>6, <2>1
<1>7. ASSUME l = donde[p], donde[p][1] \in {"PCP", "CPU", "SIGRTMIN"}
      PROVE  l = m
  BY <1>7, LugarDe DEF Nombres
<1>8. ASSUME l = <<"consola", p>>, donde[p] = <<"consola", 0>>
      PROVE  l = m
  BY <1>8, LugarDe DEF Nombres
<1> QED
  BY <1>4, <1>5, <1>6, <1>7, <1>8, LugarDe

\* FINALIZAR is sent once for a process, and when it is sent the process is in
\* cola_exit or was never admitted: for any consoles, CPUs and devices, any
\* failures and any reloads.
THEOREM FinalizadoUnaVezSiempre == Spec => []FinalizadoUnaVez
<1>1. Tipos /\ ILugares => FinalizadoUnaVez
  <2> SUFFICES ASSUME Tipos, ILugares, NEW p \in Consolas
               PROVE  /\ finalizados[p] <= 1
                      /\ finalizados[p] = 1 =>
                           Lugares(p) \subseteq {<<"exit", i>> : i \in DOMAIN cola.exit}
    BY DEF FinalizadoUnaVez
  <2>1. PICK donde \in [Consolas -> Casas] : LugaresBien(donde)
    BY DEF ILugares
  <2>2. finalizados[p] # 0 => finalizados[p] = 1 /\ donde[p] \in {Ninguna, Salida}
    BY <2>1 DEF LugaresBien, Finales
  <2>3. ASSUME donde[p] \in {Ninguna, Salida}, NEW l \in Lugares(p)
        PROVE  l \in {<<"exit", i>> : i \in DOMAIN cola.exit}
    <3>1. \E i \in 1..Len(cola["exit"]) : l = <<"exit", i>>
      BY <2>1, <2>3, LugarDe DEF Ninguna, Salida, Nombres
    <3>2. cola.exit \in Seq(Consolas)
      BY DEF Tipos, TiposDeHilos, TipoColas, Colas
    <3> QED
      BY <3>1, <3>2
  <2>4. finalizados[p] <= 1
    BY <2>2
  <2> QED
    BY <2>2, <2>3, <2>4
<1> QED
  BY <1>1, InitTipos, NextTipos, InitPrincipal, NextPrincipal, InitLugares, NextLugares, PTL DEF Spec

\* No process is lost between two queues nor is in two: one that was loaded is
\* in exactly one place, for any consoles, CPUs and devices and any failures, as
\* long as the configuration does not change (a reload throws the blocked away).
THEOREM UnSoloLugarSiempre ==
  ASSUME MaxRecargas = 0
  PROVE  Spec => []UnSoloLugar
<1>1. Tipos /\ ILugares => UnSoloLugar
  <2> SUFFICES ASSUME Tipos, ILugares, NEW p \in Consolas, consola[p].cargada
               PROVE  \E l \in Lugares(p) : Lugares(p) = {l}
    BY DEF UnSoloLugar
  <2>1. PICK donde \in [Consolas -> Casas] : LugaresBien(donde)
    BY DEF ILugares
  <2>2. donde[p] # Ninguna
    BY <2>1 DEF LugaresBien, Cargas
  <2>3. PICK l : l \in Lugares(p)
    BY <2>1, <2>2, HayLugar
  <2>4. \A m \in Lugares(p) : l = m
    BY <2>1, <2>3, UnLugar
  <2> QED
    BY <2>3, <2>4
<1> QED
  BY <1>1, InitTipos, NextTipos, InitPrincipal, NextPrincipal, InitLugares, NextLugares, PTL DEF Spec

=============================================================================
