-------------------------- MODULE NucleoProtocolo --------------------------
(* Theorems about Nucleo: the NUCLEO and a CPU program agree on what the     *)
(* program runs.  A CPU has one turn: its socket is in cola_CPU_libres, or   *)
(* the PCP has it, or one process of cola_exec has it, or its thread is      *)
(* serving a report.  What the program may send, and the thread may find in  *)
(* the socket, depends on who has the turn.                                  *)
EXTENDS NucleoLugares

Libre(k) == Contains(cola.CPU_libres, k) \/ pcp.sock = k

\* The processes that dameProceso could find for the socket.
Suyos(k) == {x \in Consolas : Contains(cola.exec, x) /\ t_proceso[x].socket_CPU = k}

\* The thread has the turn: it has yet to return the CPU, or never will.
ConTurno == {"accept", "304", "320", "341", "341pcb", "370", "380", "380vacia", "380ocupada",
             "aborta", "libera", "liberaYSuelta", "terminado"}

\* The thread holds a process that will, or may, go on in the same CPU.
Pendientes == {"341", "341pcb", "380"}

Cayendo == {"aborta", "recorre", "sem_wait", "fin"}

\* b is made of requests that leave the process where it is, but for the last
\* packet, which is op.
SoloConsultas(b) == \A i \in 1..Len(b) : b[i].op \in Consultas
AlFinal(b, op) ==
  \A i \in 1..Len(b) : IF i = Len(b) THEN b[i].op = op ELSE b[i].op \in Consultas

\* What a program that ended its burst left in the socket.
Cierre(b) ==
  \A i \in 1..Len(b) :
    \/ b[i].op \in Consultas /\ i < Len(b)
    \/ b[i].op \in {"304", "320", "370", "340"} /\ i = Len(b)
    \/ b[i].op = "380" /\ i = Len(b) - 1 /\ b[Len(b)].op = "340"

\* The process of a program that is blocked: the request is the last packet, or
\* its thread is serving it.
Bloqueado(p, suyos, h, b, op, pcs) ==
  \/ suyos = {p} /\ b # <<>> /\ AlFinal(b, op)
  \/ h.pc \in pcs /\ h.proceso = p /\ b = <<>>

Turno(libre, suyos, h) ==
  /\ \A x, y \in suyos : x = y
  /\ libre \/ h.pc \in ConTurno => suyos = {}
  /\ h.pc \in ConTurno => ~libre

Estado(k, h, b, c) ==
  /\ c.pcb # NULO <=> c.estado \in EnRafaga
  /\ c.sigusr1 => c.estado \in EnRafaga \cup {"muerta"}
  /\ c.programaAbortado => c.sigusr1 /\ k \in CPUsConInt
  /\ h.pc = "accept" <=> c.estado = "apagada"
  /\ h.pc \in Cayendo => c.estado = "muerta"

Conversa(libre, suyos, h, b, c) ==
  /\ c.estado = "apagada" => b = <<>>
  /\ c.estado \in {"ejecuta", "espera352"} => suyos = {c.pcb} /\ SoloConsultas(b)
  /\ c.estado = "espera342" => Bloqueado(c.pcb, suyos, h, b, "341", {"341"})
  /\ c.estado = "bloqueada" => Bloqueado(c.pcb, suyos, h, b, "380", {"341pcb", "380"})
  /\ c.estado = "espera303" =>
       /\ Cierre(b)
       /\ h.pc # "341"
       /\ h.pc \in {"341pcb", "380"} => Len(b) = 1 /\ b[1].op = "340"
       /\ libre \/ h.pc \in ConTurno \ Pendientes => b = <<>>

\* What is in the socket of a CPU that got no SIGINT, even of a dead one: a
\* request finds its process, and nothing is asked after a report.
Reclama(op) == op \in Entregas \cup Consultas
Atendible(suyos, b) ==
  /\ (\E i \in 1..Len(b) : Reclama(b[i].op)) => suyos # {}
  /\ \A i, j \in 1..Len(b) : i < j /\ b[i].op \in Entregas => ~Reclama(b[j].op)
  /\ \A i \in 1..Len(b) : b[i].op = "-1" => i = Len(b)

Acorde(k, libre, suyos, h, b, c) ==
  /\ Turno(libre, suyos, h)
  /\ Estado(k, h, b, c)
  /\ Conversa(libre, suyos, h, b, c)
  /\ k \notin CPUsConInt => Atendible(suyos, b)

Acuerdo(k) == Acorde(k, Libre(k), Suyos(k), hilo[k], buzon[k], cpu[k])

SinRepetidos(q) == \A i, j \in 1..Len(q) : q[i] = q[j] => i = j

\* A socket is once in cola_CPU_libres, and then the PCP does not have it.
SinRepetir ==
  /\ SinRepetidos(cola.CPU_libres)
  /\ pcp.sock # NULO => pcp.pc = "manda" /\ ~Contains(cola.CPU_libres, pcp.sock)

\* The process that a thread holds has the socket of the thread.
SusSockets ==
  \A k \in CPUs : hilo[k].pc \in Pendientes => t_proceso[hilo[k].proceso].socket_CPU = k

SinSalir == CPUsConInt = {} => caida # "exit"

IProtocolo ==
  /\ SinRepetir /\ SusSockets /\ SinSalir
  /\ \A k \in CPUs : Acuerdo(k)
-----------------------------------------------------------------------------
(* What is left in the socket when a packet is taken.                        *)

LEMMA ColaDe ==
  ASSUME NEW b \in Seq(Paquetes), b # <<>>
  PROVE  /\ Len(b) \in Nat \ {0} /\ Len(Tail(b)) = Len(b) - 1 /\ Head(b) = b[1]
         /\ \A i \in 1..Len(Tail(b)) : i + 1 \in 1..Len(b) /\ Tail(b)[i] = b[i + 1]
  OBVIOUS

LEMMA ColaVacia ==
  ASSUME NEW b \in Seq(Paquetes), b # <<>>, Len(b) = 1
  PROVE  Tail(b) = <<>>
<1> DEFINE t == Tail(b)
<1>1. t \in Seq(Paquetes) /\ Len(t) = Len(b) - 1
  OBVIOUS
<1> HIDE DEF t
<1>2. t = <<>>
  BY <1>1
<1> QED
  BY <1>2 DEF t

LEMMA ColaSoloConsultas ==
  ASSUME NEW b \in Seq(Paquetes), b # <<>>, SoloConsultas(b)
  PROVE  SoloConsultas(Tail(b)) /\ Head(b).op \in Consultas
<1> DEFINE t == Tail(b)
<1>1. /\ Len(b) \in Nat \ {0} /\ Len(t) = Len(b) - 1 /\ Head(b) = b[1]
      /\ \A i \in 1..Len(t) : i + 1 \in 1..Len(b) /\ t[i] = b[i + 1]
  BY ColaDe
<1> HIDE DEF t
<1>2. SoloConsultas(t) /\ Head(b).op \in Consultas
  BY <1>1 DEF SoloConsultas
<1> QED
  BY <1>2 DEF t

LEMMA ColaAlFinal ==
  ASSUME NEW b \in Seq(Paquetes), b # <<>>, NEW op, AlFinal(b, op)
  PROVE  \/ Head(b).op \in Consultas /\ Tail(b) # <<>> /\ AlFinal(Tail(b), op)
         \/ Head(b).op = op /\ Tail(b) = <<>>
<1> DEFINE t == Tail(b)
<1>1. /\ Len(b) \in Nat \ {0} /\ Len(t) = Len(b) - 1 /\ Head(b) = b[1]
      /\ \A i \in 1..Len(t) : i + 1 \in 1..Len(b) /\ t[i] = b[i + 1]
  BY ColaDe
<1>3. CASE Len(b) = 1
  <2>1. Head(b).op = op
    BY <1>1, <1>3 DEF AlFinal
  <2>2. t = <<>>
    BY <1>3, ColaVacia
  <2> QED
    BY <2>1, <2>2
<1>4. CASE Len(b) # 1
  <2> HIDE DEF t
  <2>1. Head(b).op \in Consultas
    BY <1>1, <1>4 DEF AlFinal
  <2>2. t # <<>>
    BY <1>1, <1>4
  <2>3. AlFinal(t, op)
    BY <1>1 DEF AlFinal
  <2> QED
    BY <2>1, <2>2, <2>3 DEF t
<1> QED
  BY <1>3, <1>4

LEMMA ColaCierre ==
  ASSUME NEW b \in Seq(Paquetes), b # <<>>, Cierre(b)
  PROVE  /\ Cierre(Tail(b))
         /\ Head(b).op \in Consultas \cup {"304", "320", "370", "340", "380"}
         /\ Head(b).op \in {"304", "320", "370", "340"} => Tail(b) = <<>>
         /\ Head(b).op = "380" => Len(Tail(b)) = 1 /\ Tail(b)[1].op = "340"
<1> DEFINE t == Tail(b)
<1>1. /\ Len(b) \in Nat \ {0} /\ Len(t) = Len(b) - 1 /\ Head(b) = b[1]
      /\ \A i \in 1..Len(t) : i + 1 \in 1..Len(b) /\ t[i] = b[i + 1]
  BY ColaDe
<1>3. \/ b[1].op \in Consultas /\ 1 < Len(b)
      \/ b[1].op \in {"304", "320", "370", "340"} /\ 1 = Len(b)
      \/ b[1].op = "380" /\ 1 = Len(b) - 1 /\ b[Len(b)].op = "340"
  <2>1. 1 \in 1..Len(b)
    BY <1>1
  <2> QED
    BY <2>1 DEF Cierre
<1>4. Len(b) = 1 => t = <<>>
  BY ColaVacia
<1> HIDE DEF t
<1>5. Cierre(t)
  <2> SUFFICES ASSUME NEW i \in 1..Len(t)
               PROVE  \/ t[i].op \in Consultas /\ i < Len(t)
                      \/ t[i].op \in {"304", "320", "370", "340"} /\ i = Len(t)
                      \/ t[i].op = "380" /\ i = Len(t) - 1 /\ t[Len(t)].op = "340"
    BY DEF Cierre
  <2>1. PICK j \in 1..Len(b) : j = i + 1 /\ t[i] = b[j] /\ t[Len(t)] = b[Len(b)]
    BY <1>1
  <2>2. \/ b[j].op \in Consultas /\ j < Len(b)
        \/ b[j].op \in {"304", "320", "370", "340"} /\ j = Len(b)
        \/ b[j].op = "380" /\ j = Len(b) - 1 /\ b[Len(b)].op = "340"
    BY <2>1 DEF Cierre
  <2>3. /\ j < Len(b) => i < Len(t)
        /\ j = Len(b) => i = Len(t)
        /\ j = Len(b) - 1 => i = Len(t) - 1
    BY <1>1, <2>1
  <2> QED
    BY <2>1, <2>2, <2>3
<1>6. b[1].op \in {"304", "320", "370", "340"} => Len(b) = 1
  BY <1>1, <1>3 DEF Consultas
<1>7. b[1].op = "380" => Len(t) = 1 /\ t[1].op = "340"
  <2>1. ASSUME b[1].op = "380" PROVE Len(t) = 1 /\ b[Len(b)].op = "340"
    <3>1. 1 = Len(b) - 1 /\ b[Len(b)].op = "340"
      BY <1>3, <2>1 DEF Consultas
    <3> QED
      BY <1>1, <3>1
  <2>2. ASSUME Len(t) = 1 PROVE t[1] = b[Len(b)]
    <3>1. PICK i \in 1..Len(t) : i = 1
      BY <2>2
    <3>2. t[i] = b[i + 1]
      BY <1>1
    <3>3. i + 1 = Len(b)
      <4>1. Len(b) - 1 = i /\ Len(b) \in Nat
        BY <1>1, <2>2, <3>1
      <4> QED
        BY <4>1
    <3> QED
      BY <3>1, <3>2, <3>3
  <2> QED
    BY <2>1, <2>2
<1> QED
  BY <1>1, <1>3, <1>4, <1>5, <1>6, <1>7 DEF t

LEMMA ColaAtendible ==
  ASSUME NEW b \in Seq(Paquetes), b # <<>>, NEW suyos, Atendible(suyos, b), NEW otros,
         otros = suyos \/ Head(b).op \in Entregas
  PROVE  Atendible(otros, Tail(b))
<1> DEFINE t == Tail(b)
<1>1. /\ Len(b) \in Nat \ {0} /\ Len(t) = Len(b) - 1 /\ Head(b) = b[1]
      /\ \A i \in 1..Len(t) : i + 1 \in 1..Len(b) /\ t[i] = b[i + 1]
  BY ColaDe
<1> HIDE DEF t
<1>2. Len(t) \in Nat /\ \A i, j \in 1..Len(t) : i < j => i + 1 < j + 1
  BY <1>1
<1>3. \A i, j \in 1..Len(t) : i < j /\ t[i].op \in Entregas => ~Reclama(t[j].op)
  BY <1>1, <1>2 DEF Atendible
<1>4. ASSUME NEW i \in 1..Len(t), t[i].op = "-1"
      PROVE  i = Len(t)
  <2>1. PICK j \in 1..Len(b) : j = i + 1 /\ b[j].op = "-1"
    BY <1>1, <1>4
  <2>2. j = Len(b)
    BY <2>1 DEF Atendible
  <2> QED
    BY <1>1, <2>1, <2>2
<1>5. (\E i \in 1..Len(t) : Reclama(t[i].op)) => otros # {}
  <2>1. CASE otros = suyos
    BY <1>1, <2>1 DEF Atendible
  <2>2. CASE Head(b).op \in Entregas
    <3>1. \A i \in 1..Len(t) : 1 \in 1..Len(b) /\ 1 < i + 1
      BY <1>1
    <3> QED
      BY <1>1, <2>2, <3>1 DEF Atendible
  <2> QED
    BY <2>1, <2>2
<1>6. Atendible(otros, t)
  BY <1>3, <1>4, <1>5 DEF Atendible
<1> QED
  BY <1>6 DEF t
-----------------------------------------------------------------------------
(* How the agreement changes.  The new value of each part has the letter     *)
(* that follows.                                                             *)

\* The thread goes on with what it was doing.
LEMMA Avanza ==
  ASSUME NEW k, NEW libre, NEW suyos, NEW h, NEW b, NEW c, Acorde(k, libre, suyos, h, b, c),
         NEW i, h.pc \notin Pendientes \cup {"accept"}, i.pc \notin Pendientes \cup {"accept"},
         i.pc \in ConTurno => h.pc \in ConTurno, i.pc \in Cayendo => h.pc \in Cayendo
  PROVE  Acorde(k, libre, suyos, i, b, c)
<1>1. Turno(libre, suyos, i)
  BY DEF Acorde, Turno
<1>2. Estado(k, i, b, c)
  BY DEF Acorde, Estado
<1>3. Conversa(libre, suyos, i, b, c)
  BY DEF Acorde, Conversa, Bloqueado, Pendientes
<1> QED
  BY <1>1, <1>2, <1>3 DEF Acorde

\* The thread gives the turn up, and the CPU is free if it is returned.
LEMMA DejaElTurno ==
  ASSUME NEW k, NEW libre, NEW suyos, NEW h, NEW b, NEW c, Acorde(k, libre, suyos, h, b, c),
         NEW i, NEW libre_ \in BOOLEAN,
         h.pc \in {"libera", "liberaYSuelta", "terminado"}, i.pc = "recibe"
  PROVE  Acorde(k, libre_, suyos, i, b, c)
<1>1. suyos = {}
  BY DEF Acorde, Turno, ConTurno
<1>2. Turno(libre_, suyos, i)
  BY <1>1 DEF Acorde, Turno, ConTurno
<1>3. Estado(k, i, b, c)
  BY DEF Acorde, Estado, Cayendo
<1>4. Conversa(libre_, suyos, i, b, c)
  BY <1>1 DEF Acorde, Conversa, Bloqueado, Pendientes, ConTurno
<1> QED
  BY <1>2, <1>3, <1>4 DEF Acorde

LEMMA Conecta ==
  ASSUME NEW k, NEW libre, NEW suyos, NEW h, NEW b, NEW c, Acorde(k, libre, suyos, h, b, c),
         NEW i, NEW d, h.pc = "accept", i.pc = "recibe", b \in Seq(Paquetes),
         d.estado = "espera303", d.pcb = c.pcb, d.sigusr1 = c.sigusr1,
         d.programaAbortado = c.programaAbortado
  PROVE  Acorde(k, TRUE, suyos, i, b, d)
<1>1. suyos = {} /\ b = <<>> /\ c.estado = "apagada"
  BY DEF Acorde, Turno, ConTurno, Estado, Conversa
<1>2. Turno(TRUE, suyos, i)
  BY <1>1 DEF Turno, ConTurno
<1>3. Estado(k, i, b, d)
  BY <1>1 DEF Acorde, Estado, Cayendo, EnRafaga
<1>4. Cierre(b)
  BY <1>1 DEF Cierre
<1>5. Conversa(TRUE, suyos, i, b, d)
  BY <1>1, <1>4 DEF Conversa, Pendientes
<1> QED
  BY <1>2, <1>3, <1>5 DEF Acorde

\* A report takes the process out of cola_exec.
LEMMA Toma ==
  ASSUME NEW k, NEW libre, NEW suyos, NEW h, NEW b, NEW c, Acorde(k, libre, suyos, h, b, c),
         NEW i, NEW x \in suyos, h.pc = "recibe", b \in Seq(Paquetes), b # <<>>,
         Head(b).op \in Entregas, i.pc = Head(b).op, i.proceso = x
  PROVE  Acorde(k, libre, {}, i, Tail(b), c)
<1> DEFINE t == Tail(b)
<1>1. suyos = {x} /\ ~libre
  BY DEF Acorde, Turno
<1>2. Turno(libre, {}, i)
  BY <1>1 DEF Turno
<1>3. i.pc \notin Cayendo \cup {"accept"} /\ Head(b).op \notin Consultas
  BY DEF Entregas, Cayendo, Consultas
<1>4. Estado(k, i, t, c)
  BY <1>3 DEF Acorde, Estado
<1>5. c.estado \notin {"apagada", "ejecuta", "espera352"}
  BY <1>3, ColaSoloConsultas DEF Acorde, Estado, Conversa
<1>6. c.estado = "espera342" => c.pcb = x /\ i.pc = "341" /\ t = <<>>
  BY <1>1, <1>3, ColaAlFinal DEF Acorde, Conversa, Bloqueado
<1>7. c.estado = "bloqueada" => c.pcb = x /\ i.pc = "380" /\ t = <<>>
  BY <1>1, <1>3, ColaAlFinal DEF Acorde, Conversa, Bloqueado
<1>8. c.estado = "espera303" =>
        /\ Cierre(t)
        /\ \/ i.pc \in {"304", "320", "370"} /\ t = <<>>
           \/ i.pc = "380" /\ Len(t) = 1 /\ t[1].op = "340"
  BY <1>3, ColaCierre DEF Acorde, Conversa, Entregas
<1> HIDE DEF t
<1>9. Conversa(libre, {}, i, t, c)
  BY <1>1, <1>5, <1>6, <1>7, <1>8 DEF Conversa, Bloqueado, Pendientes
<1>10. k \notin CPUsConInt => Atendible({}, t)
  BY ColaAtendible DEF Acorde, t
<1>11. Acorde(k, libre, {}, i, t, c)
  BY <1>2, <1>4, <1>9, <1>10 DEF Acorde
<1> QED
  BY <1>11 DEF t

\* Another packet leaves the process where it is.
LEMMA Lee ==
  ASSUME NEW k, NEW libre, NEW suyos, NEW h, NEW b, NEW c, Acorde(k, libre, suyos, h, b, c),
         NEW i, h.pc = "recibe", b \in Seq(Paquetes), b # <<>>,
         Head(b).op \notin Entregas \cup {"-1"}, i.pc \in Consultas \cup {"recibe"}
  PROVE  Acorde(k, libre, suyos, i, Tail(b), c)
<1> DEFINE t == Tail(b)
<1>1. i.pc \notin ConTurno \cup Cayendo \cup Pendientes
  BY DEF Consultas, ConTurno, Cayendo, Pendientes
<1>2. Turno(libre, suyos, i)
  BY <1>1 DEF Acorde, Turno
<1>3. Estado(k, i, t, c)
  BY <1>1 DEF Acorde, Estado, ConTurno
<1>4. /\ c.estado # "apagada"
      /\ c.estado \in {"ejecuta", "espera352"} => suyos = {c.pcb} /\ SoloConsultas(t)
  BY ColaSoloConsultas DEF Acorde, Estado, Conversa
<1>5. "341" \in Entregas /\ "380" \in Entregas
  BY DEF Entregas
<1>6. c.estado = "espera342" => suyos = {c.pcb} /\ t # <<>> /\ AlFinal(t, "341")
  BY <1>5, ColaAlFinal DEF Acorde, Conversa, Bloqueado
<1>7. c.estado = "bloqueada" => suyos = {c.pcb} /\ t # <<>> /\ AlFinal(t, "380")
  BY <1>5, ColaAlFinal DEF Acorde, Conversa, Bloqueado
<1>8. c.estado = "espera303" => Cierre(t) /\ ~libre
  BY ColaCierre DEF Acorde, Conversa
<1> HIDE DEF t
<1>9. Conversa(libre, suyos, i, t, c)
  BY <1>1, <1>4, <1>6, <1>7, <1>8 DEF Conversa, Bloqueado, Pendientes
<1>10. k \notin CPUsConInt => Atendible(suyos, t)
  BY ColaAtendible DEF Acorde, t
<1>11. Acorde(k, libre, suyos, i, t, c)
  BY <1>2, <1>3, <1>9, <1>10 DEF Acorde
<1> QED
  BY <1>11 DEF t

\* The PCB that a blocked program sends, or what a dead one left instead.
LEMMA LeePCB ==
  ASSUME NEW k, NEW libre, NEW suyos, NEW h, NEW b, NEW c, Acorde(k, libre, suyos, h, b, c),
         NEW i, h.pc \in {"341pcb", "380"}, b \in Seq(Paquetes), b # <<>>,
         i.pc \in {"recibe", "libera", "liberaYSuelta", "380vacia", "380ocupada"},
         NEW t, t = Tail(b) \/ (t = b /\ Head(b).op = "-1")
  PROVE  Acorde(k, libre, suyos, i, t, c)
<1>1. suyos = {} /\ ~libre
  BY DEF Acorde, Turno, ConTurno
<1>2. Turno(libre, suyos, i)
  BY <1>1 DEF Turno
<1>3. Estado(k, i, t, c)
  BY DEF Acorde, Estado, Cayendo
<1>4. c.estado \notin {"apagada", "ejecuta", "espera352", "espera342", "bloqueada"}
  BY <1>1 DEF Acorde, Estado, Conversa, Bloqueado
<1>5. c.estado = "espera303" => t = <<>>
  <2>1. c.estado = "espera303" => Len(b) = 1 /\ b[1].op = "340"
    BY DEF Acorde, Conversa
  <2>2. Head(b) = b[1]
    BY ColaDe
  <2>3. Len(b) = 1 => Tail(b) = <<>>
    BY ColaVacia
  <2> QED
    BY <2>1, <2>2, <2>3
<1>6. t = <<>> => Cierre(t)
  BY DEF Cierre
<1>7. Conversa(libre, suyos, i, t, c)
  BY <1>4, <1>5, <1>6 DEF Conversa, Pendientes
<1>8. k \notin CPUsConInt => Atendible(suyos, t)
  BY ColaAtendible DEF Acorde
<1> QED
  BY <1>2, <1>3, <1>7, <1>8 DEF Acorde

\* Answers to the program, which may be dead by then.
LEMMA Concede ==
  ASSUME NEW k, NEW libre, NEW suyos, NEW h, NEW b, NEW c, Acorde(k, libre, suyos, h, b, c),
         NEW i, NEW d, h.pc = "341", i.pc = "recibe", h.proceso # NULO,
         d.estado = IF c.estado = "espera342" THEN "ejecuta" ELSE c.estado,
         d.pcb = c.pcb, d.sigusr1 = c.sigusr1, d.programaAbortado = c.programaAbortado
  PROVE  Acorde(k, libre, {h.proceso}, i, b, d)
<1>1. suyos = {} /\ ~libre
  BY DEF Acorde, Turno, ConTurno
<1>2. c.estado \notin {"apagada", "ejecuta", "espera352", "bloqueada", "espera303"}
  BY <1>1 DEF Acorde, Estado, Conversa, Bloqueado
<1>3. c.estado = "espera342" => c.pcb = h.proceso /\ b = <<>>
  BY <1>1 DEF Acorde, Conversa, Bloqueado
<1>4. Turno(libre, {h.proceso}, i)
  BY <1>1 DEF Turno, ConTurno
<1>5. Estado(k, i, b, d)
  BY <1>2 DEF Acorde, Estado, EnRafaga, Cayendo
<1>6. Conversa(libre, {h.proceso}, i, b, d)
  BY <1>2, <1>3 DEF Conversa, SoloConsultas
<1>7. k \notin CPUsConInt => Atendible({h.proceso}, b)
  BY DEF Acorde, Atendible
<1> QED
  BY <1>4, <1>5, <1>6, <1>7 DEF Acorde

LEMMA Bloquea ==
  ASSUME NEW k, NEW libre, NEW suyos, NEW h, NEW b, NEW c, Acorde(k, libre, suyos, h, b, c),
         NEW i, NEW d, h.pc = "341", i.pc = "341pcb", i.proceso = h.proceso,
         d.estado = IF c.estado = "espera342" THEN "bloqueada" ELSE c.estado,
         d.pcb = c.pcb, d.sigusr1 = c.sigusr1, d.programaAbortado = c.programaAbortado
  PROVE  Acorde(k, libre, suyos, i, b, d)
<1>1. suyos = {} /\ ~libre
  BY DEF Acorde, Turno, ConTurno
<1>2. c.estado \notin {"apagada", "ejecuta", "espera352", "bloqueada", "espera303"}
  BY <1>1 DEF Acorde, Estado, Conversa, Bloqueado
<1>3. c.estado = "espera342" => c.pcb = h.proceso /\ b = <<>>
  BY <1>1 DEF Acorde, Conversa, Bloqueado
<1>4. Turno(libre, suyos, i)
  BY <1>1 DEF Turno
<1>5. Estado(k, i, b, d)
  BY <1>2 DEF Acorde, Estado, EnRafaga, Cayendo
<1>6. Conversa(libre, suyos, i, b, d)
  BY <1>2, <1>3 DEF Conversa, Bloqueado
<1> QED
  BY <1>4, <1>5, <1>6 DEF Acorde

LEMMA ContestaVariable ==
  ASSUME NEW k, NEW libre, NEW suyos, NEW h, NEW b, NEW c, Acorde(k, libre, suyos, h, b, c),
         NEW i, NEW d, h.pc \in {"350", "351"}, i.pc = "recibe",
         d.estado = c.estado \/ (c.estado = "espera352" /\ d.estado = "ejecuta"),
         d.pcb = c.pcb, d.sigusr1 = c.sigusr1, d.programaAbortado = c.programaAbortado
  PROVE  Acorde(k, libre, suyos, i, b, d)
<1>1. Acorde(k, libre, suyos, i, b, c)
  BY Avanza DEF Pendientes, ConTurno, Cayendo
<1>2. Estado(k, i, b, d)
  BY <1>1 DEF Acorde, Estado, EnRafaga
<1>3. Conversa(libre, suyos, i, b, d)
  BY <1>1 DEF Acorde, Conversa
<1> QED
  BY <1>1, <1>2, <1>3 DEF Acorde

\* The end of file is found only when the program has died.
LEMMA Muerta ==
  ASSUME NEW k, NEW libre, NEW suyos, NEW h, NEW b, NEW c, Acorde(k, libre, suyos, h, b, c),
         h.pc = "recibe", b \in Seq(Paquetes), b # <<>>, Head(b).op = "-1",
         c.estado \in EstadosCPU
  PROVE  c.estado = "muerta"
<1>1. "-1" \notin Consultas \cup {"341", "380", "304", "320", "370", "340"}
  BY DEF Consultas
<1>2. c.estado \notin {"apagada", "ejecuta", "espera352"}
  BY <1>1, ColaSoloConsultas DEF Acorde, Estado, Conversa
<1>3. c.estado # "espera342"
  BY <1>1, ColaAlFinal DEF Acorde, Conversa, Bloqueado
<1>4. c.estado # "bloqueada"
  BY <1>1, ColaAlFinal DEF Acorde, Conversa, Bloqueado
<1>5. c.estado # "espera303"
  BY <1>1, ColaCierre DEF Acorde, Conversa
<1> QED
  BY <1>2, <1>3, <1>4, <1>5 DEF EstadosCPU

LEMMA Cae ==
  ASSUME NEW k, NEW libre, NEW suyos, NEW h, NEW b, NEW c, Acorde(k, libre, suyos, h, b, c),
         NEW i, NEW otros, h.pc = "recibe", b \in Seq(Paquetes), b # <<>>, Head(b).op = "-1",
         c.estado \in EstadosCPU,
         \/ i.pc = "recorre" /\ otros = suyos
         \/ i.pc = "aborta" /\ otros = {} /\ suyos # {}
  PROVE  Acorde(k, libre, otros, i, b, c)
<1>1. c.estado = "muerta"
  BY Muerta
<1>2. Turno(libre, otros, i)
  BY DEF Acorde, Turno, ConTurno
<1>3. Estado(k, i, b, c)
  BY <1>1 DEF Acorde, Estado
<1>4. Conversa(libre, otros, i, b, c)
  BY <1>1 DEF Conversa
<1>5. k \notin CPUsConInt => Atendible(otros, b)
  <2> SUFFICES ASSUME Atendible(suyos, b) PROVE Atendible(otros, b)
    BY DEF Acorde
  <2>1. Len(b) = 1 /\ b[1].op = "-1"
    <3>1. 1 \in 1..Len(b) /\ b[1].op = "-1"
      BY ColaDe
    <3> QED
      BY <3>1 DEF Atendible
  <2>2. ~Reclama("-1")
    BY DEF Reclama, Entregas, Consultas
  <2> QED
    BY <2>1, <2>2 DEF Atendible
<1> QED
  BY <1>2, <1>3, <1>4, <1>5 DEF Acorde

\* The socket of a CPU that died leaves cola_CPU_libres.
LEMMA DejaDeEstarLibre ==
  ASSUME NEW k, NEW libre, NEW suyos, NEW h, NEW b, NEW c, Acorde(k, libre, suyos, h, b, c),
         NEW i, h.pc = "recorre", i.pc = "sem_wait"
  PROVE  Acorde(k, FALSE, suyos, i, b, c)
<1>1. c.estado = "muerta"
  BY DEF Acorde, Estado, Cayendo
<1>2. Turno(FALSE, suyos, i) /\ Estado(k, i, b, c) /\ Conversa(FALSE, suyos, i, b, c)
  BY <1>1 DEF Acorde, Turno, ConTurno, Estado, Conversa
<1> QED
  BY <1>2 DEF Acorde

\* The PCP gives the CPU a process, which a dead program does not take.
LEMMA Manda ==
  ASSUME NEW k, NEW suyos, NEW h, NEW b, NEW c, Acorde(k, TRUE, suyos, h, b, c),
         NEW d, NEW p, p # NULO,
         IF c.estado = "espera303"
           THEN /\ d.estado = "ejecuta" /\ d.pcb = p
                /\ d.sigusr1 = c.sigusr1 /\ d.programaAbortado = c.programaAbortado
           ELSE d = c
  PROVE  Acorde(k, FALSE, {p}, h, b, d)
<1>1. suyos = {} /\ h.pc \notin ConTurno
  BY DEF Acorde, Turno
<1>2. c.estado \notin {"apagada", "ejecuta", "espera342", "espera352", "bloqueada"}
  BY <1>1 DEF Acorde, Estado, Conversa, Bloqueado, ConTurno
<1>3. Turno(FALSE, {p}, h)
  BY <1>1 DEF Turno
<1>4. Estado(k, h, b, d)
  BY <1>2 DEF Acorde, Estado, EnRafaga
<1>5. c.estado = "espera303" => b = <<>>
  BY DEF Acorde, Conversa
<1>6. Conversa(FALSE, {p}, h, b, d)
  BY <1>2, <1>5 DEF Conversa, SoloConsultas
<1>7. k \notin CPUsConInt => Atendible({p}, b)
  BY DEF Acorde, Atendible
<1> QED
  BY <1>3, <1>4, <1>6, <1>7 DEF Acorde
-----------------------------------------------------------------------------
(* What the program does.                                                    *)

LEMMA Pega ==
  ASSUME NEW b \in Seq(Paquetes), NEW ps \in Seq(Paquetes)
  PROVE  /\ b \o ps \in Seq(Paquetes) /\ Len(b \o ps) = Len(b) + Len(ps)
         /\ Len(b) \in Nat /\ Len(ps) \in Nat
         /\ \A i \in 1..Len(b) : i \in 1..Len(b \o ps) /\ (b \o ps)[i] = b[i]
         /\ \A i \in 1..Len(b \o ps) : i \notin 1..Len(b) =>
              i - Len(b) \in 1..Len(ps) /\ (b \o ps)[i] = ps[i - Len(b)]
<1>1. /\ b \o ps \in Seq(Paquetes) /\ Len(b \o ps) = Len(b) + Len(ps)
      /\ \A i \in 1..(Len(b) + Len(ps)) :
           (b \o ps)[i] = IF i <= Len(b) THEN b[i] ELSE ps[i - Len(b)]
  BY ConcatProperties
<1>2. Len(b) \in Nat /\ Len(ps) \in Nat
  OBVIOUS
<1> DEFINE t == b \o ps
<1> HIDE DEF t
<1>3. /\ t \in Seq(Paquetes) /\ Len(t) = Len(b) + Len(ps)
      /\ \A i \in 1..(Len(b) + Len(ps)) : t[i] = IF i <= Len(b) THEN b[i] ELSE ps[i - Len(b)]
  BY <1>1 DEF t
<1>4. \A i \in 1..Len(b) : i \in 1..Len(t) /\ t[i] = b[i]
  BY <1>2, <1>3
<1>5. \A i \in 1..Len(t) : i \notin 1..Len(b) => i - Len(b) \in 1..Len(ps) /\ t[i] = ps[i - Len(b)]
  BY <1>2, <1>3
<1> QED
  BY <1>2, <1>3, <1>4, <1>5 DEF t

\* Only a dead program has sent an end of file.
LEMMA SinFin ==
  ASSUME NEW k, NEW libre, NEW suyos, NEW h, NEW b, NEW c, Acorde(k, libre, suyos, h, b, c),
         b \in Seq(Paquetes), c.estado \in EstadosCPU \ {"muerta"}
  PROVE  \A i \in 1..Len(b) : b[i].op # "-1"
<1>1. "-1" \notin Consultas \cup {"341", "380", "304", "320", "370", "340"}
  BY DEF Consultas
<1>2. c.estado \in {"apagada", "ejecuta", "espera352"} => \A i \in 1..Len(b) : b[i].op # "-1"
  BY <1>1 DEF Acorde, Conversa, SoloConsultas
<1>3. c.estado \in {"espera342", "bloqueada"} => \A i \in 1..Len(b) : b[i].op # "-1"
  BY <1>1 DEF Acorde, Conversa, Bloqueado, AlFinal
<1>4. c.estado = "espera303" => \A i \in 1..Len(b) : b[i].op # "-1"
  BY <1>1 DEF Acorde, Conversa, Cierre
<1> QED
  BY <1>2, <1>3, <1>4 DEF EstadosCPU

LEMMA AtendiblePega ==
  ASSUME NEW b \in Seq(Paquetes), NEW ps \in Seq(Paquetes), NEW suyos, Atendible(suyos, b),
         \A i \in 1..Len(b) : b[i].op # "-1", Atendible({1}, ps),
         \/ \A i \in 1..Len(ps) : ~Reclama(ps[i].op)
         \/ suyos # {} /\ \A i \in 1..Len(b) : b[i].op \notin Entregas
  PROVE  Atendible(suyos, b \o ps)
<1> DEFINE t == b \o ps
<1>1. /\ t \in Seq(Paquetes) /\ Len(t) = Len(b) + Len(ps) /\ Len(b) \in Nat /\ Len(ps) \in Nat
      /\ \A i \in 1..Len(b) : i \in 1..Len(t) /\ t[i] = b[i]
      /\ \A i \in 1..Len(t) : i \notin 1..Len(b) =>
              i - Len(b) \in 1..Len(ps) /\ t[i] = ps[i - Len(b)]
  BY Pega
<1> HIDE DEF t
<1>2. (\E i \in 1..Len(t) : Reclama(t[i].op)) => suyos # {}
  BY <1>1 DEF Atendible
<1>3. ASSUME NEW i \in 1..Len(t), t[i].op = "-1"
      PROVE  i = Len(t)
  <2>1. i \notin 1..Len(b)
    BY <1>1, <1>3
  <2>2. PICK x \in 1..Len(ps) : x = i - Len(b) /\ ps[x].op = "-1"
    BY <1>1, <1>3, <2>1
  <2>3. x = Len(ps)
    BY <2>2 DEF Atendible
  <2> QED
    BY <1>1, <2>2, <2>3
<1>4. ASSUME NEW i \in 1..Len(t), NEW j \in 1..Len(t), i < j, t[i].op \in Entregas
      PROVE  ~Reclama(t[j].op)
  <2>1. CASE j \in 1..Len(b)
    <3>1. i \in 1..Len(b)
      BY <1>1, <1>4, <2>1
    <3> QED
      BY <1>1, <1>4, <2>1, <3>1 DEF Atendible
  <2>2. CASE j \notin 1..Len(b)
    <3>1. PICK y \in 1..Len(ps) : y = j - Len(b) /\ t[j] = ps[y]
      BY <1>1, <2>2
    <3>2. CASE i \in 1..Len(b)
      BY <1>1, <1>4, <3>1, <3>2
    <3>3. CASE i \notin 1..Len(b)
      <4>1. PICK x \in 1..Len(ps) : x = i - Len(b) /\ t[i] = ps[x]
        BY <1>1, <3>3
      <4>2. x < y
        BY <1>1, <1>4, <3>1, <4>1
      <4> QED
        BY <1>4, <3>1, <4>1, <4>2 DEF Atendible
    <3> QED
      BY <3>2, <3>3
  <2> QED
    BY <2>1, <2>2
<1>5. Atendible(suyos, t)
  BY <1>2, <1>3, <1>4 DEF Atendible
<1> QED
  BY <1>5 DEF t

\* One more packet.
LEMMA PegaUno ==
  ASSUME NEW b \in Seq(Paquetes), NEW m \in Paquetes
  PROVE  /\ <<m>> \in Seq(Paquetes) /\ b \o <<m>> \in Seq(Paquetes)
         /\ Len(b) \in Nat /\ Len(b \o <<m>>) = Len(b) + 1
         /\ (b \o <<m>>)[Len(b) + 1] = m
         /\ \A i \in 1..Len(b) : (b \o <<m>>)[i] = b[i]
         /\ m.op # "-1" => Atendible({1}, <<m>>)
         /\ m.op = "-1" => Atendible({1}, <<m>>) /\ ~Reclama(m.op)
<1> DEFINE ps == <<m>>
<1>1. ps \in Seq(Paquetes) /\ Len(ps) = 1 /\ ps[1] = m
  OBVIOUS
<1>2. Atendible({1}, ps)
  BY <1>1 DEF Atendible
<1>3. m.op = "-1" => ~Reclama(m.op)
  BY DEF Reclama, Entregas, Consultas
<1> HIDE DEF ps
<1> DEFINE t == b \o ps
<1>4. /\ t \in Seq(Paquetes) /\ Len(t) = Len(b) + Len(ps) /\ Len(b) \in Nat
      /\ \A i \in 1..Len(b) : i \in 1..Len(t) /\ t[i] = b[i]
      /\ \A i \in 1..Len(t) : i \notin 1..Len(b) =>
              i - Len(b) \in 1..Len(ps) /\ t[i] = ps[i - Len(b)]
  BY <1>1, Pega
<1> HIDE DEF t
<1>5. Len(t) = Len(b) + 1
  BY <1>1, <1>4
<1>6. t[Len(b) + 1] = m
  <2>1. PICK j \in 1..Len(t) : j = Len(b) + 1 /\ j \notin 1..Len(b) /\ j - Len(b) = 1
    BY <1>4, <1>5
  <2> QED
    BY <1>1, <1>4, <2>1
<1> QED
  BY <1>1, <1>2, <1>3, <1>4, <1>5, <1>6 DEF ps, t

LEMMA Llama ==
  ASSUME NEW k, NEW libre, NEW suyos, NEW h, NEW b, NEW c, Acorde(k, libre, suyos, h, b, c),
         b \in Seq(Paquetes), NEW m \in Paquetes, NEW d, c.estado = "ejecuta",
         m.op \in {"341", "343", "350", "351", "360", "380"},
         d.estado = IF m.op = "341" THEN "espera342" ELSE IF m.op = "351" THEN "espera352"
                    ELSE IF m.op = "380" THEN "bloqueada" ELSE "ejecuta",
         d.pcb = c.pcb, d.sigusr1 = c.sigusr1, d.programaAbortado = c.programaAbortado
  PROVE  Acorde(k, libre, suyos, h, b \o <<m>>, d)
<1> DEFINE t == b \o <<m>>
<1>1. suyos = {c.pcb} /\ SoloConsultas(b)
  BY DEF Acorde, Conversa
<1>2. Turno(libre, suyos, h)
  BY DEF Acorde
<1>3. Estado(k, h, t, d)
  BY DEF Acorde, Estado, EnRafaga
<1>4. /\ t \in Seq(Paquetes) /\ Len(b) \in Nat /\ Len(t) = Len(b) + 1
      /\ t[Len(b) + 1] = m /\ \A i \in 1..Len(b) : t[i] = b[i]
  BY PegaUno
<1>5. k \notin CPUsConInt => Atendible(suyos, t)
  <2>1. <<m>> \in Seq(Paquetes) /\ Atendible({1}, <<m>>)
    BY PegaUno
  <2>2. \A i \in 1..Len(b) : b[i].op # "-1" /\ b[i].op \notin Entregas
    BY <1>1 DEF SoloConsultas, Consultas, Entregas
  <2> QED
    BY <1>1, <2>1, <2>2, AtendiblePega DEF Acorde
<1> HIDE DEF t
<1>6. \A i \in 1..Len(t) : IF i = Len(t) THEN t[i].op = m.op ELSE t[i].op \in Consultas
  BY <1>1, <1>4 DEF SoloConsultas
<1>7. m.op \in Consultas => SoloConsultas(t)
  BY <1>6 DEF SoloConsultas
<1>8. AlFinal(t, m.op) /\ t # <<>>
  BY <1>4, <1>6 DEF AlFinal
<1>9. m.op \in {"343", "350", "351", "360"} => m.op \in Consultas
  BY DEF Consultas
<1>10. Conversa(libre, suyos, h, t, d)
  BY <1>1, <1>7, <1>8, <1>9 DEF Conversa, Bloqueado
<1>11. Acorde(k, libre, suyos, h, t, d)
  BY <1>2, <1>3, <1>5, <1>10 DEF Acorde
<1> QED
  BY <1>11 DEF t

\* The burst ends and the program awaits another PCB.
LEMMA Termina ==
  ASSUME NEW k, NEW libre, NEW suyos, NEW h, NEW b, NEW c, Acorde(k, libre, suyos, h, b, c),
         b \in Seq(Paquetes), NEW m \in Paquetes, NEW d,
         \/ c.estado = "ejecuta" /\ m.op \in {"304", "320", "370"}
         \/ c.estado = "bloqueada" /\ m.op = "340",
         d.estado = "espera303", d.pcb = NULO, ~d.sigusr1, ~d.programaAbortado
  PROVE  Acorde(k, libre, suyos, h, b \o <<m>>, d)
<1> DEFINE t == b \o <<m>>
<1>1. \/ c.estado = "ejecuta" /\ suyos = {c.pcb} /\ SoloConsultas(b)
      \/ c.estado = "bloqueada" /\ suyos = {c.pcb} /\ AlFinal(b, "380") /\ b # <<>>
      \/ c.estado = "bloqueada" /\ h.pc \in {"341pcb", "380"} /\ b = <<>>
  BY DEF Acorde, Conversa, Bloqueado
<1>2. Turno(libre, suyos, h) /\ ~libre
  BY <1>1 DEF Acorde, Turno, ConTurno
<1>3. Estado(k, h, t, d)
  BY <1>1 DEF Acorde, Estado, EnRafaga
<1>4. /\ t \in Seq(Paquetes) /\ Len(b) \in Nat /\ Len(t) = Len(b) + 1
      /\ t[Len(b) + 1] = m /\ \A i \in 1..Len(b) : t[i] = b[i]
  BY PegaUno
<1>5. k \notin CPUsConInt => Atendible(suyos, t)
  <2>1. <<m>> \in Seq(Paquetes) /\ Atendible({1}, <<m>>)
    BY PegaUno
  <2>2. \A i \in 1..Len(b) : b[i].op # "-1"
    BY <1>1, SinFin DEF EstadosCPU
  <2>3. \/ suyos # {} /\ \A i \in 1..Len(b) : b[i].op \notin Entregas
        \/ \A i \in 1..Len(<<m>>) : ~Reclama(<<m>>[i].op)
    <3>1. \A i \in 1..Len(<<m>>) : <<m>>[i] = m
      OBVIOUS
    <3>2. m.op = "340" => ~Reclama(m.op)
      BY DEF Reclama, Entregas, Consultas
    <3>3. SoloConsultas(b) => \A i \in 1..Len(b) : b[i].op \notin Entregas
      BY DEF SoloConsultas, Consultas, Entregas
    <3> QED
      BY <1>1, <3>1, <3>2, <3>3
  <2> QED
    BY <2>1, <2>2, <2>3, AtendiblePega DEF Acorde
<1> HIDE DEF t
<1>6. Cierre(t)
  <2>1. CASE c.estado = "ejecuta"
    BY <1>1, <1>4, <2>1 DEF SoloConsultas, Cierre
  <2>2. CASE c.estado = "bloqueada" /\ b = <<>>
    BY <1>4, <2>2 DEF Cierre
  <2>3. CASE c.estado = "bloqueada" /\ AlFinal(b, "380") /\ b # <<>>
    BY <1>4, <2>3 DEF AlFinal, Cierre
  <2> QED
    BY <1>1, <2>1, <2>2, <2>3
<1>7. h.pc \in {"341pcb", "380"} => Len(t) = 1 /\ t[1].op = "340"
  <2>1. h.pc \in {"341pcb", "380"} => suyos = {}
    BY <1>2 DEF Turno, ConTurno
  <2>2. h.pc \in {"341pcb", "380"} => b = <<>> /\ c.estado = "bloqueada"
    BY <1>1, <2>1
  <2> QED
    BY <1>4, <2>2
<1>8. h.pc # "341" /\ h.pc \notin ConTurno \ Pendientes
  BY <1>1, <1>2 DEF Turno, ConTurno, Pendientes
<1>9. Conversa(libre, suyos, h, t, d)
  BY <1>2, <1>6, <1>7, <1>8 DEF Conversa
<1>10. Acorde(k, libre, suyos, h, t, d)
  BY <1>2, <1>3, <1>5, <1>9 DEF Acorde
<1> QED
  BY <1>10 DEF t

\* The program dies.
LEMMA SeMuere ==
  ASSUME NEW k, NEW libre, NEW suyos, NEW h, NEW b, NEW c, Acorde(k, libre, suyos, h, b, c),
         NEW t, NEW d, c.estado # "apagada", k \notin CPUsConInt => Atendible(suyos, t),
         d.estado = "muerta", d.pcb = NULO, d.sigusr1 = c.sigusr1,
         d.programaAbortado = c.programaAbortado
  PROVE  Acorde(k, libre, suyos, h, t, d)
<1>1. Estado(k, h, t, d)
  BY DEF Acorde, Estado, EnRafaga
<1>2. Conversa(libre, suyos, h, t, d)
  BY DEF Conversa
<1> QED
  BY <1>1, <1>2 DEF Acorde

\* What a program that got a SIGUSR1 sends at the end of its burst.
LEMMA Despedida ==
  ASSUME NEW op \in {"304", "320", "340", "370"}, NEW a \in {<<>>, <<Codigo("399")>>},
         NEW ps, ps = (a \o <<Codigo(op)>>) \o <<FinDeArchivo>>
  PROVE  /\ ps \in Seq(Paquetes) /\ Atendible({1}, ps)
         /\ op = "340" => \A i \in 1..Len(ps) : ~Reclama(ps[i].op)
<1>1. /\ Codigo(op) \in Paquetes /\ Codigo(op).op = op
      /\ FinDeArchivo \in Paquetes /\ FinDeArchivo.op = "-1"
      /\ Codigo("399") \in Paquetes /\ Codigo("399").op = "399"
  BY DEF Codigo, Paquete, Paquetes, FinDeArchivo
<1> DEFINE m == Codigo(op)
           n == FinDeArchivo
           v == Codigo("399")
<1> HIDE DEF m, n, v
<1>2. /\ m \in Paquetes /\ m.op = op /\ n \in Paquetes /\ n.op = "-1"
      /\ a \in Seq(Paquetes) /\ \A i \in 1..Len(a) : a[i].op = "399"
  <2>1. a \in {<<>>, <<v>>} /\ v \in Paquetes /\ v.op = "399"
    BY <1>1 DEF v
  <2>2. a \in Seq(Paquetes) /\ \A i \in 1..Len(a) : a[i].op = "399"
    <3>1. CASE a = <<>>
      BY <3>1
    <3>2. CASE a = <<v>>
      <4>1. <<v>> \in Seq(Paquetes) /\ \A i \in 1..Len(<<v>>) : <<v>>[i] = v
        BY <2>1
      <4> QED
        BY <2>1, <3>2, <4>1
    <3> QED
      BY <2>1, <3>1, <3>2
  <2> QED
    BY <1>1, <2>2 DEF m, n
<1>3. ~Reclama("399") /\ ~Reclama("340") /\ "399" \notin Entregas
  BY DEF Reclama, Entregas, Consultas
<1>4. Atendible({1}, a)
  BY <1>2, <1>3 DEF Atendible
<1>5. /\ <<m>> \in Seq(Paquetes) /\ a \o <<m>> \in Seq(Paquetes)
      /\ Len(a) \in Nat /\ Len(a \o <<m>>) = Len(a) + 1
      /\ (a \o <<m>>)[Len(a) + 1] = m
      /\ \A i \in 1..Len(a) : (a \o <<m>>)[i] = a[i]
      /\ Atendible({1}, <<m>>)
  BY <1>2, PegaUno
<1>6. Atendible({1}, a \o <<m>>)
  BY <1>2, <1>3, <1>4, <1>5, AtendiblePega
<1> DEFINE b == a \o <<m>>
<1>7. /\ b \in Seq(Paquetes) /\ Atendible({1}, b) /\ Len(b) = Len(a) + 1
      /\ b[Len(a) + 1] = m /\ \A i \in 1..Len(a) : b[i] = a[i]
  BY <1>5, <1>6
<1> HIDE DEF b
<1>8. \A i \in 1..Len(b) : b[i].op \in {"399", op}
  BY <1>2, <1>5, <1>7
<1>9. /\ <<n>> \in Seq(Paquetes) /\ Atendible({1}, <<n>>)
      /\ \A i \in 1..Len(<<n>>) : ~Reclama(<<n>>[i].op)
  BY <1>2, PegaUno
<1>10. Atendible({1}, b \o <<n>>)
  BY <1>7, <1>8, <1>9, AtendiblePega
<1>11. /\ b \o <<n>> \in Seq(Paquetes) /\ Len(b) \in Nat /\ Len(b \o <<n>>) = Len(b) + 1
       /\ (b \o <<n>>)[Len(b) + 1] = n
       /\ \A i \in 1..Len(b) : (b \o <<n>>)[i] = b[i]
  BY <1>2, <1>7, PegaUno
<1>12. ps = b \o <<n>>
  BY DEF b, m, n
<1>13. \A i \in 1..Len(ps) : ps[i].op \in {"399", op, "-1"}
  BY <1>2, <1>8, <1>11, <1>12
<1>14. ~Reclama("-1")
  BY DEF Reclama, Entregas, Consultas
<1> QED
  BY <1>3, <1>10, <1>11, <1>12, <1>13, <1>14

-----------------------------------------------------------------------------
(* The queues.                                                              *)

LEMMA Quita ==
  ASSUME NEW S, NEW q \in Seq(S), SinRepetidos(q), NEW i \in 1..Len(q)
  PROVE  /\ SinRepetidos(RemoveAt(q, i))
         /\ \A x : Contains(RemoveAt(q, i), x) <=> Contains(q, x) /\ x # q[i]
<1> DEFINE r == RemoveAt(q, i)
           u(n) == IF n < i THEN n ELSE n + 1
<1>1. /\ Len(q) \in Nat /\ Len(r) = Len(q) - 1
      /\ \A j \in 1..(Len(q) - 1) : r[j] = IF j < i THEN q[j] ELSE q[j + 1]
  BY RemoveAtElementos
<1> HIDE DEF r
<1>2. \A j \in 1..Len(r) : r[j] = q[u(j)] /\ u(j) \in 1..Len(q) /\ u(j) # i
  BY <1>1
<1>3. \A j, n \in 1..Len(r) : u(j) = u(n) => j = n
  BY <1>1
<1>4. \A n \in 1..Len(q) : n # i => \E j \in 1..Len(r) : u(j) = n
  <2> SUFFICES ASSUME NEW n \in 1..Len(q), n # i PROVE \E j \in 1..Len(r) : u(j) = n
    OBVIOUS
  <2>1. CASE n < i
    <3>1. n \in 1..Len(r) /\ u(n) = n
      BY <1>1, <2>1
    <3> QED
      BY <3>1
  <2>2. CASE n > i
    <3>1. n - 1 \in 1..Len(r) /\ u(n - 1) = n
      BY <1>1, <2>2
    <3> QED
      BY <3>1
  <2> QED
    BY <2>1, <2>2
<1> HIDE DEF u
<1>5. SinRepetidos(r)
  BY <1>2, <1>3 DEF SinRepetidos
<1>6. ASSUME NEW x, Contains(r, x) PROVE Contains(q, x) /\ x # q[i]
  <2>1. PICK j \in 1..Len(r) : r[j] = x
    BY <1>6 DEF Contains
  <2> QED
    BY <1>2, <2>1 DEF Contains, SinRepetidos
<1>7. ASSUME NEW x, Contains(q, x), x # q[i] PROVE Contains(r, x)
  <2>1. PICK n \in 1..Len(q) : q[n] = x
    BY <1>7 DEF Contains
  <2>2. PICK j \in 1..Len(r) : u(j) = n
    BY <1>4, <1>7, <2>1
  <2> QED
    BY <1>2, <2>1, <2>2 DEF Contains
<1> QED
  BY <1>5, <1>6, <1>7 DEF r

LEMMA QuitaPrimero ==
  ASSUME NEW S, NEW q \in Seq(S), SinRepetidos(q), q # <<>>
  PROVE  /\ SinRepetidos(Tail(q)) /\ Contains(q, Head(q))
         /\ \A x : Contains(Tail(q), x) <=> Contains(q, x) /\ x # Head(q)
<1>1. 1 \in 1..Len(q) /\ q[1] = Head(q)
  OBVIOUS
<1>2. RemoveAt(q, 1) = Tail(q)
  <2>1. /\ RemoveAt(q, 1) \in Seq(S) /\ Len(RemoveAt(q, 1)) = Len(q) - 1
        /\ \A j \in 1..(Len(q) - 1) : RemoveAt(q, 1)[j] = q[j + 1]
    BY <1>1, RemoveAtElementos
  <2>2. /\ Tail(q) \in Seq(S) /\ Len(Tail(q)) = Len(q) - 1
        /\ \A j \in 1..(Len(q) - 1) : Tail(q)[j] = q[j + 1]
    BY HeadTailProperties
  <2> QED
    BY <2>1, <2>2, SeqEqual
<1>3. PICK i \in 1..Len(q) : i = 1 /\ q[i] = Head(q)
  BY <1>1
<1>4. /\ SinRepetidos(RemoveAt(q, i))
      /\ \A x : Contains(RemoveAt(q, i), x) <=> Contains(q, x) /\ x # q[i]
  BY Quita
<1>5. Contains(q, Head(q))
  BY <1>3 DEF Contains
<1> QED
  BY <1>2, <1>3, <1>4, <1>5

LEMMA Pone ==
  ASSUME NEW S, NEW q \in Seq(S), NEW p
  PROVE  /\ \A x : Contains(Append(q, p), x) <=> Contains(q, x) \/ x = p
         /\ SinRepetidos(q) /\ ~Contains(q, p) => SinRepetidos(Append(q, p))
<1> DEFINE r == Append(q, p)
<1>1. /\ Len(r) = Len(q) + 1 /\ Len(q) \in Nat
      /\ \A j \in 1..Len(q) : r[j] = q[j]
      /\ r[Len(q) + 1] = p
      /\ \A x : Contains(r, x) <=> Contains(q, x) \/ x = p
  BY AppendElementos
<1> HIDE DEF r
<1>2. ASSUME SinRepetidos(q), ~Contains(q, p) PROVE SinRepetidos(r)
  <2>1. \A j \in 1..Len(q) : q[j] # p
    BY <1>2 DEF Contains
  <2>2. \A j \in 1..Len(r) : j \in 1..Len(q) \/ j = Len(q) + 1
    BY <1>1
  <2> QED
    BY <1>1, <1>2, <2>1, <2>2 DEF SinRepetidos
<1> QED
  BY <1>1, <1>2 DEF r
-----------------------------------------------------------------------------
(* One step.                                                                *)

Sockets == \A x \in Consolas : t_proceso'[x].socket_CPU = t_proceso[x].socket_CPU

\* What the agreement with k is about stays as it was.
SigueDeAcuerdo(k) ==
  /\ hilo'[k] = hilo[k] /\ buzon'[k] = buzon[k] /\ cpu'[k] = cpu[k]
  /\ Libre(k)' <=> Libre(k)
  /\ Suyos(k)' = Suyos(k)

LEMMA IgualLibre ==
  ASSUME NEW k, NEW libre, NEW suyos, NEW h, NEW b, NEW c, Acorde(k, libre, suyos, h, b, c),
         NEW libre_, libre_ <=> libre
  PROVE  Acorde(k, libre_, suyos, h, b, c)
<1>1. Turno(libre_, suyos, h)
  BY DEF Acorde, Turno
<1>2. Conversa(libre_, suyos, h, b, c)
  BY DEF Acorde, Conversa
<1> QED
  BY <1>1, <1>2 DEF Acorde

LEMMA AcuerdoSigue ==
  ASSUME NEW k, Acuerdo(k), SigueDeAcuerdo(k)
  PROVE  Acuerdo(k)'
<1>1. Acorde(k, Libre(k)', Suyos(k), hilo[k], buzon[k], cpu[k])
  BY IgualLibre DEF Acuerdo, SigueDeAcuerdo
<1> QED
  BY <1>1 DEF Acuerdo, SigueDeAcuerdo

\* A step about one CPU.
LEMMA PasoDeUna ==
  ASSUME Tipos, IProtocolo, NEW k \in CPUs, \A j \in CPUs \ {k} : SigueDeAcuerdo(j), SinRepetir',
         Acorde(k, Libre(k)', Suyos(k)', hilo'[k], buzon'[k], cpu'[k]),
         hilo'[k].pc \in Pendientes => t_proceso'[hilo'[k].proceso].socket_CPU = k,
         \A j \in CPUs \ {k} : hilo[j].pc \in Pendientes =>
           t_proceso'[hilo[j].proceso].socket_CPU = t_proceso[hilo[j].proceso].socket_CPU,
         caida' = caida
  PROVE  IProtocolo'
<1>1. \A j \in CPUs : Acuerdo(j)'
  BY AcuerdoSigue DEF IProtocolo, Acuerdo
<1>2. SusSockets'
  BY DEF IProtocolo, SusSockets, SigueDeAcuerdo
<1>3. SinSalir'
  BY DEF IProtocolo, SinSalir
<1> QED
  BY <1>1, <1>2, <1>3 DEF IProtocolo

\* A step about none.
LEMMA PasoAjeno ==
  ASSUME Tipos, IProtocolo, Sockets, cola'.exec = cola.exec, cola'.CPU_libres = cola.CPU_libres,
         pcp'.sock = pcp.sock, pcp.sock # NULO => pcp'.pc = pcp.pc,
         UNCHANGED <<hilo, buzon, cpu>>, caida' = caida \/ caida' = "segv"
  PROVE  IProtocolo'
<1>1. \A k \in CPUs : SigueDeAcuerdo(k)
  BY DEF SigueDeAcuerdo, Sockets, Libre, Suyos
<1>2. \A k \in CPUs : Acuerdo(k)'
  BY <1>1, AcuerdoSigue DEF IProtocolo
<1>3. SinRepetir'
  BY DEF IProtocolo, SinRepetir
<1>4. SusSockets'
  <2>1. \A k \in CPUs : hilo[k].pc \in Pendientes => hilo[k].proceso \in Consolas
    BY DEF Tipos, ManosDeHilos, ConProceso, Pendientes
  <2> QED
    BY <2>1 DEF IProtocolo, SusSockets, Sockets
<1>5. SinSalir'
  BY DEF IProtocolo, SinSalir
<1> QED
  BY <1>2, <1>3, <1>4, <1>5 DEF IProtocolo

\* A step of the thread of a CPU that leaves cola_exec and cola_CPU_libres.
LEMMA PasoDelHilo ==
  ASSUME Tipos, IProtocolo, NEW k \in CPUs, Sockets,
         cola'.exec = cola.exec, cola'.CPU_libres = cola.CPU_libres, UNCHANGED pcp,
         \A j \in CPUs \ {k} : hilo'[j] = hilo[j] /\ buzon'[j] = buzon[j] /\ cpu'[j] = cpu[j],
         \A libre : Acorde(k, libre, Suyos(k), hilo[k], buzon[k], cpu[k])
                      => Acorde(k, libre, Suyos(k), hilo'[k], buzon'[k], cpu'[k]),
         hilo'[k].pc \in Pendientes =>
           hilo[k].pc \in Pendientes /\ hilo'[k].proceso = hilo[k].proceso,
         caida' = caida
  PROVE  IProtocolo'
<1>1. \A j \in CPUs : (Libre(j)' <=> Libre(j)) /\ Suyos(j)' = Suyos(j)
  BY DEF Sockets, Libre, Suyos
<1>2. \A j \in CPUs \ {k} : SigueDeAcuerdo(j)
  BY <1>1 DEF SigueDeAcuerdo
<1>3. SinRepetir'
  BY DEF IProtocolo, SinRepetir
<1>4. \A j \in CPUs : hilo[j].pc \in Pendientes => hilo[j].proceso \in Consolas
  BY DEF Tipos, ManosDeHilos, ConProceso, Pendientes
<1>5. hilo'[k].pc \in Pendientes => t_proceso'[hilo'[k].proceso].socket_CPU = k
  BY <1>4 DEF IProtocolo, SusSockets, Sockets
<1>6. Acorde(k, Libre(k), Suyos(k), hilo'[k], buzon'[k], cpu'[k])
  BY DEF IProtocolo, Acuerdo
<1>7. Acorde(k, Libre(k)', Suyos(k)', hilo'[k], buzon'[k], cpu'[k])
  BY <1>1, <1>6, IgualLibre
<1> QED
  BY <1>2, <1>3, <1>4, <1>5, <1>7, PasoDeUna DEF Sockets

\* cola_exec has a process once, and none that a thread has.
LEMMA UnoEnExec ==
  ASSUME Tipos, ILugares
  PROVE  /\ cola.exec \in Seq(Consolas) /\ SinRepetidos(cola.exec)
         /\ pcp.pc = "manda" => pcp.proceso \in Consolas /\ ~Contains(cola.exec, pcp.proceso)
         /\ \A k \in CPUs : hilo[k].pc \in Pendientes =>
              hilo[k].proceso \in Consolas /\ ~Contains(cola.exec, hilo[k].proceso)
         /\ \A k \in CPUs : pcp.pc = "manda" /\ hilo[k].pc \in Pendientes =>
              pcp.proceso # hilo[k].proceso
<1>1. PICK donde \in [Consolas -> Casas] : LugaresBien(donde)
  BY DEF ILugares
<1>2. cola.exec \in Seq(Consolas) /\ Vive(donde, cola.exec, <<"exec", 0>>)
  BY <1>1 DEF LugaresBien, EnColas, Nombres, Tipos, TiposDeHilos, TipoColas, Colas
<1>3. SinRepetidos(cola.exec)
  BY <1>2 DEF SinRepetidos, Vive
<1>4. pcp.pc = "manda" => pcp.proceso \in Consolas /\ donde[pcp.proceso] = <<"PCP", 0>>
  BY <1>1 DEF LugaresBien, EnPCP, Tipos, ManosDeOtros
<1>5. \A k \in CPUs : hilo[k].pc \in Pendientes =>
        hilo[k].proceso \in Consolas /\ donde[hilo[k].proceso] = <<"CPU", k>>
  BY <1>1 DEF LugaresBien, EnCPUs, EnCPU, Tipos, ManosDeHilos, ConProceso, Pendientes
<1> QED
  BY <1>2, <1>3, <1>4, <1>5 DEF Vive

\* The steps of the other threads, and the deaths of the NUCLEO but for the exit.
LEMMA MuereProtocolo ==
  ASSUME Tipos, IProtocolo, Muere("segv")
  PROVE  IProtocolo'
  BY PasoAjeno DEF Muere, Sockets, bloqueados, hilos, programas

LEMMA HiloConsolaProtocolo ==
  ASSUME Tipos, IProtocolo, NEW c \in Consolas, HiloConsola(c)
  PROVE  IProtocolo'
<1>1. CASE ConBuscaNulo(c)
  BY <1>1, MuereProtocolo DEF ConBuscaNulo
<1>2. CASE ~ConBuscaNulo(c)
  <2>1. UNCHANGED <<pcp, hilo, buzon, cpu, caida>>
    BY <1>2 DEF HiloConsola, ConCargaOk, ConCargaFalla, ConDesconecta, ConSacaReady, ConSubeFlag,
       ConNoEstaEnReady, ConBuscaExec, ConMarca, ConSacaSemaforo, ConSiguienteSemaforo, ConMiraIO,
       ConMarcaIO, ConArmaIO, ConSacaIO, ConTermina, programas, historia
  <2>2. cola'.exec = cola.exec /\ cola'.CPU_libres = cola.CPU_libres
    BY <1>2 DEF HiloConsola, ConCargaOk, ConCargaFalla, ConDesconecta, ConSacaReady, ConSubeFlag,
       ConNoEstaEnReady, ConBuscaExec, ConMarca, ConSacaSemaforo, ConSiguienteSemaforo, ConMiraIO,
       ConMarcaIO, ConArmaIO, ConSacaIO, ConTermina, Abortar, Tipos, TiposDeHilos, TipoColas, Colas
  <2>3. t_proceso' = t_proceso \/ t_proceso' = [t_proceso EXCEPT ![c].abortado = TRUE]
    BY <1>2 DEF HiloConsola, ConCargaOk, ConCargaFalla, ConDesconecta, ConSacaReady, ConSubeFlag,
       ConNoEstaEnReady, ConBuscaExec, ConMarca, ConSacaSemaforo, ConSiguienteSemaforo, ConMiraIO,
       ConMarcaIO, ConArmaIO, ConSacaIO, ConTermina, bloqueados
  <2>4. Sockets
    <3>1. t_proceso \in [Consolas -> DatosDeProceso]
      BY DEF Tipos, TiposDeHilos, TipoBloqueados
    <3>2. ASSUME NEW x \in Consolas, t_proceso' = [t_proceso EXCEPT ![c].abortado = TRUE]
          PROVE  t_proceso'[x].socket_CPU = t_proceso[x].socket_CPU
      <4>1. t_proceso[x] \in DatosDeProceso
        BY <3>1
      <4>2. t_proceso'[x] = IF x = c THEN [t_proceso[x] EXCEPT !.abortado = TRUE] ELSE t_proceso[x]
        BY <3>1, <3>2
      <4> QED
        BY <4>1, <4>2 DEF DatosDeProceso
    <3> QED
      BY <2>3, <3>2 DEF Sockets
  <2> QED
    BY <2>1, <2>2, <2>4, PasoAjeno
<1> QED
  BY <1>1, <1>2

LEMMA OtrosProtocolo ==
  ASSUME Tipos, IProtocolo,
         PLP \/ PCPEspera \/ PCPTomaNada \/ (\E h \in Manejadores : AnalizarIO(h)) \/ Principal
  PROVE  IProtocolo'
<1>1. CASE Muere("segv")
  BY <1>1, MuereProtocolo
<1>2. CASE ~Muere("segv")
  <2>1. UNCHANGED <<t_proceso, hilo, buzon, cpu, caida>>
    BY <1>2 DEF PLP, PCPEspera, PCPTomaNada, AnalizarIO, AtiendeIO, SenialNada, SenialSaca,
       SenialEntrega, SenialRearma, SenialPantalla, PantallaDibuja, Principal, Recarga,
       RecargaEmpieza, RecargaMira, RecargaToma, RecargaCambia, RecargaSuelta, SenialVieja,
       programas, historia, bloqueados, hilos
  <2>2. cola'.exec = cola.exec /\ cola'.CPU_libres = cola.CPU_libres
    BY <1>2 DEF PLP, PCPEspera, PCPTomaNada, AnalizarIO, AtiendeIO, SenialNada, SenialSaca,
       SenialEntrega, SenialRearma, SenialPantalla, PantallaDibuja, Principal, Recarga,
       RecargaEmpieza, RecargaMira, RecargaToma, RecargaCambia, RecargaSuelta, SenialVieja,
       Abortar, EncolaReady, Tipos, TiposDeHilos, TipoColas, Colas
  <2>3. pcp'.sock = pcp.sock /\ (pcp' = pcp \/ pcp.pc = "espera")
    BY <1>2 DEF PLP, PCPEspera, PCPTomaNada, AnalizarIO, AtiendeIO, SenialNada, SenialSaca,
       SenialEntrega, SenialRearma, SenialPantalla, PantallaDibuja, Principal, Recarga,
       RecargaEmpieza, RecargaMira, RecargaToma, RecargaCambia, RecargaSuelta, SenialVieja,
       hilos, Tipos, TiposDeHilos, TipoHilos, EstadosPCP
  <2>4. pcp.sock # NULO => pcp'.pc = pcp.pc
    BY <2>3 DEF IProtocolo, SinRepetir
  <2> QED
    BY <2>1, <2>2, <2>3, <2>4, PasoAjeno DEF Sockets
<1> QED
  BY <1>1, <1>2

\* hilo_PCP.
LEMMA PCPTomaProtocolo ==
  ASSUME Tipos, IProtocolo, PCPToma
  PROVE  IProtocolo'
<1> DEFINE q == cola.CPU_libres
<1>1. q \in Seq(CPUs) /\ SinRepetidos(q) /\ pcp.sock = NULO
  BY DEF Tipos, TiposDeHilos, TipoColas, Colas, IProtocolo, SinRepetir, PCPToma
<1>2. /\ cola'.CPU_libres = Resto(q) /\ cola'.exec = cola.exec
      /\ pcp'.sock = Saca(q) /\ pcp'.pc = "manda"
      /\ UNCHANGED <<t_proceso, hilo, buzon, cpu, caida>>
  BY DEF PCPToma, Tipos, TiposDeHilos, TipoColas, Colas, programas, historia, bloqueados
<1>3. /\ pcp'.sock # NULO => ~Contains(cola'.CPU_libres, pcp'.sock)
      /\ SinRepetidos(cola'.CPU_libres)
      /\ \A k \in CPUs : Contains(q, k) <=> Contains(cola'.CPU_libres, k) \/ pcp'.sock = k
  <2>1. CASE q = <<>>
    <3>1. cola'.CPU_libres = q /\ pcp'.sock = NULO
      BY <1>2, <2>1 DEF Resto, Saca, Vacia
    <3> QED
      BY <1>1, <3>1, ConstantesNucleo
  <2>2. CASE q # <<>>
    <3>1. cola'.CPU_libres = Tail(q) /\ pcp'.sock = Head(q)
      BY <1>2, <2>2 DEF Resto, Saca, Vacia
    <3>2. /\ SinRepetidos(Tail(q)) /\ Contains(q, Head(q))
          /\ \A x : Contains(Tail(q), x) <=> Contains(q, x) /\ x # Head(q)
      BY <1>1, <2>2, QuitaPrimero
    <3> HIDE DEF q
    <3> QED
      BY <3>1, <3>2
  <2> QED
    BY <2>1, <2>2
<1>4. \A k \in CPUs : SigueDeAcuerdo(k)
  <2>1. \A k \in CPUs : Libre(k)' <=> Libre(k)
    BY <1>1, <1>3, ConstantesNucleo DEF Libre
  <2> QED
    BY <1>2, <2>1 DEF SigueDeAcuerdo, Suyos
<1>5. \A k \in CPUs : Acuerdo(k)'
  BY <1>4, AcuerdoSigue DEF IProtocolo
<1>6. SinRepetir'
  BY <1>2, <1>3 DEF SinRepetir
<1>7. SusSockets' /\ SinSalir'
  BY <1>2 DEF IProtocolo, SusSockets, SinSalir
<1> QED
  BY <1>5, <1>6, <1>7 DEF IProtocolo

LEMMA MandarProtocolo ==
  ASSUME Tipos, ILugares, IProtocolo, MandarAEjecutar
  PROVE  IProtocolo'
<1> DEFINE p == pcp.proceso
           s == pcp.sock
<1>1. p \in Consolas /\ p # NULO /\ ~Contains(cola.exec, p) /\ cola.exec \in Seq(Consolas)
  BY UnoEnExec, ConstantesNucleo DEF MandarAEjecutar
<1>2. /\ cola'.exec = Append(cola.exec, p) /\ cola'.CPU_libres = cola.CPU_libres
      /\ pcp'.sock = NULO /\ UNCHANGED <<hilo, buzon, caida>>
      /\ \A x \in Consolas : t_proceso'[x].socket_CPU = IF x = p THEN s ELSE t_proceso[x].socket_CPU
  BY <1>1 DEF MandarAEjecutar, Tipos, TiposDeHilos, TipoColas, Colas, TipoBloqueados, DatosDeProceso,
     historia
<1>3. \A x : Contains(cola'.exec, x) <=> Contains(cola.exec, x) \/ x = p
  BY <1>1, <1>2, Pone
<1> HIDE DEF p, s
<1>4. \A k \in CPUs : Suyos(k)' = IF k = s THEN Suyos(k) \cup {p} ELSE Suyos(k)
  BY <1>1, <1>2, <1>3 DEF Suyos
<1>5. \A k \in CPUs : Libre(k)' <=> Libre(k) /\ k # s
  <2>1. s # NULO => ~Contains(cola.CPU_libres, s)
    BY DEF IProtocolo, SinRepetir, s
  <2> QED
    BY <1>2, <2>1, ConstantesNucleo DEF Libre, s
<1>6. SinRepetir' /\ SinSalir'
  BY <1>2 DEF IProtocolo, SinRepetir, SinSalir
<1>7. SusSockets'
  <2>1. \A k \in CPUs : hilo[k].pc \in Pendientes => hilo[k].proceso \in Consolas /\ hilo[k].proceso # p
    BY UnoEnExec DEF MandarAEjecutar, p
  <2> QED
    BY <1>2, <2>1 DEF IProtocolo, SusSockets
<1>8. cpu' = [k \in CPUs |-> IF k = s /\ cpu[k].estado = "espera303"
                             THEN [cpu[k] EXCEPT !.estado = "ejecuta", !.pcb = p] ELSE cpu[k]]
  BY DEF MandarAEjecutar, p, s
<1>9. ASSUME NEW k \in CPUs, k # s PROVE Acuerdo(k)'
  BY <1>2, <1>4, <1>5, <1>8, <1>9, AcuerdoSigue DEF IProtocolo, SigueDeAcuerdo
<1>10. ASSUME NEW k \in CPUs, k = s PROVE Acuerdo(k)'
  <2>1. Libre(k) /\ ~Libre(k)'
    BY <1>5, <1>10 DEF Libre, s
  <2>2. Acorde(k, TRUE, Suyos(k), hilo[k], buzon[k], cpu[k])
    BY <2>1, IgualLibre DEF IProtocolo, Acuerdo
  <2>3. Suyos(k) = {}
    BY <2>2 DEF Acorde, Turno
  <2>4. Suyos(k)' = {p}
    BY <1>4, <1>10, <2>3
  <2>5. cpu[k] \in EstadosPrograma
    BY DEF Tipos, TiposDeHilos, TipoProgramas
  <2>6. IF cpu[k].estado = "espera303"
          THEN /\ cpu'[k].estado = "ejecuta" /\ cpu'[k].pcb = p
               /\ cpu'[k].sigusr1 = cpu[k].sigusr1
               /\ cpu'[k].programaAbortado = cpu[k].programaAbortado
          ELSE cpu'[k] = cpu[k]
    BY <1>8, <1>10, <2>5 DEF EstadosPrograma
  <2>7. Acorde(k, FALSE, {p}, hilo[k], buzon[k], cpu'[k])
    BY <1>1, <2>2, <2>6, Manda
  <2>8. Acorde(k, Libre(k)', {p}, hilo[k], buzon[k], cpu'[k])
    BY <2>1, <2>7, IgualLibre
  <2> QED
    BY <1>2, <2>4, <2>8 DEF Acuerdo
<1> QED
  BY <1>6, <1>7, <1>9, <1>10 DEF IProtocolo
-----------------------------------------------------------------------------
(* hilo_CONEXION_CPU.                                                       *)

\* The steps that go on with the same process, or with none.
LEMMA AvanzaProtocolo ==
  ASSUME Tipos, IProtocolo, NEW k \in CPUs,
         \/ Cpu304(k) \/ Cpu320Y370(k) \/ Cpu343Suma(k) \/ Cpu343HayEspera(k) \/ Cpu343Saca(k)
         \/ Cpu343Pone(k) \/ Cpu380Encola(k) \/ CpuCaeAborta(k) \/ CpuCaeEspera(k)
  PROVE  IProtocolo'
<1>1. UNCHANGED <<pcp, buzon, cpu, caida>>
  BY DEF Cpu304, Cpu320Y370, Cpu343Suma, Cpu343HayEspera, Cpu343Saca, Cpu343Pone, Cpu380Encola,
     CpuCaeAborta, CpuCaeEspera, programas, historia
<1>2. cola'.exec = cola.exec /\ cola'.CPU_libres = cola.CPU_libres
  BY DEF Cpu304, Cpu320Y370, Cpu343Suma, Cpu343HayEspera, Cpu343Saca, Cpu343Pone, Cpu380Encola,
     CpuCaeAborta, CpuCaeEspera, Abortar, EncolaReady, Tipos, TiposDeHilos, TipoColas, Colas
<1>3. Sockets
  <2>1. \/ t_proceso' = t_proceso
        \/ \E x \in Consolas : \E u : t_proceso' = [t_proceso EXCEPT ![x].unidades = u]
    <3>1. CASE Cpu380Encola(k)
      <4>1. hilo[k].proceso \in Consolas
        BY <3>1 DEF Cpu380Encola, Tipos, ManosDeHilos, ConProceso
      <4> QED
        BY <3>1, <4>1 DEF Cpu380Encola
    <3>2. CASE ~Cpu380Encola(k)
      BY <3>2 DEF Cpu304, Cpu320Y370, Cpu343Suma, Cpu343HayEspera, Cpu343Saca, Cpu343Pone,
         CpuCaeAborta, CpuCaeEspera, bloqueados
    <3> QED
      BY <3>1, <3>2
  <2>2. t_proceso \in [Consolas -> DatosDeProceso]
    BY DEF Tipos, TiposDeHilos, TipoBloqueados
  <2>3. ASSUME NEW x \in Consolas, NEW u, t_proceso' = [t_proceso EXCEPT ![x].unidades = u],
               NEW y \in Consolas
        PROVE  t_proceso'[y].socket_CPU = t_proceso[y].socket_CPU
    <3>1. t_proceso[y] \in DatosDeProceso
      BY <2>2
    <3>2. t_proceso'[y] = IF y = x THEN [t_proceso[y] EXCEPT !.unidades = u] ELSE t_proceso[y]
      BY <2>2, <2>3
    <3> QED
      BY <3>1, <3>2 DEF DatosDeProceso
  <2> QED
    BY <2>1, <2>3 DEF Sockets
<1>4. /\ \A j \in CPUs \ {k} : hilo'[j] = hilo[j]
      /\ hilo[k].pc \notin Pendientes \cup {"accept"}
      /\ hilo'[k].pc \notin Pendientes \cup {"accept"}
      /\ hilo'[k].pc \in ConTurno => hilo[k].pc \in ConTurno
      /\ hilo'[k].pc \in Cayendo => hilo[k].pc \in Cayendo
  <2>1. ASSUME NEW pc, CpuPasaA(k, pc) \/ CpuSuelta(k, pc)
        PROVE  hilo'[k].pc = pc /\ \A j \in CPUs \ {k} : hilo'[j] = hilo[j]
    BY <2>1, PasaA, Suelta
  <2>2. CASE Cpu343Saca(k)
    <3>1. hilo[k].pc = "343saca" /\ hilo'[k].pc = "343pone" /\ \A j \in CPUs \ {k} : hilo'[j] = hilo[j]
      BY <2>2 DEF Cpu343Saca, Tipos, TiposDeHilos, TipoHilos, EstadosHilo
    <3> QED
      BY <3>1 DEF Pendientes, ConTurno, Cayendo
  <2>3. CASE ~Cpu343Saca(k)
    <3>1. \/ hilo[k].pc = "304" /\ CpuSuelta(k, "libera")
          \/ hilo[k].pc \in {"320", "370"} /\ CpuPasaA(k, "terminado")
          \/ hilo[k].pc = "343" /\ (CpuPasaA(k, "recibe") \/ CpuPasaA(k, "343saca"))
          \/ hilo[k].pc = "343pone" /\ CpuSuelta(k, "recibe")
          \/ hilo[k].pc \in {"380vacia", "380ocupada"} /\ CpuSuelta(k, "libera")
          \/ hilo[k].pc = "aborta" /\ CpuSuelta(k, "recorre")
          \/ hilo[k].pc = "sem_wait" /\ CpuPasaA(k, "fin")
      BY <2>3 DEF Cpu304, Cpu320Y370, Cpu343Suma, Cpu343HayEspera, Cpu343Pone, Cpu380Encola,
         CpuCaeAborta, CpuCaeEspera
    <3> QED
      BY <2>1, <3>1 DEF Pendientes, ConTurno, Cayendo
  <2> QED
    BY <2>2, <2>3
<1>5. \A libre : Acorde(k, libre, Suyos(k), hilo[k], buzon[k], cpu[k])
                   => Acorde(k, libre, Suyos(k), hilo'[k], buzon'[k], cpu'[k])
  BY <1>1, <1>4, Avanza
<1> QED
  BY <1>1, <1>2, <1>3, <1>4, <1>5, PasoDelHilo

LEMMA RecibeHace ==
  ASSUME Tipos, NEW k \in CPUs, Recibe(k)
  PROVE  /\ buzon[k] \in Seq(Paquetes) /\ buzon[k] # <<>>
         /\ Head(buzon[k]).op # "-1" => buzon'[k] = Tail(buzon[k])
         /\ buzon'[k] = Tail(buzon[k]) \/ (buzon'[k] = buzon[k] /\ Head(buzon[k]).op = "-1")
         /\ \A j \in CPUs \ {k} : buzon'[j] = buzon[j]
<1>1. buzon \in [CPUs -> Seq(Paquetes)] /\ buzon[k] # <<>>
  BY DEF Recibe, Tipos, TiposDeHilos, TipoProgramas
<1>2. CASE Head(buzon[k]).op = "-1"
  <2>1. buzon' = buzon
    BY <1>2 DEF Recibe
  <2> QED
    BY <1>1, <1>2, <2>1
<1>3. CASE Head(buzon[k]).op # "-1"
  <2>1. buzon' = [buzon EXCEPT ![k] = Tail(@)]
    BY <1>3 DEF Recibe
  <2> QED
    BY <1>1, <1>3, <2>1
<1> QED
  BY <1>2, <1>3

\* The PCB of a process that a semaphore or a device blocks.
LEMMA PCBProtocolo ==
  ASSUME Tipos, IProtocolo, NEW k \in CPUs, Cpu341PCB(k) \/ Cpu380Aborta(k) \/ Cpu380Mira(k)
  PROVE  IProtocolo'
<1>1. UNCHANGED <<t_proceso, pcp, cpu, caida>>
  BY DEF Cpu341PCB, Cpu380Aborta, Cpu380Mira, programas, historia, bloqueados
<1>2. cola'.exec = cola.exec /\ cola'.CPU_libres = cola.CPU_libres
  BY DEF Cpu341PCB, Cpu380Aborta, Cpu380Mira, Abortar, Tipos, TiposDeHilos, TipoColas, Colas
<1>3. /\ \A j \in CPUs \ {k} : hilo'[j] = hilo[j]
      /\ hilo[k].pc \in {"341pcb", "380"}
      /\ hilo'[k].pc \in {"recibe", "libera", "liberaYSuelta", "380vacia", "380ocupada"}
  <2>1. \/ hilo[k].pc = "341pcb" /\ (CpuSuelta(k, "recibe") \/ CpuSuelta(k, "liberaYSuelta"))
        \/ hilo[k].pc = "380" /\ CpuSuelta(k, "libera")
        \/ hilo[k].pc = "380" /\ (CpuPasaA(k, "380vacia") \/ CpuPasaA(k, "380ocupada"))
    BY DEF Cpu341PCB, Cpu380Aborta, Cpu380Mira
  <2> QED
    BY <2>1, PasaA, Suelta
<1>4. /\ buzon[k] \in Seq(Paquetes) /\ buzon[k] # <<>>
      /\ buzon'[k] = Tail(buzon[k]) \/ (buzon'[k] = buzon[k] /\ Head(buzon[k]).op = "-1")
      /\ \A j \in CPUs \ {k} : buzon'[j] = buzon[j]
  BY RecibeHace DEF Cpu341PCB, Cpu380Aborta, Cpu380Mira
<1>5. \A libre : Acorde(k, libre, Suyos(k), hilo[k], buzon[k], cpu[k])
                   => Acorde(k, libre, Suyos(k), hilo'[k], buzon'[k], cpu'[k])
  <2> SUFFICES ASSUME NEW libre, Acorde(k, libre, Suyos(k), hilo[k], buzon[k], cpu[k])
               PROVE  Acorde(k, libre, Suyos(k), hilo'[k], buzon'[k], cpu[k])
    BY <1>1
  <2> DEFINE t == buzon'[k]
  <2>1. t = Tail(buzon[k]) \/ (t = buzon[k] /\ Head(buzon[k]).op = "-1")
    BY <1>4
  <2> HIDE DEF t
  <2>2. Acorde(k, libre, Suyos(k), hilo'[k], t, cpu[k])
    BY <1>3, <1>4, <2>1, LeePCB
  <2> QED
    BY <2>2 DEF t
<1>6. hilo'[k].pc \notin Pendientes
  BY <1>3 DEF Pendientes
<1> QED
  BY <1>1, <1>2, <1>3, <1>4, <1>5, <1>6, PasoDelHilo DEF Sockets

\* 399, and a 340 that nobody expects.
LEMMA AvisoProtocolo ==
  ASSUME Tipos, IProtocolo, NEW k \in CPUs, CpuAviso(k)
  PROVE  IProtocolo'
<1>1. UNCHANGED <<t_proceso, pcp, cpu, caida, cola>>
  BY DEF CpuAviso, historia, bloqueados
<1>2. /\ \A j \in CPUs \ {k} : hilo'[j] = hilo[j]
      /\ hilo[k].pc = "recibe" /\ hilo'[k].pc = "recibe"
  BY DEF CpuAviso, Tipos, TiposDeHilos, TipoHilos, EstadosHilo
<1>3. Head(buzon[k]).op \in {"340", "399"}
  BY DEF CpuAviso
<1>4. /\ buzon[k] \in Seq(Paquetes) /\ buzon[k] # <<>> /\ buzon'[k] = Tail(buzon[k])
      /\ \A j \in CPUs \ {k} : buzon'[j] = buzon[j]
  BY <1>3, RecibeHace DEF CpuAviso
<1>5. Head(buzon[k]).op \notin Entregas \cup {"-1"}
  BY <1>3 DEF Entregas
<1>6. \A libre : Acorde(k, libre, Suyos(k), hilo[k], buzon[k], cpu[k])
                   => Acorde(k, libre, Suyos(k), hilo'[k], buzon'[k], cpu'[k])
  BY <1>1, <1>2, <1>4, <1>5, Lee
<1>7. hilo'[k].pc \notin Pendientes
  BY <1>2 DEF Pendientes
<1> QED
  BY <1>1, <1>2, <1>4, <1>6, <1>7, PasoDelHilo DEF Sockets

LEMMA ContestaHace ==
  ASSUME Tipos, NEW k \in CPUs, NEW e, NEW f, Contesta(k, e, f)
  PROVE  /\ cpu'[k].estado = IF cpu[k].estado = e THEN f ELSE cpu[k].estado
         /\ cpu'[k].pcb = cpu[k].pcb /\ cpu'[k].sigusr1 = cpu[k].sigusr1
         /\ cpu'[k].programaAbortado = cpu[k].programaAbortado
         /\ \A j \in CPUs \ {k} : cpu'[j] = cpu[j]
  BY DEF Contesta, Tipos, TiposDeHilos, TipoProgramas, EstadosPrograma

\* 341 on a semaphore with no units.
LEMMA BloqueaProtocolo ==
  ASSUME Tipos, IProtocolo, NEW k \in CPUs, Cpu341Bloquea(k)
  PROVE  IProtocolo'
<1>1. UNCHANGED <<t_proceso, pcp, caida, cola, buzon>>
  BY DEF Cpu341Bloquea, historia, bloqueados
<1>2. /\ \A j \in CPUs \ {k} : hilo'[j] = hilo[j]
      /\ hilo[k].pc = "341" /\ hilo'[k].pc = "341pcb" /\ hilo'[k].proceso = hilo[k].proceso
  BY DEF Cpu341Bloquea, CpuPasaA, Tipos, TiposDeHilos, TipoHilos, EstadosHilo
<1>3. /\ cpu'[k].estado = IF cpu[k].estado = "espera342" THEN "bloqueada" ELSE cpu[k].estado
      /\ cpu'[k].pcb = cpu[k].pcb /\ cpu'[k].sigusr1 = cpu[k].sigusr1
      /\ cpu'[k].programaAbortado = cpu[k].programaAbortado
      /\ \A j \in CPUs \ {k} : cpu'[j] = cpu[j]
  BY ContestaHace DEF Cpu341Bloquea
<1>4. \A libre : Acorde(k, libre, Suyos(k), hilo[k], buzon[k], cpu[k])
                   => Acorde(k, libre, Suyos(k), hilo'[k], buzon[k], cpu'[k])
  BY <1>2, <1>3, Bloquea
<1>5. hilo'[k].pc \in Pendientes => hilo[k].pc \in Pendientes /\ hilo'[k].proceso = hilo[k].proceso
  BY <1>2 DEF Pendientes
<1> QED
  BY <1>1, <1>2, <1>3, <1>4, <1>5, PasoDelHilo DEF Sockets

\* 350 and 351.
LEMMA VariableProtocolo ==
  ASSUME Tipos, IProtocolo, NEW k \in CPUs, Cpu350Y351(k)
  PROVE  IProtocolo'
<1>1. UNCHANGED <<t_proceso, pcp, caida, cola, buzon>>
  BY DEF Cpu350Y351, historia, bloqueados
<1>2. /\ \A j \in CPUs \ {k} : hilo'[j] = hilo[j]
      /\ hilo[k].pc \in {"350", "351"} /\ hilo'[k].pc = "recibe"
  BY PasaA DEF Cpu350Y351
<1>3. /\ cpu'[k].estado = cpu[k].estado
           \/ (cpu[k].estado = "espera352" /\ cpu'[k].estado = "ejecuta")
      /\ cpu'[k].pcb = cpu[k].pcb /\ cpu'[k].sigusr1 = cpu[k].sigusr1
      /\ cpu'[k].programaAbortado = cpu[k].programaAbortado
      /\ \A j \in CPUs \ {k} : cpu'[j] = cpu[j]
  <2>1. CASE Contesta(k, "espera352", "ejecuta")
    BY <2>1, ContestaHace
  <2>2. CASE cpu' = cpu
    BY <2>2
  <2> QED
    BY <2>1, <2>2 DEF Cpu350Y351
<1>4. \A libre : Acorde(k, libre, Suyos(k), hilo[k], buzon[k], cpu[k])
                   => Acorde(k, libre, Suyos(k), hilo'[k], buzon[k], cpu'[k])
  BY <1>2, <1>3, ContestaVariable
<1>5. hilo'[k].pc \notin Pendientes
  BY <1>2 DEF Pendientes
<1> QED
  BY <1>1, <1>2, <1>3, <1>4, <1>5, PasoDelHilo DEF Sockets

\* A step that changes what the queues have for k only.
LEMMA PasoPropio ==
  ASSUME Tipos, IProtocolo, NEW k \in CPUs, UNCHANGED <<t_proceso, pcp>>, caida' = caida,
         \A j \in CPUs \ {k} : Contains(cola'.CPU_libres, j) <=> Contains(cola.CPU_libres, j),
         \A x \in Consolas : t_proceso[x].socket_CPU # k =>
           (Contains(cola'.exec, x) <=> Contains(cola.exec, x)),
         \A j \in CPUs \ {k} : hilo'[j] = hilo[j] /\ buzon'[j] = buzon[j] /\ cpu'[j] = cpu[j],
         SinRepetir', Acorde(k, Libre(k)', Suyos(k)', hilo'[k], buzon'[k], cpu'[k]),
         hilo'[k].pc \in Pendientes => t_proceso[hilo'[k].proceso].socket_CPU = k
  PROVE  IProtocolo'
<1>1. \A j \in CPUs \ {k} : (Libre(j)' <=> Libre(j)) /\ Suyos(j)' = Suyos(j)
  BY DEF Libre, Suyos
<1>2. \A j \in CPUs \ {k} : SigueDeAcuerdo(j)
  BY <1>1 DEF SigueDeAcuerdo
<1> QED
  BY <1>2, PasoDeUna

\* cola_CPU_libres gets a socket that was not there, or stays.
LEMMA PoneLibre ==
  ASSUME Tipos, SinRepetir, NEW k \in CPUs, ~Libre(k), UNCHANGED pcp,
         cola'.CPU_libres = Append(cola.CPU_libres, k) \/ cola'.CPU_libres = cola.CPU_libres
  PROVE  /\ SinRepetir'
         /\ \A j \in CPUs \ {k} : Contains(cola'.CPU_libres, j) <=> Contains(cola.CPU_libres, j)
         /\ cola'.CPU_libres = Append(cola.CPU_libres, k) => Libre(k)'
<1> DEFINE q == cola.CPU_libres
<1>1. q \in Seq(CPUs)
  BY DEF Tipos, TiposDeHilos, TipoColas, Colas
<1>2. /\ \A x : Contains(Append(q, k), x) <=> Contains(q, x) \/ x = k
      /\ SinRepetidos(q) /\ ~Contains(q, k) => SinRepetidos(Append(q, k))
  BY <1>1, Pone
<1> QED
  BY <1>2 DEF SinRepetir, Libre

LEMMA ConectaProtocolo ==
  ASSUME Tipos, IProtocolo, NEW k \in CPUs, CpuConecta(k)
  PROVE  IProtocolo'
<1>1. UNCHANGED <<t_proceso, pcp, caida, buzon>>
  BY DEF CpuConecta, historia, bloqueados
<1>2. /\ \A j \in CPUs \ {k} : hilo'[j] = hilo[j]
      /\ hilo[k].pc = "accept" /\ hilo'[k].pc = "recibe"
  BY PasaA DEF CpuConecta
<1>3. /\ cpu'[k].estado = "espera303" /\ cpu'[k].pcb = cpu[k].pcb
      /\ cpu'[k].sigusr1 = cpu[k].sigusr1 /\ cpu'[k].programaAbortado = cpu[k].programaAbortado
      /\ \A j \in CPUs \ {k} : cpu'[j] = cpu[j]
  BY DEF CpuConecta, Tipos, TiposDeHilos, TipoProgramas, EstadosPrograma
<1>4. cola'.CPU_libres = Append(cola.CPU_libres, k) /\ cola'.exec = cola.exec
  BY DEF CpuConecta, LiberaCPU, Tipos, TiposDeHilos, TipoColas, Colas
<1>5. Acorde(k, Libre(k), Suyos(k), hilo[k], buzon[k], cpu[k])
  BY DEF IProtocolo, Acuerdo
<1>6. ~Libre(k)
  BY <1>2, <1>5 DEF Acorde, Turno, ConTurno
<1>7. /\ SinRepetir' /\ Libre(k)'
      /\ \A j \in CPUs \ {k} : Contains(cola'.CPU_libres, j) <=> Contains(cola.CPU_libres, j)
  BY <1>1, <1>4, <1>6, PoneLibre DEF IProtocolo
<1>8. buzon[k] \in Seq(Paquetes)
  BY DEF Tipos, TiposDeHilos, TipoProgramas
<1>9. Suyos(k)' = Suyos(k)
  BY <1>1, <1>4 DEF Suyos
<1>10. Acorde(k, TRUE, Suyos(k), hilo'[k], buzon[k], cpu'[k])
  BY <1>2, <1>3, <1>5, <1>8, Conecta
<1>11. Acorde(k, Libre(k)', Suyos(k)', hilo'[k], buzon'[k], cpu'[k])
  BY <1>1, <1>7, <1>9, <1>10, IgualLibre
<1>12. hilo'[k].pc \notin Pendientes
  BY <1>2 DEF Pendientes
<1> QED
  BY <1>1, <1>2, <1>3, <1>4, <1>7, <1>11, <1>12, PasoPropio

\* The CPU is returned, or was announced by a 399 and is not.
LEMMA LiberaProtocolo ==
  ASSUME Tipos, IProtocolo, NEW k \in CPUs, CpuLibera(k) \/ CpuTerminado(k)
  PROVE  IProtocolo'
<1>1. UNCHANGED <<t_proceso, pcp, caida, buzon, cpu>>
  BY DEF CpuLibera, CpuTerminado, historia, bloqueados, programas
<1>2. /\ \A j \in CPUs \ {k} : hilo'[j] = hilo[j]
      /\ hilo[k].pc \in {"libera", "liberaYSuelta", "terminado"} /\ hilo'[k].pc = "recibe"
  BY PasaA, Suelta DEF CpuLibera, CpuTerminado
<1>3. /\ cola'.exec = cola.exec
      /\ cola'.CPU_libres = Append(cola.CPU_libres, k) \/ cola'.CPU_libres = cola.CPU_libres
  BY DEF CpuLibera, CpuTerminado, LiberaCPU, Tipos, TiposDeHilos, TipoColas, Colas
<1>4. Acorde(k, Libre(k), Suyos(k), hilo[k], buzon[k], cpu[k])
  BY DEF IProtocolo, Acuerdo
<1>5. ~Libre(k)
  BY <1>2, <1>4 DEF Acorde, Turno, ConTurno
<1>6. /\ SinRepetir'
      /\ \A j \in CPUs \ {k} : Contains(cola'.CPU_libres, j) <=> Contains(cola.CPU_libres, j)
  BY <1>1, <1>3, <1>5, PoneLibre DEF IProtocolo
<1>7. Suyos(k)' = Suyos(k)
  BY <1>1, <1>3 DEF Suyos
<1>8. Libre(k)' \in BOOLEAN
  BY DEF Libre
<1>9. Acorde(k, Libre(k)', Suyos(k), hilo'[k], buzon[k], cpu[k])
  BY <1>2, <1>4, <1>8, DejaElTurno
<1>10. hilo'[k].pc \notin Pendientes
  BY <1>2 DEF Pendientes
<1> QED
  BY <1>1, <1>2, <1>3, <1>6, <1>7, <1>9, <1>10, PasoPropio

\* What dameProceso finds is the only process of the socket.
LEMMA Dame ==
  ASSUME Tipos, ILugares, IProtocolo, NEW k \in CPUs, NEW i \in DOMAIN cola.exec, EsSuProceso(k, i)
  PROVE  /\ i \in 1..Len(cola.exec) /\ cola.exec[i] \in Consolas
         /\ t_proceso[cola.exec[i]].socket_CPU = k
         /\ Suyos(k) = {cola.exec[i]}
         /\ \A x : Contains(RemoveAt(cola.exec, i), x) <=> Contains(cola.exec, x) /\ x # cola.exec[i]
         /\ RemoveAt(cola.exec, i) \in Seq(Consolas)
<1>1. cola.exec \in Seq(Consolas) /\ SinRepetidos(cola.exec)
  BY UnoEnExec
<1>2. /\ i \in 1..Len(cola.exec) /\ cola.exec[i] \in Consolas
      /\ t_proceso[cola.exec[i]].socket_CPU = k
  BY DEF EsSuProceso, EsPrimero
<1>3. cola.exec[i] \in Suyos(k)
  BY <1>2 DEF Suyos, Contains
<1>4. Suyos(k) = {cola.exec[i]}
  BY <1>3 DEF IProtocolo, Acuerdo, Acorde, Turno
<1>5. \A x : Contains(RemoveAt(cola.exec, i), x) <=> Contains(cola.exec, x) /\ x # cola.exec[i]
  BY <1>1, <1>2, Quita
<1>6. RemoveAt(cola.exec, i) \in Seq(Consolas)
  BY <1>1, <1>2, RemoveAtElementos
<1> QED
  BY <1>2, <1>4, <1>5, <1>6

\* A report takes the process away.
LEMMA TomaProtocolo ==
  ASSUME Tipos, ILugares, IProtocolo, NEW k \in CPUs, CpuTomaProceso(k)
  PROVE  IProtocolo'
<1>1. UNCHANGED <<t_proceso, pcp, caida, cpu>>
  BY DEF CpuTomaProceso, historia, bloqueados
<1>2. PICK i \in DOMAIN cola.exec :
        /\ EsSuProceso(k, i)
        /\ hilo' = [hilo EXCEPT ![k] = [@ EXCEPT !.pc = Head(buzon[k]).op,
                                                 !.proceso = cola.exec[i],
                                                 !.elPaquete = Head(buzon[k])]]
        /\ cola' = [cola EXCEPT !.exec = RemoveAt(@, i)]
  BY DEF CpuTomaProceso
<1> DEFINE x == cola.exec[i]
<1>3. /\ x \in Consolas /\ t_proceso[x].socket_CPU = k /\ Suyos(k) = {x}
      /\ \A y : Contains(RemoveAt(cola.exec, i), y) <=> Contains(cola.exec, y) /\ y # x
  BY <1>2, Dame
<1>4. cola'.exec = RemoveAt(cola.exec, i) /\ cola'.CPU_libres = cola.CPU_libres
  BY <1>2 DEF Tipos, TiposDeHilos, TipoColas, Colas
<1>5. /\ hilo[k].pc = "recibe" /\ hilo'[k].pc = Head(buzon[k]).op /\ hilo'[k].proceso = x
      /\ \A j \in CPUs \ {k} : hilo'[j] = hilo[j]
  BY <1>2 DEF CpuTomaProceso, Tipos, TiposDeHilos, TipoHilos, EstadosHilo
<1> HIDE DEF x
<1>6. Head(buzon[k]).op \in Entregas /\ Head(buzon[k]).op # "-1"
  BY DEF CpuTomaProceso, Entregas
<1>7. /\ buzon[k] \in Seq(Paquetes) /\ buzon[k] # <<>> /\ buzon'[k] = Tail(buzon[k])
      /\ \A j \in CPUs \ {k} : buzon'[j] = buzon[j]
  BY <1>6, RecibeHace DEF CpuTomaProceso
<1>8. Acorde(k, Libre(k), Suyos(k), hilo[k], buzon[k], cpu[k])
  BY DEF IProtocolo, Acuerdo
<1>9. Acorde(k, Libre(k), {}, hilo'[k], buzon'[k], cpu[k])
  BY <1>3, <1>5, <1>6, <1>7, <1>8, Toma
<1>10. Suyos(k)' = {} /\ (Libre(k)' <=> Libre(k))
  BY <1>1, <1>3, <1>4 DEF Suyos, Libre
<1>11. Acorde(k, Libre(k)', Suyos(k)', hilo'[k], buzon'[k], cpu'[k])
  BY <1>1, <1>9, <1>10, IgualLibre
<1>12. SinRepetir'
  BY <1>1, <1>4 DEF IProtocolo, SinRepetir
<1> QED
  BY <1>1, <1>3, <1>4, <1>5, <1>7, <1>11, <1>12, PasoPropio

\* A request leaves it at the end of cola_exec.
LEMMA DevuelveProtocolo ==
  ASSUME Tipos, ILugares, IProtocolo, NEW k \in CPUs, CpuTomaYDevuelve(k)
  PROVE  IProtocolo'
<1>1. UNCHANGED <<t_proceso, pcp, caida, cpu>>
  BY DEF CpuTomaYDevuelve, historia, bloqueados
<1>2. PICK i \in DOMAIN cola.exec :
        /\ EsSuProceso(k, i)
        /\ cola' = [cola EXCEPT !.exec = Append(RemoveAt(@, i), cola.exec[i])]
  BY DEF CpuTomaYDevuelve
<1> DEFINE x == cola.exec[i]
<1>3. /\ x \in Consolas /\ t_proceso[x].socket_CPU = k /\ Suyos(k) = {x}
      /\ RemoveAt(cola.exec, i) \in Seq(Consolas)
      /\ \A y : Contains(RemoveAt(cola.exec, i), y) <=> Contains(cola.exec, y) /\ y # x
  BY <1>2, Dame
<1>4. cola'.exec = Append(RemoveAt(cola.exec, i), x) /\ cola'.CPU_libres = cola.CPU_libres
  BY <1>2 DEF Tipos, TiposDeHilos, TipoColas, Colas
<1> HIDE DEF x
<1>5. \A y : Contains(cola'.exec, y) <=> Contains(cola.exec, y)
  <2>1. Contains(cola.exec, x)
    BY <1>3 DEF Suyos
  <2>2. \A y : Contains(cola'.exec, y) <=> Contains(RemoveAt(cola.exec, i), y) \/ y = x
    BY <1>3, <1>4, Pone
  <2> QED
    BY <1>3, <2>1, <2>2
<1>6. /\ hilo[k].pc = "recibe" /\ hilo'[k].pc \in {"recibe", Head(buzon[k]).op}
      /\ \A j \in CPUs \ {k} : hilo'[j] = hilo[j]
  BY DEF CpuTomaYDevuelve, Tipos, TiposDeHilos, TipoHilos, EstadosHilo
<1>7. Head(buzon[k]).op \in Consultas /\ Head(buzon[k]).op \notin Entregas \cup {"-1"}
  BY DEF CpuTomaYDevuelve, Consultas, Entregas
<1>8. /\ buzon[k] \in Seq(Paquetes) /\ buzon[k] # <<>> /\ buzon'[k] = Tail(buzon[k])
      /\ \A j \in CPUs \ {k} : buzon'[j] = buzon[j]
  BY <1>7, RecibeHace DEF CpuTomaYDevuelve
<1>9. Acorde(k, Libre(k), Suyos(k), hilo[k], buzon[k], cpu[k])
  BY DEF IProtocolo, Acuerdo
<1>10. Acorde(k, Libre(k), Suyos(k), hilo'[k], buzon'[k], cpu[k])
  BY <1>6, <1>7, <1>8, <1>9, Lee
<1>11. Suyos(k)' = Suyos(k) /\ (Libre(k)' <=> Libre(k))
  BY <1>1, <1>4, <1>5 DEF Suyos, Libre
<1>12. Acorde(k, Libre(k)', Suyos(k)', hilo'[k], buzon'[k], cpu'[k])
  BY <1>1, <1>10, <1>11, IgualLibre
<1>13. SinRepetir'
  BY <1>1, <1>4 DEF IProtocolo, SinRepetir
<1>14. hilo'[k].pc \notin Pendientes
  BY <1>6, <1>7 DEF Pendientes, Consultas
<1> QED
  BY <1>1, <1>4, <1>5, <1>6, <1>8, <1>12, <1>13, <1>14, PasoPropio

\* 341 on a semaphore with units: the process goes on in its CPU.
LEMMA ConcedeProtocolo ==
  ASSUME Tipos, ILugares, IProtocolo, NEW k \in CPUs, Cpu341Concede(k)
  PROVE  IProtocolo'
<1> DEFINE x == hilo[k].proceso
<1>1. UNCHANGED <<t_proceso, pcp, caida, buzon>>
  BY DEF Cpu341Concede, historia
<1>2. /\ \A j \in CPUs \ {k} : hilo'[j] = hilo[j]
      /\ hilo[k].pc = "341" /\ hilo'[k].pc = "recibe"
  BY Suelta DEF Cpu341Concede
<1>3. /\ cpu'[k].estado = IF cpu[k].estado = "espera342" THEN "ejecuta" ELSE cpu[k].estado
      /\ cpu'[k].pcb = cpu[k].pcb /\ cpu'[k].sigusr1 = cpu[k].sigusr1
      /\ cpu'[k].programaAbortado = cpu[k].programaAbortado
      /\ \A j \in CPUs \ {k} : cpu'[j] = cpu[j]
  BY ContestaHace DEF Cpu341Concede
<1>4. x \in Consolas /\ x # NULO /\ t_proceso[x].socket_CPU = k
  BY <1>2, UnoEnExec, ConstantesNucleo DEF IProtocolo, SusSockets, Pendientes
<1>5. cola'.exec = Append(cola.exec, x) /\ cola'.CPU_libres = cola.CPU_libres
  BY DEF Cpu341Concede, Tipos, TiposDeHilos, TipoColas, Colas
<1>6. Acorde(k, Libre(k), Suyos(k), hilo[k], buzon[k], cpu[k])
  BY DEF IProtocolo, Acuerdo
<1>7. Acorde(k, Libre(k), {x}, hilo'[k], buzon[k], cpu'[k])
  BY <1>2, <1>3, <1>4, <1>6, Concede
<1>8. Suyos(k) = {}
  BY <1>2, <1>6 DEF Acorde, Turno, ConTurno
<1> HIDE DEF x
<1>9. \A y : Contains(cola'.exec, y) <=> Contains(cola.exec, y) \/ y = x
  BY <1>5, UnoEnExec, Pone
<1>10. Suyos(k)' = {x} /\ (Libre(k)' <=> Libre(k))
  BY <1>1, <1>4, <1>5, <1>8, <1>9 DEF Suyos, Libre
<1>11. Acorde(k, Libre(k)', Suyos(k)', hilo'[k], buzon'[k], cpu'[k])
  BY <1>1, <1>7, <1>10, IgualLibre
<1>12. SinRepetir'
  BY <1>1, <1>5 DEF IProtocolo, SinRepetir
<1>13. hilo'[k].pc \notin Pendientes
  BY <1>2 DEF Pendientes
<1> QED
  BY <1>1, <1>2, <1>3, <1>4, <1>5, <1>9, <1>11, <1>12, <1>13, PasoPropio

\* The end of file of a CPU that died.
LEMMA CaeProtocolo ==
  ASSUME Tipos, ILugares, IProtocolo, NEW k \in CPUs, CpuCae(k)
  PROVE  IProtocolo'
<1>1. UNCHANGED <<t_proceso, pcp, caida, buzon, cpu>>
  BY DEF CpuCae, historia, bloqueados, programas
<1>2. Acorde(k, Libre(k), Suyos(k), hilo[k], buzon[k], cpu[k])
  BY DEF IProtocolo, Acuerdo
<1>3. /\ hilo[k].pc = "recibe" /\ buzon[k] \in Seq(Paquetes) /\ buzon[k] # <<>>
      /\ Head(buzon[k]).op = "-1" /\ cpu[k].estado \in EstadosCPU
  BY DEF CpuCae, Tipos, TiposDeHilos, TipoProgramas, EstadosPrograma
<1>4. CASE CpuPasaA(k, "recorre") /\ UNCHANGED cola
  <2>1. hilo'[k].pc = "recorre" /\ \A j \in CPUs \ {k} : hilo'[j] = hilo[j]
    BY <1>4, PasaA
  <2>2. Acorde(k, Libre(k), Suyos(k), hilo'[k], buzon[k], cpu[k])
    BY <1>2, <1>3, <2>1, Cae
  <2>3. Suyos(k)' = Suyos(k) /\ (Libre(k)' <=> Libre(k)) /\ SinRepetir'
    BY <1>1, <1>4 DEF Suyos, Libre, IProtocolo, SinRepetir
  <2>4. Acorde(k, Libre(k)', Suyos(k)', hilo'[k], buzon'[k], cpu'[k])
    BY <1>1, <2>2, <2>3, IgualLibre
  <2>5. hilo'[k].pc \notin Pendientes
    BY <2>1 DEF Pendientes
  <2> QED
    BY <1>1, <1>4, <2>1, <2>3, <2>4, <2>5, PasoPropio
<1>5. CASE \E i \in DOMAIN cola.exec :
             /\ EsSuProceso(k, i)
             /\ hilo' = [hilo EXCEPT ![k].pc = "aborta", ![k].proceso = cola.exec[i]]
             /\ cola' = [cola EXCEPT !.exec = RemoveAt(@, i)]
  <2>1. PICK i \in DOMAIN cola.exec :
          /\ EsSuProceso(k, i)
          /\ hilo' = [hilo EXCEPT ![k].pc = "aborta", ![k].proceso = cola.exec[i]]
          /\ cola' = [cola EXCEPT !.exec = RemoveAt(@, i)]
    BY <1>5
  <2> DEFINE x == cola.exec[i]
  <2>2. /\ x \in Consolas /\ t_proceso[x].socket_CPU = k /\ Suyos(k) = {x}
        /\ \A y : Contains(RemoveAt(cola.exec, i), y) <=> Contains(cola.exec, y) /\ y # x
    BY <2>1, Dame
  <2>3. cola'.exec = RemoveAt(cola.exec, i) /\ cola'.CPU_libres = cola.CPU_libres
    BY <2>1 DEF Tipos, TiposDeHilos, TipoColas, Colas
  <2>4. hilo'[k].pc = "aborta" /\ \A j \in CPUs \ {k} : hilo'[j] = hilo[j]
    BY <2>1 DEF Tipos, TiposDeHilos, TipoHilos, EstadosHilo
  <2> HIDE DEF x
  <2>5. Acorde(k, Libre(k), {}, hilo'[k], buzon[k], cpu[k])
    <3>1. Suyos(k) # {}
      BY <2>2
    <3> QED
      BY <1>2, <1>3, <2>4, <3>1, Cae
  <2>6. Suyos(k)' = {} /\ (Libre(k)' <=> Libre(k)) /\ SinRepetir'
    BY <1>1, <2>2, <2>3 DEF Suyos, Libre, IProtocolo, SinRepetir
  <2>7. Acorde(k, Libre(k)', Suyos(k)', hilo'[k], buzon'[k], cpu'[k])
    BY <1>1, <2>5, <2>6, IgualLibre
  <2>8. hilo'[k].pc \notin Pendientes
    BY <2>4 DEF Pendientes
  <2>9. /\ \A j \in CPUs \ {k} : Contains(cola'.CPU_libres, j) <=> Contains(cola.CPU_libres, j)
        /\ \A y \in Consolas : t_proceso[y].socket_CPU # k =>
             (Contains(cola'.exec, y) <=> Contains(cola.exec, y))
    BY <2>2, <2>3
  <2> QED
    BY <1>1, <2>4, <2>6, <2>7, <2>8, <2>9, PasoPropio
<1> QED
  BY <1>4, <1>5 DEF CpuCae

\* The socket of a CPU that died is taken out of cola_CPU_libres.
LEMMA RecorreProtocolo ==
  ASSUME Tipos, IProtocolo, NEW k \in CPUs, CpuCaeRecorre(k)
  PROVE  IProtocolo'
<1>1. UNCHANGED <<t_proceso, pcp, caida, buzon, cpu>>
  BY DEF CpuCaeRecorre, historia, bloqueados, programas
<1>2. Acorde(k, Libre(k), Suyos(k), hilo[k], buzon[k], cpu[k]) /\ hilo[k].pc = "recorre"
  BY DEF IProtocolo, Acuerdo, CpuCaeRecorre
<1>3. CASE CpuPasaA(k, "fin") /\ UNCHANGED cola
  <2>1. hilo'[k].pc = "fin" /\ \A j \in CPUs \ {k} : hilo'[j] = hilo[j]
    BY <1>3, PasaA
  <2>2. Acorde(k, Libre(k), Suyos(k), hilo'[k], buzon[k], cpu[k])
    BY <1>2, <2>1, Avanza DEF Pendientes, ConTurno, Cayendo
  <2>3. Suyos(k)' = Suyos(k) /\ (Libre(k)' <=> Libre(k)) /\ SinRepetir'
    BY <1>1, <1>3 DEF Suyos, Libre, IProtocolo, SinRepetir
  <2>4. Acorde(k, Libre(k)', Suyos(k)', hilo'[k], buzon'[k], cpu'[k])
    BY <1>1, <2>2, <2>3, IgualLibre
  <2>5. hilo'[k].pc \notin Pendientes
    BY <2>1 DEF Pendientes
  <2> QED
    BY <1>1, <1>3, <2>1, <2>3, <2>4, <2>5, PasoPropio
<1>4. CASE /\ CpuPasaA(k, "sem_wait")
           /\ \E i \in DOMAIN cola.CPU_libres :
                /\ EsPrimero(cola.CPU_libres, i, {k})
                /\ cola' = [cola EXCEPT !.CPU_libres = RemoveAt(@, i)]
  <2>1. PICK i \in DOMAIN cola.CPU_libres :
          /\ EsPrimero(cola.CPU_libres, i, {k})
          /\ cola' = [cola EXCEPT !.CPU_libres = RemoveAt(@, i)]
    BY <1>4
  <2>2. /\ cola'.CPU_libres = RemoveAt(cola.CPU_libres, i) /\ cola'.exec = cola.exec
        /\ cola.CPU_libres \in Seq(CPUs)
    BY <2>1 DEF Tipos, TiposDeHilos, TipoColas, Colas
  <2>3. i \in 1..Len(cola.CPU_libres) /\ cola.CPU_libres[i] = k
    BY <2>1 DEF EsPrimero
  <2>4. /\ SinRepetidos(cola'.CPU_libres)
        /\ \A y : Contains(cola'.CPU_libres, y) <=> Contains(cola.CPU_libres, y) /\ y # k
    BY <2>2, <2>3, Quita DEF IProtocolo, SinRepetir
  <2>5. hilo'[k].pc = "sem_wait" /\ \A j \in CPUs \ {k} : hilo'[j] = hilo[j]
    BY <1>4, PasaA
  <2>6. Acorde(k, FALSE, Suyos(k), hilo'[k], buzon[k], cpu[k])
    BY <1>2, <2>5, DejaDeEstarLibre
  <2>7. Contains(cola.CPU_libres, k)
    BY <2>3 DEF Contains
  <2>8. ~Libre(k)' /\ SinRepetir' /\ Suyos(k)' = Suyos(k)
    BY <1>1, <2>2, <2>4, <2>7, ConstantesNucleo DEF Libre, IProtocolo, SinRepetir, Suyos
  <2>9. Acorde(k, Libre(k)', Suyos(k)', hilo'[k], buzon'[k], cpu'[k])
    BY <1>1, <2>6, <2>8, IgualLibre
  <2>10. hilo'[k].pc \notin Pendientes
    BY <2>5 DEF Pendientes
  <2> QED
    BY <1>1, <2>2, <2>4, <2>5, <2>8, <2>9, <2>10, PasoPropio
<1> QED
  BY <1>3, <1>4 DEF CpuCaeRecorre

\* dameProceso finds nothing only if some CPU program may get a SIGINT.
LEMMA SinProcesoProtocolo ==
  ASSUME Tipos, ILugares, IProtocolo, NEW k \in CPUs, CpuSinProceso(k)
  PROVE  IProtocolo'
<1>1. UNCHANGED <<t_proceso, pcp, buzon, cpu, hilo, cola>>
  BY DEF CpuSinProceso, Muere, bloqueados, hilos, programas
<1>2. \A j \in CPUs : SigueDeAcuerdo(j)
  BY <1>1 DEF SigueDeAcuerdo, Libre, Suyos
<1>3. (\A j \in CPUs : Acuerdo(j)') /\ SinRepetir' /\ SusSockets'
  BY <1>1, <1>2, AcuerdoSigue DEF IProtocolo, SinRepetir, SusSockets
<1>4. ASSUME CPUsConInt = {} PROVE FALSE
  <2>1. Atendible(Suyos(k), buzon[k])
    BY <1>4 DEF IProtocolo, Acuerdo, Acorde
  <2>2. 1 \in 1..Len(buzon[k]) /\ Reclama(buzon[k][1].op)
    <3>1. buzon[k] \in Seq(Paquetes) /\ buzon[k] # <<>> /\ Reclama(Head(buzon[k]).op)
      BY DEF CpuSinProceso, Reclama, Tipos, TiposDeHilos, TipoProgramas
    <3> QED
      BY <3>1
  <2>3. PICK x \in Suyos(k) : TRUE
    BY <2>1, <2>2 DEF Atendible
  <2>4. cola.exec \in Seq(Consolas) /\ SinRepetidos(cola.exec)
    BY UnoEnExec
  <2>5. PICK i \in 1..Len(cola.exec) : cola.exec[i] = x
    BY <2>3 DEF Suyos, Contains
  <2>6. ASSUME NEW j \in 1..(i - 1),
               cola.exec[j] \in {p \in Consolas : t_proceso[p].socket_CPU = k}
        PROVE  FALSE
    <3>1. j \in 1..Len(cola.exec) /\ j # i
      BY <2>4
    <3>2. cola.exec[j] \in Suyos(k)
      BY <2>6, <3>1 DEF Suyos, Contains
    <3>3. cola.exec[j] = x
      BY <2>3, <3>2 DEF IProtocolo, Acuerdo, Acorde, Turno
    <3> QED
      BY <2>4, <2>5, <3>1, <3>3 DEF SinRepetidos
  <2>7. EsSuProceso(k, i)
    BY <2>3, <2>5, <2>6 DEF EsSuProceso, EsPrimero, Suyos
  <2> QED
    BY <2>4, <2>7 DEF CpuSinProceso
<1>5. SinSalir'
  BY <1>4 DEF SinSalir
<1> QED
  BY <1>3, <1>5 DEF IProtocolo

LEMMA HiloCPUProtocolo ==
  ASSUME Tipos, ILugares, IProtocolo, NEW k \in CPUs, HiloCPU(k)
  PROVE  IProtocolo'
<1>1. CASE CpuPCBIlegible(k)
  BY <1>1, MuereProtocolo DEF CpuPCBIlegible
<1> QED
  BY <1>1, AvanzaProtocolo, PCBProtocolo, AvisoProtocolo, BloqueaProtocolo, VariableProtocolo,
     LiberaProtocolo, TomaProtocolo, DevuelveProtocolo, ConcedeProtocolo, CaeProtocolo,
     RecorreProtocolo, SinProcesoProtocolo DEF HiloCPU
-----------------------------------------------------------------------------
(* The CPU programs.                                                        *)

\* A step of a CPU program.
LEMMA PasoDelPrograma ==
  ASSUME Tipos, IProtocolo, NEW k \in CPUs, UNCHANGED <<cola, t_proceso, pcp, hilo, caida>>,
         \A j \in CPUs \ {k} : buzon'[j] = buzon[j] /\ cpu'[j] = cpu[j],
         \A libre : Acorde(k, libre, Suyos(k), hilo[k], buzon[k], cpu[k])
                      => Acorde(k, libre, Suyos(k), hilo[k], buzon'[k], cpu'[k])
  PROVE  IProtocolo'
  BY PasoDelHilo DEF Sockets

LEMMA EnviaHace ==
  ASSUME Tipos, NEW k \in CPUs, NEW ps, Envia(k, ps)
  PROVE  /\ buzon[k] \in Seq(Paquetes) /\ buzon'[k] = buzon[k] \o ps
         /\ \A j \in CPUs \ {k} : buzon'[j] = buzon[j]
  BY DEF Envia, Tipos, TiposDeHilos, TipoProgramas

LEMMA LlamaProtocolo ==
  ASSUME Tipos, IProtocolo, NEW k \in CPUs, NEW op \in Primitivas, ProgramaLlama(k, op)
  PROVE  IProtocolo'
<1>1. UNCHANGED <<cola, t_proceso, pcp, hilo, caida>>
  BY DEF ProgramaLlama, ProgramaSigue, bloqueados, hilos, historia
<1>2. op \in {"341", "343", "350", "351", "360", "380"}
  BY ConstantesNucleo
<1>3. PICK m \in Paquetes : m.op = op /\ Envia(k, <<m>>)
  <2>1. CASE op \in {"341", "343"}
    <3>1. PICK s \in Semaforos : Envia(k, <<Paquete(op, s, 0)>>)
      BY <2>1 DEF ProgramaLlama
    <3>2. Paquete(op, s, 0) \in Paquetes /\ Paquete(op, s, 0).op = op
      BY <2>1 DEF Paquete, Paquetes
    <3> QED
      BY <3>1, <3>2
  <2>2. CASE op \in {"350", "351", "360"}
    <3>1. Envia(k, <<Codigo(op)>>)
      BY <2>2 DEF ProgramaLlama
    <3>2. Codigo(op) \in Paquetes /\ Codigo(op).op = op
      BY <2>2 DEF Codigo, Paquete, Paquetes
    <3> QED
      BY <3>1, <3>2
  <2>3. CASE op = "380"
    <3>1. PICK d \in IOs, u \in Unidades : Envia(k, <<Paquete(op, d, u)>>)
      BY <2>3 DEF ProgramaLlama
    <3>2. Paquete(op, d, u) \in Paquetes /\ Paquete(op, d, u).op = op
      BY <2>3, ConstantesNucleo DEF Paquete, Paquetes
    <3> QED
      BY <3>1, <3>2
  <2> QED
    BY <1>2, <2>1, <2>2, <2>3
<1>4. /\ buzon[k] \in Seq(Paquetes) /\ buzon'[k] = buzon[k] \o <<m>>
      /\ \A j \in CPUs \ {k} : buzon'[j] = buzon[j]
  BY <1>3, EnviaHace
<1>5. /\ cpu'[k].estado = IF m.op = "341" THEN "espera342" ELSE IF m.op = "351" THEN "espera352"
                          ELSE IF m.op = "380" THEN "bloqueada" ELSE "ejecuta"
      /\ cpu'[k].pcb = cpu[k].pcb /\ cpu'[k].sigusr1 = cpu[k].sigusr1
      /\ cpu'[k].programaAbortado = cpu[k].programaAbortado
      /\ \A j \in CPUs \ {k} : cpu'[j] = cpu[j]
      /\ cpu[k].estado = "ejecuta"
  <2> DEFINE e == CASE op = "341" -> "espera342" [] op = "351" -> "espera352"
                    [] op = "380" -> "bloqueada" [] OTHER -> "ejecuta"
  <2>1. cpu' = [cpu EXCEPT ![k].estado = e] /\ cpu[k].estado = "ejecuta"
    BY DEF ProgramaLlama, Ejecuta
  <2>2. e = IF m.op = "341" THEN "espera342" ELSE IF m.op = "351" THEN "espera352"
            ELSE IF m.op = "380" THEN "bloqueada" ELSE "ejecuta"
    BY <1>2, <1>3
  <2> HIDE DEF e
  <2>3. /\ cpu'[k].estado = e /\ cpu'[k].pcb = cpu[k].pcb /\ cpu'[k].sigusr1 = cpu[k].sigusr1
        /\ cpu'[k].programaAbortado = cpu[k].programaAbortado
        /\ \A j \in CPUs \ {k} : cpu'[j] = cpu[j]
    BY <2>1 DEF Tipos, TiposDeHilos, TipoProgramas, EstadosPrograma
  <2> QED
    BY <2>1, <2>2, <2>3
<1>6. \A libre : Acorde(k, libre, Suyos(k), hilo[k], buzon[k], cpu[k])
                   => Acorde(k, libre, Suyos(k), hilo[k], buzon'[k], cpu'[k])
  BY <1>2, <1>3, <1>4, <1>5, Llama
<1> QED
  BY <1>1, <1>4, <1>5, <1>6, PasoDelPrograma

\* The end of a burst.
LEMMA RafagaProtocolo ==
  ASSUME Tipos, IProtocolo, NEW k \in CPUs, NEW ps, NEW op, TerminaRafaga(k, ps),
         \/ ps = ConAviso(k, op)
         \/ ps = <<Codigo(op)>> /\ op = "320"
         \/ cpu[k].programaAbortado,
         \/ cpu[k].estado = "ejecuta" /\ op \in {"304", "320", "370"}
         \/ cpu[k].estado = "bloqueada" /\ op = "340"
  PROVE  IProtocolo'
<1>1. UNCHANGED <<cola, t_proceso, pcp, hilo, caida>>
  BY DEF TerminaRafaga, ProgramaSigue, bloqueados, hilos, historia
<1> DEFINE fin == IF cpu[k].sigusr1 THEN <<FinDeArchivo>> ELSE <<>>
<1>2. /\ buzon[k] \in Seq(Paquetes) /\ buzon'[k] = buzon[k] \o (ps \o fin)
      /\ \A j \in CPUs \ {k} : buzon'[j] = buzon[j]
  BY EnviaHace DEF TerminaRafaga
<1>3. /\ cpu'[k].estado = IF cpu[k].sigusr1 THEN "muerta" ELSE "espera303"
      /\ cpu'[k].pcb = NULO /\ cpu'[k].sigusr1 = cpu[k].sigusr1
      /\ cpu'[k].programaAbortado = cpu[k].programaAbortado
      /\ \A j \in CPUs \ {k} : cpu'[j] = cpu[j]
      /\ cpu[k].sigusr1 \in BOOLEAN /\ cpu[k].programaAbortado \in BOOLEAN
  BY DEF TerminaRafaga, Tipos, TiposDeHilos, TipoProgramas, EstadosPrograma
<1>4. Codigo(op) \in Paquetes /\ Codigo(op).op = op /\ op \in {"304", "320", "340", "370"}
  BY DEF Codigo, Paquete, Paquetes
<1>5. /\ <<>> \o <<Codigo(op)>> = <<Codigo(op)>> /\ <<Codigo(op)>> \o <<>> = <<Codigo(op)>>
  <2> DEFINE m == Codigo(op)
  <2> HIDE DEF m
  <2>1. <<m>> \in Seq({m})
    OBVIOUS
  <2>2. <<>> \o <<m>> = <<m>> /\ <<m>> \o <<>> = <<m>>
    BY <2>1, ConcatEmptySeq
  <2> QED
    BY <2>2 DEF m
<1> SUFFICES ASSUME NEW libre, Acorde(k, libre, Suyos(k), hilo[k], buzon[k], cpu[k])
             PROVE  Acorde(k, libre, Suyos(k), hilo[k], buzon'[k], cpu'[k])
  BY <1>1, <1>2, <1>3, PasoDelPrograma
<1>6. /\ cpu[k].programaAbortado => cpu[k].sigusr1 /\ k \in CPUsConInt
      /\ cpu[k].estado = "ejecuta" => Suyos(k) = {cpu[k].pcb} /\ SoloConsultas(buzon[k])
  BY DEF Acorde, Estado, Conversa
<1>7. CASE ~cpu[k].sigusr1
  <2>1. ps = <<Codigo(op)>> /\ fin = <<>>
    BY <1>5, <1>6, <1>7 DEF ConAviso
  <2>2. buzon'[k] = buzon[k] \o <<Codigo(op)>>
    BY <1>2, <1>5, <2>1
  <2>3. cpu'[k].estado = "espera303" /\ ~cpu'[k].sigusr1 /\ ~cpu'[k].programaAbortado
    BY <1>3, <1>6, <1>7
  <2>4. Acorde(k, libre, Suyos(k), hilo[k], buzon[k] \o <<Codigo(op)>>, cpu'[k])
    BY <1>2, <1>3, <1>4, <2>3, Termina
  <2> QED
    BY <2>2, <2>4
<1>8. CASE cpu[k].sigusr1
  <2>1. cpu'[k].estado = "muerta" /\ fin = <<FinDeArchivo>>
    BY <1>3, <1>8
  <2>2. ASSUME k \notin CPUsConInt PROVE Atendible(Suyos(k), buzon'[k])
    <3>1. PICK a \in {<<>>, <<Codigo("399")>>} : ps = a \o <<Codigo(op)>>
      <4>1. CASE ps = ConAviso(k, op)
        BY <1>8, <4>1 DEF ConAviso
      <4>2. CASE ps = <<Codigo(op)>>
        BY <1>5, <4>2
      <4> QED
        BY <1>6, <2>2, <4>1, <4>2
    <3> DEFINE todo == ps \o fin
    <3>2. /\ todo \in Seq(Paquetes) /\ Atendible({1}, todo)
          /\ op = "340" => \A i \in 1..Len(todo) : ~Reclama(todo[i].op)
      BY <1>4, <2>1, <3>1, Despedida
    <3> HIDE DEF todo
    <3>3. \A i \in 1..Len(buzon[k]) : buzon[k][i].op # "-1"
      BY <1>2, SinFin DEF EstadosCPU
    <3>4. SoloConsultas(buzon[k]) => \A i \in 1..Len(buzon[k]) : buzon[k][i].op \notin Entregas
      BY DEF SoloConsultas, Consultas, Entregas
    <3>5. Atendible(Suyos(k), buzon[k])
      BY <2>2 DEF Acorde
    <3>6. Atendible(Suyos(k), buzon[k] \o todo)
      BY <1>2, <1>6, <3>2, <3>3, <3>4, <3>5, AtendiblePega
    <3> QED
      BY <1>2, <3>6 DEF todo
  <2> QED
    BY <1>3, <2>1, <2>2, SeMuere
<1> QED
  BY <1>3, <1>7, <1>8

LEMMA ProgramaProtocolo ==
  ASSUME Tipos, IProtocolo, NEW k \in CPUs, Programa(k)
  PROVE  IProtocolo'
<1>1. CASE \E op \in Primitivas : ProgramaLlama(k, op)
  BY <1>1, LlamaProtocolo
<1>2. CASE ProgramaPCB(k)
  <2> DEFINE ps == ConAviso(k, "340")
                     \o (IF cpu[k].programaAbortado THEN ConAviso(k, "370") ELSE <<>>)
  <2>1. TerminaRafaga(k, ps) /\ cpu[k].estado = "bloqueada"
    BY <1>2 DEF ProgramaPCB
  <2>2. ~cpu[k].programaAbortado => ps = ConAviso(k, "340")
    <3> DEFINE s == ConAviso(k, "340")
    <3>1. s \in Seq(Paquetes)
      <4>1. Codigo("340") \in Paquetes /\ Codigo("399") \in Paquetes
        BY DEF Codigo, Paquete, Paquetes
      <4> DEFINE m == Codigo("340")
                 v == Codigo("399")
      <4> HIDE DEF m, v
      <4>2. <<>> \in Seq(Paquetes) /\ <<v>> \in Seq(Paquetes) /\ <<m>> \in Seq(Paquetes)
        BY <4>1 DEF m, v
      <4>3. s = <<>> \o <<m>> \/ s = <<v>> \o <<m>>
        BY DEF ConAviso, m, v
      <4> QED
        BY <4>2, <4>3, ConcatProperties
    <3> HIDE DEF s
    <3>2. s \o <<>> = s
      BY <3>1, ConcatEmptySeq
    <3> QED
      BY <3>2 DEF s
  <2> HIDE DEF ps
  <2> QED
    BY <2>1, <2>2, RafagaProtocolo
<1>3. CASE ProgramaQuantum(k)
  BY <1>3, RafagaProtocolo DEF ProgramaQuantum, Ejecuta
<1>4. CASE ProgramaAborta(k)
  BY <1>4, RafagaProtocolo DEF ProgramaAborta, Ejecuta
<1>5. CASE ProgramaFinaliza(k)
  <2>1. CASE TerminaRafaga(k, <<Codigo("320")>>)
    BY <1>5, <2>1, RafagaProtocolo DEF ProgramaFinaliza, Ejecuta
  <2>2. CASE cpu[k].programaAbortado /\ TerminaRafaga(k, <<Codigo("320")>> \o ConAviso(k, "370"))
    <3> DEFINE ps == <<Codigo("320")>> \o ConAviso(k, "370")
    <3>1. TerminaRafaga(k, ps)
      BY <2>2
    <3> HIDE DEF ps
    <3> QED
      BY <1>5, <2>2, <3>1, RafagaProtocolo DEF ProgramaFinaliza, Ejecuta
  <2> QED
    BY <1>5, <2>1, <2>2 DEF ProgramaFinaliza
<1> QED
  BY <1>1, <1>2, <1>3, <1>4, <1>5 DEF Programa

\* An end of file after what a live program sent.
LEMMA AtendibleFin ==
  ASSUME NEW k, NEW libre, NEW suyos, NEW h, NEW b, NEW c, Acorde(k, libre, suyos, h, b, c),
         b \in Seq(Paquetes), c.estado \in EstadosCPU \ {"muerta"}
  PROVE  k \notin CPUsConInt => Atendible(suyos, b \o <<FinDeArchivo>>)
<1> DEFINE n == FinDeArchivo
<1>1. n \in Paquetes /\ n.op = "-1"
  BY DEF FinDeArchivo, Codigo, Paquete, Paquetes
<1> HIDE DEF n
<1>2. /\ <<n>> \in Seq(Paquetes) /\ Atendible({1}, <<n>>)
      /\ \A i \in 1..Len(<<n>>) : ~Reclama(<<n>>[i].op)
  BY <1>1, PegaUno
<1>3. \A i \in 1..Len(b) : b[i].op # "-1"
  BY SinFin
<1>4. k \notin CPUsConInt => Atendible(suyos, b \o <<n>>)
  BY <1>2, <1>3, AtendiblePega DEF Acorde
<1> QED
  BY <1>4 DEF n

LEMMA CaidaProtocolo ==
  ASSUME Tipos, IProtocolo, NEW k \in CPUs, ProgramaSenial(k) \/ ProgramaCae(k)
  PROVE  IProtocolo'
<1>1. UNCHANGED <<cola, t_proceso, pcp, hilo, caida>>
  BY DEF ProgramaSenial, ProgramaCae, ProgramaSigue, bloqueados, hilos, historia
<1>2. cpu \in [CPUs -> EstadosPrograma] /\ cpu[k] \in EstadosPrograma
  BY DEF Tipos, TiposDeHilos, TipoProgramas
<1>3. CASE /\ Envia(k, <<FinDeArchivo>>) /\ cpu[k].estado \notin {"apagada", "muerta"}
           /\ \/ cpu' = [cpu EXCEPT ![k].estado = "muerta"]
              \/ cpu' = [cpu EXCEPT ![k].estado = "muerta", ![k].pcb = NULO]
           /\ cpu[k].estado # "espera303" => cpu'[k].pcb = NULO
  <2>1. /\ buzon[k] \in Seq(Paquetes) /\ buzon'[k] = buzon[k] \o <<FinDeArchivo>>
        /\ \A j \in CPUs \ {k} : buzon'[j] = buzon[j]
    BY <1>3, EnviaHace
  <2>2. /\ cpu'[k].estado = "muerta" /\ cpu'[k].pcb \in {cpu[k].pcb, NULO}
        /\ cpu'[k].sigusr1 = cpu[k].sigusr1
        /\ cpu'[k].programaAbortado = cpu[k].programaAbortado
        /\ \A j \in CPUs \ {k} : cpu'[j] = cpu[j]
    BY <1>2, <1>3 DEF EstadosPrograma
  <2> SUFFICES ASSUME NEW libre, Acorde(k, libre, Suyos(k), hilo[k], buzon[k], cpu[k])
               PROVE  Acorde(k, libre, Suyos(k), hilo[k], buzon'[k], cpu'[k])
    BY <1>1, <2>1, <2>2, PasoDelPrograma
  <2>3. cpu'[k].pcb = NULO
    <3>1. cpu[k].estado = "espera303" => cpu[k].pcb = NULO
      BY DEF Acorde, Estado, EnRafaga
    <3> QED
      BY <1>3, <2>2, <3>1
  <2>4. cpu[k].estado \in EstadosCPU \ {"muerta"}
    BY <1>2, <1>3 DEF EstadosPrograma
  <2>5. k \notin CPUsConInt => Atendible(Suyos(k), buzon'[k])
    BY <2>1, <2>4, AtendibleFin
  <2> QED
    BY <1>3, <2>2, <2>3, <2>5, SeMuere
<1>4. CASE \E int \in {FALSE : x \in {k} \cap CPUsConSenial} \cup {TRUE : x \in {k} \cap CPUsConInt} :
             /\ cpu[k].estado \in EnRafaga
             /\ cpu' = [cpu EXCEPT ![k] = [@ EXCEPT !.sigusr1 = TRUE,
                          !.programaAbortado = cpu[k].programaAbortado \/ int]]
             /\ UNCHANGED buzon
  <2>1. PICK int \in BOOLEAN :
          /\ int => k \in CPUsConInt
          /\ cpu[k].estado \in EnRafaga
          /\ cpu' = [cpu EXCEPT ![k] = [@ EXCEPT !.sigusr1 = TRUE,
                       !.programaAbortado = cpu[k].programaAbortado \/ int]]
          /\ UNCHANGED buzon
    BY <1>4
  <2>2. /\ cpu'[k].estado = cpu[k].estado /\ cpu'[k].pcb = cpu[k].pcb /\ cpu'[k].sigusr1
        /\ \A j \in CPUs \ {k} : cpu'[j] = cpu[j]
    BY <1>2, <2>1 DEF EstadosPrograma
  <2>3. cpu'[k].programaAbortado <=> cpu[k].programaAbortado \/ int
    BY <1>2, <2>1 DEF EstadosPrograma
  <2> SUFFICES ASSUME NEW libre, Acorde(k, libre, Suyos(k), hilo[k], buzon[k], cpu[k])
               PROVE  Acorde(k, libre, Suyos(k), hilo[k], buzon[k], cpu'[k])
    BY <1>1, <2>1, <2>2, PasoDelPrograma
  <2>4. Estado(k, hilo[k], buzon[k], cpu'[k])
    BY <2>1, <2>2, <2>3 DEF Acorde, Estado
  <2>5. Conversa(libre, Suyos(k), hilo[k], buzon[k], cpu'[k])
    BY <2>2 DEF Acorde, Conversa
  <2> QED
    BY <2>4, <2>5 DEF Acorde
<1>5. CASE ProgramaCae(k)
  BY <1>2, <1>3, <1>5 DEF ProgramaCae, EstadosPrograma
<1>6. CASE ProgramaSenial(k)
  BY <1>3, <1>4, <1>6 DEF ProgramaSenial, EnRafaga
<1> QED
  BY <1>5, <1>6
-----------------------------------------------------------------------------
LEMMA InitProtocolo == Init => IProtocolo
<1> SUFFICES ASSUME Init PROVE IProtocolo
  OBVIOUS
<1>1. SinRepetir /\ SusSockets /\ SinSalir
  BY DEF Init, SinRepetir, SinRepetidos, SusSockets, SinSalir, Pendientes
<1>2. ASSUME NEW k \in CPUs PROVE Acuerdo(k)
  <2>1. ~Libre(k) /\ Suyos(k) = {}
    BY ConstantesNucleo DEF Init, Libre, Suyos, Contains
  <2>2. /\ hilo[k].pc = "accept" /\ buzon[k] = <<>> /\ cpu[k].estado = "apagada"
        /\ cpu[k].pcb = NULO /\ ~cpu[k].sigusr1 /\ ~cpu[k].programaAbortado
    BY DEF Init
  <2>3. Turno(Libre(k), Suyos(k), hilo[k])
    BY <2>1 DEF Turno
  <2>4. Estado(k, hilo[k], buzon[k], cpu[k])
    BY <2>2 DEF Estado, EnRafaga, Cayendo
  <2>5. Conversa(Libre(k), Suyos(k), hilo[k], buzon[k], cpu[k])
    BY <2>2 DEF Conversa
  <2>6. Atendible(Suyos(k), buzon[k])
    BY <2>2 DEF Atendible
  <2> QED
    BY <2>3, <2>4, <2>5, <2>6 DEF Acuerdo, Acorde
<1> QED
  BY <1>1, <1>2 DEF IProtocolo

LEMMA QuietoProtocolo ==
  ASSUME Tipos, IProtocolo, UNCHANGED vars
  PROVE  IProtocolo'
  BY PasoAjeno DEF vars, hilos, programas, historia, Sockets

LEMMA NextProtocolo == Tipos /\ ILugares /\ IProtocolo /\ [Next]_vars => IProtocolo'
<1> SUFFICES ASSUME Tipos, ILugares, IProtocolo, Next PROVE IProtocolo'
  BY QuietoProtocolo
<1>1. CASE Hilos
  <2>1. CASE PLP \/ HiloPCP
    BY <2>1, OtrosProtocolo, PCPTomaProtocolo, MandarProtocolo DEF HiloPCP
  <2>2. CASE \E c \in Consolas : HiloConsola(c)
    BY <2>2, HiloConsolaProtocolo
  <2>3. ASSUME NEW k \in CPUs,
               CpuConecta(k) \/ HiloCPU(k) \/ Programa(k) \/ ProgramaSenial(k) \/ ProgramaCae(k)
        PROVE  IProtocolo'
    BY <2>3, ConectaProtocolo, HiloCPUProtocolo, ProgramaProtocolo, CaidaProtocolo
  <2>4. CASE \E h \in Manejadores : AnalizarIO(h)
    BY <2>4, OtrosProtocolo
  <2> QED
    BY <1>1, <2>1, <2>2, <2>3, <2>4 DEF Hilos
<1>2. CASE Principal
  BY <1>2, OtrosProtocolo
<1> QED
  BY <1>1, <1>2 DEF Next, Sigue

\* In every reachable state each CPU program and its thread agree on who has the
\* turn and on what may still be in the socket.
THEOREM IProtocoloSiempre == Spec => []IProtocolo
  BY InitTipos, NextTipos, InitPrincipal, NextPrincipal, InitLugares, NextLugares,
     InitProtocolo, NextProtocolo, PTL DEF Spec

\* The process that a CPU program runs has its socket, and is in cola_exec or in
\* the hands of the thread that serves the CPU.
LEMMA ElSuyo ==
  ASSUME Tipos, IProtocolo, NEW k \in CPUs, cpu[k].pcb # NULO
  PROVE  /\ t_proceso[cpu[k].pcb].socket_CPU = k
         /\ cpu[k].pcb \in {hilo[k].proceso} \cup {cola.exec[i] : i \in DOMAIN cola.exec}
<1> DEFINE p == cpu[k].pcb
<1>1. Acorde(k, Libre(k), Suyos(k), hilo[k], buzon[k], cpu[k])
  BY DEF IProtocolo, Acuerdo
<1>2. cpu[k].estado \in EnRafaga
  BY <1>1 DEF Acorde, Estado
<1>3. \/ Suyos(k) = {p}
      \/ hilo[k].pc \in Pendientes /\ hilo[k].proceso = p
  BY <1>1, <1>2 DEF Acorde, Conversa, Bloqueado, EnRafaga, Pendientes
<1>4. CASE Suyos(k) = {p}
  <2>1. p \in Suyos(k)
    BY <1>4
  <2>2. t_proceso[p].socket_CPU = k /\ Contains(cola.exec, p) /\ cola.exec \in Seq(Consolas)
    BY <2>1 DEF Suyos, Tipos, TiposDeHilos, TipoColas, Colas
  <2> QED
    BY <2>2 DEF Contains
<1>5. CASE hilo[k].pc \in Pendientes /\ hilo[k].proceso = p
  BY <1>5 DEF IProtocolo, SusSockets
<1> QED
  BY <1>3, <1>4, <1>5

\* No two CPU programs ever hold the PCB of one process, and the NUCLEO knows
\* what each one runs: for any consoles, CPUs, devices and system calls, with
\* CPUs that die or get signals at any time and with reloads.
THEOREM NoDosCPUsSiempre == Spec => []NoDosCPUs
<1>1. Tipos /\ IProtocolo => NoDosCPUs
  BY ElSuyo DEF NoDosCPUs
<1> QED
  BY <1>1, InitTipos, NextTipos, IProtocoloSiempre, PTL DEF Spec

\* dameProceso finds the process of every report and request, so that the NUCLEO
\* never exits on "NO HAY PROCESO", whatever CPUs die or get a SIGUSR1, as long
\* as none gets a SIGINT (whose program may report twice on a process).
THEOREM NuncaSinProcesoSiempre ==
  ASSUME CPUsConInt = {}
  PROVE  Spec => []NuncaSinProceso
<1>1. IProtocolo => NuncaSinProceso
  BY DEF IProtocolo, SinSalir, NuncaSinProceso
<1> QED
  BY <1>1, IProtocoloSiempre, PTL
=============================================================================
