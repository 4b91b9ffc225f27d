----------------------------- MODULE UmcPruebas -----------------------------
(* Theorems about Umc for any number of CPUs, processes, pages and frames,  *)
(* any TLB, either algorithm, and requests that overlap in any way.         *)
EXTENDS Umc, Minimos, FiniteSetTheorems, TLAPS

(* What the proof needs of the threads' type.                               *)
PCs == {"espera", "busca", "acierto", "fallo", "marcos", "hayMarcos", "revisa", "reemplaza",
        "elige", "asigna", "llena", "accede"}
Registros == [pc : PCs, pid : Pids \cup {NADIE}, op : {"leer", "escribir"},
              pagina : Paginas, marco : Int]
HilosOK == hilo \in [CPUs -> Registros] /\ mutexMarcos \in CPUs \cup {NADIE}

IInv == HilosOK /\ MarcosSeSueltan

(* A thread's step changes its own record only.                             *)
LEMMA PasaSolo ==
  ASSUME HilosOK, NEW k \in CPUs, NEW pc, Pasa(k, pc)
  PROVE  /\ hilo' = [j \in CPUs |-> IF j = k THEN [hilo[k] EXCEPT !.pc = pc] ELSE hilo[j]]
         /\ hilo'[k].pc = pc
         /\ \A j \in CPUs \ {k} : hilo'[j] = hilo[j]
  BY DEF HilosOK, Registros, PCs, Pasa

LEMMA PasaTipo ==
  ASSUME HilosOK, NEW k \in CPUs,
         NEW pc \in PCs,
         Pasa(k, pc), mutexMarcos' \in CPUs \cup {NADIE}
  PROVE  HilosOK'
  BY DEF HilosOK, Registros, PCs, Pasa

(* A step of a thread that is not in the section, and that does not touch   *)
(* the mutex, or of one that moves inside it.                               *)
LEMMA SinTocarElMutex ==
  ASSUME IInv, NEW k \in CPUs, mutexMarcos' = mutexMarcos,
         \A j \in CPUs \ {k} : hilo'[j] = hilo[j],
         \/ hilo[k].pc \notin {"hayMarcos", "revisa", "elige", "asigna"}
         \/ hilo'[k].pc \in {"hayMarcos", "revisa", "elige", "asigna"}
  PROVE  MarcosSeSueltan'
  BY NadieAssumption DEF IInv, HilosOK, MarcosSeSueltan

LEMMA IInvPaso == IInv /\ [Next]_vars => IInv'
<1> SUFFICES ASSUME IInv, [Next]_vars PROVE IInv'
  OBVIOUS
<1>0. HilosOK
  BY DEF IInv
<1>1. ASSUME NEW k \in CPUs, NEW p \in Pids, CambiarProceso(k, p)
      PROVE  IInv'
  <2>1. HilosOK' /\ hilo[k].pc = "espera" /\ \A j \in CPUs \ {k} : hilo'[j] = hilo[j]
    BY <1>0, <1>1 DEF CambiarProceso, HilosOK, Registros, PCs, EsDe
  <2> QED
    BY <1>1, <2>1, SinTocarElMutex DEF IInv, CambiarProceso
<1>2. ASSUME NEW k \in CPUs, Deja(k)
      PROVE  IInv'
  <2>1. 0 \in Paginas
    BY MarcosAssumption DEF Paginas
  <2>2. HilosOK' /\ hilo[k].pc = "espera" /\ \A j \in CPUs \ {k} : hilo'[j] = hilo[j]
    BY <1>0, <1>2, <2>1 DEF Deja, HilosOK, Registros, PCs, EsDe, Ocioso
  <2> QED
    BY <1>2, <2>2, SinTocarElMutex DEF IInv, Deja
<1>3. ASSUME NEW k \in CPUs, NEW op \in {"leer", "escribir"}, NEW g \in Paginas, Pide(k, op, g)
      PROVE  IInv'
  <2> DEFINE r == [hilo[k] EXCEPT !.pc = "busca", !.op = op, !.pagina = g]
  <2>1. /\ hilo[k].pc = "espera"
        /\ hilo' = [hilo EXCEPT ![k].pc = "busca", ![k].op = op, ![k].pagina = g]
    BY <1>3 DEF Pide, EsDe
  <2>2. hilo' = [hilo EXCEPT ![k] = r]
    BY <1>0, <2>1 DEF HilosOK
  <2>3. r \in Registros
    BY <1>0, <2>1 DEF HilosOK, Registros, PCs
  <2> HIDE DEF r
  <2>4. mutexMarcos' = mutexMarcos
    BY <1>3 DEF Pide
  <2>5. HilosOK' /\ \A j \in CPUs \ {k} : hilo'[j] = hilo[j]
    BY <1>0, <2>2, <2>3, <2>4 DEF HilosOK
  <2> QED
    BY <2>1, <2>4, <2>5, SinTocarElMutex DEF IInv
<1>4. ASSUME NEW k \in CPUs, Busca(k) \/ Acierto(k) \/ Fallo(k)
      PROVE  IInv'
  <2>1. PICK pc \in {"accede", "marcos", "revisa", "acierto", "fallo"} : Pasa(k, pc)
    BY <1>4 DEF Busca, Acierto, Fallo, Encontrada
  <2>2. hilo[k].pc \in {"busca", "acierto", "fallo"} /\ mutexMarcos' = mutexMarcos
    BY <1>4 DEF Busca, Acierto, Fallo, EsDe
  <2>3. HilosOK'
    BY <1>0, <2>1, <2>2, PasaTipo DEF HilosOK, PCs
  <2> QED
    BY <1>0, <2>1, <2>2, <2>3, PasaSolo, SinTocarElMutex DEF IInv
<1>5. ASSUME NEW k \in CPUs, TomaMarcos(k) \/ HayMarcos(k)
      PROVE  IInv'
  <2>1. CASE Pasa(k, "espera") /\ mutexMarcos' = NADIE
    BY <1>0, <2>1, PasaTipo DEF IInv, MarcosSeSueltan, PCs
  <2>2. CASE TomaMarcos(k)
    <3>1. PICK pc \in {"hayMarcos", "revisa"} : Pasa(k, pc)
      BY <2>2 DEF TomaMarcos
    <3>2. mutexMarcos' = k
      BY <2>2 DEF TomaMarcos
    <3>3. HilosOK'
      BY <1>0, <3>1, <3>2, PasaTipo DEF PCs
    <3> QED
      BY <1>0, <3>1, <3>2, <3>3, PasaSolo DEF IInv, MarcosSeSueltan
  <2>3. CASE Pasa(k, "revisa") /\ UNCHANGED mutexMarcos
    <3>1. HilosOK'
      BY <1>0, <2>3, PasaTipo DEF HilosOK, PCs
    <3> QED
      BY <1>0, <2>3, <3>1, PasaSolo, SinTocarElMutex DEF IInv
  <2> QED
    BY <1>5, <2>1, <2>2, <2>3 DEF HayMarcos
<1>6. ASSUME NEW k \in CPUs, Revisa(k)
      PROVE  IInv'
  <2>1. CASE Pasa(k, "reemplaza") /\ mutexMarcos' = NADIE
    BY <1>0, <2>1, PasaTipo DEF IInv, MarcosSeSueltan, PCs
  <2>2. CASE Pasa(k, "elige") /\ UNCHANGED mutexMarcos
    <3>1. HilosOK'
      BY <1>0, <2>2, PasaTipo DEF HilosOK, PCs
    <3> QED
      BY <1>0, <2>2, <3>1, PasaSolo, SinTocarElMutex DEF IInv
  <2> QED
    BY <1>6, <2>1, <2>2 DEF Revisa
<1>7. ASSUME NEW k \in CPUs, Reemplaza(k)
      PROVE  IInv'
  <2>1. Pasa(k, "accede") /\ hilo[k].pc = "reemplaza" /\ mutexMarcos' = mutexMarcos
    BY <1>7 DEF Reemplaza, EsDe
  <2>2. HilosOK'
    BY <1>0, <2>1, PasaTipo DEF HilosOK, PCs
  <2> QED
    BY <1>0, <2>1, <2>2, PasaSolo, SinTocarElMutex DEF IInv
<1>8. ASSUME NEW k \in CPUs, Elige(k)
      PROVE  IInv'
  <2> DEFINE m == IF Libres = {} THEN -1
                  ELSE CHOOSE x \in Libres : \A n \in Libres : x <= n
  <2>1. /\ hilo[k].pc = "elige" /\ mutexMarcos' = mutexMarcos
        /\ hilo' = [hilo EXCEPT ![k].pc = "asigna", ![k].marco = m]
    BY <1>8 DEF Elige, EsDe
  <2> HIDE DEF m
  <2>2. m \in Int
    <3>1. Libres \in SUBSET Nat
      BY MarcosAssumption DEF Libres, Marcos
    <3>2. CASE Libres = {}
      BY <3>2 DEF m
    <3>3. CASE Libres # {}
      <4>1. \E x \in Libres : \A n \in Libres : x <= n
        BY <3>1, <3>3, MenorExiste
      <4>2. m = CHOOSE x \in Libres : \A n \in Libres : x <= n
        BY <3>3 DEF m
      <4>3. m \in Libres
        BY <4>1, <4>2
      <4> QED
        BY <3>1, <4>3
    <3> QED
      BY <3>2, <3>3
  <2> DEFINE r == [hilo[k] EXCEPT !.pc = "asigna", !.marco = m]
  <2>4. hilo' = [hilo EXCEPT ![k] = r]
    BY <1>0, <2>1 DEF HilosOK
  <2>5. r \in Registros /\ r.pc = "asigna"
    BY <1>0, <2>2 DEF HilosOK, Registros, PCs
  <2> HIDE DEF r
  <2>6. HilosOK' /\ hilo'[k].pc = "asigna" /\ \A j \in CPUs \ {k} : hilo'[j] = hilo[j]
    BY <1>0, <2>1, <2>4, <2>5 DEF HilosOK
  <2> QED
    BY <2>1, <2>6, SinTocarElMutex DEF IInv
<1>9. ASSUME NEW k \in CPUs, Asigna(k)
      PROVE  IInv'
  <2>1. Pasa(k, "llena") /\ mutexMarcos' = NADIE
    BY <1>9 DEF Asigna
  <2> QED
    BY <1>0, <2>1, PasaTipo DEF IInv, MarcosSeSueltan, PCs
<1>16. ASSUME NEW k \in CPUs, Llena(k)
       PROVE  IInv'
  <2> DEFINE m == -1
  <2>1. /\ hilo[k].pc = "llena"
        /\ mutexMarcos' = mutexMarcos
        /\ m \in Int
        /\ hilo' = [hilo EXCEPT ![k].pc = "accede", ![k].marco = m]
    BY <1>16 DEF Llena, EsDe
  <2> HIDE DEF m
  <2> DEFINE r == [hilo[k] EXCEPT !.pc = "accede", !.marco = m]
  <2>2. hilo' = [hilo EXCEPT ![k] = r]
    BY <1>0, <2>1 DEF HilosOK
  <2>3. r \in Registros
    BY <1>0, <2>1 DEF HilosOK, Registros, PCs
  <2> HIDE DEF r
  <2>4. HilosOK' /\ \A j \in CPUs \ {k} : hilo'[j] = hilo[j]
    BY <1>0, <2>1, <2>2, <2>3 DEF HilosOK
  <2> QED
    BY <2>1, <2>4, SinTocarElMutex DEF IInv
<1>10. ASSUME NEW k \in CPUs, Accede(k)
       PROVE  IInv'
  <2>1. 0 \in Paginas
    BY MarcosAssumption DEF Paginas
  <2>2. /\ hilo[k].pc = "accede" /\ mutexMarcos' = mutexMarcos
        /\ hilo' = [hilo EXCEPT ![k] = [Ocioso EXCEPT !.pid = hilo[k].pid]]
    BY <1>10 DEF Accede, EsDe
  <2>3. HilosOK' /\ \A j \in CPUs \ {k} : hilo'[j] = hilo[j]
    BY <1>0, <2>1, <2>2 DEF HilosOK, Registros, PCs, Ocioso
  <2> QED
    BY <2>2, <2>3, SinTocarElMutex DEF IInv
<1>11. ASSUME UNCHANGED <<hilo, mutexMarcos>>
       PROVE  IInv'
  BY <1>11 DEF IInv, HilosOK, MarcosSeSueltan
<1>12. ASSUME NEW k \in CPUs, HiloCPU(k)
       PROVE  IInv'
  <2>1. CASE ReemplazaNulo(k)
    BY <2>1, <1>11 DEF ReemplazaNulo
  <2>2. ASSUME NEW g \in Paginas, Pide(k, "leer", g) \/ Pide(k, "escribir", g)
        PROVE  IInv'
    BY <2>2, <1>3
  <2> QED
    BY <1>12, <2>1, <2>2, <1>1, <1>2, <1>4, <1>5, <1>6, <1>7, <1>8, <1>9, <1>10, <1>16
       DEF HiloCPU, PasoDeCPU
<1>13. ASSUME NEW p \in Pids, HiloNucleo(p) \/ FlushMemory(p)
       PROVE  IInv'
  BY <1>13, <1>11 DEF HiloNucleo, Inicializa, FinalizaSwap, FinalizaTLB, TomaTabla, CuentaEntrada,
                      EmpiezaAQuitar, QuitaEntrada, FinalizaTabla, FlushMemory
<1>14. ASSUME FlushTLB
       PROVE  IInv'
  BY <1>14, <1>11 DEF FlushTLB
<1>15. ASSUME UNCHANGED vars
       PROVE  IInv'
  BY <1>15, <1>11 DEF vars
<1> QED
  BY <1>12, <1>13, <1>14, <1>15 DEF Next, Hilos

LEMMA IInvInicial == Init => IInv
<1>1. 0 \in Paginas
  BY MarcosAssumption DEF Paginas
<1> QED
  BY <1>1 DEF Init, Ocioso, IInv, HilosOK, Registros, PCs, MarcosSeSueltan

(* Whatever the threads do and however requests meet, the mutex of the       *)
(* frames is held only by a thread between no_tiene_ni_hay_marcos (leer.c)    *)
(* and the unlock of marco_nuevo (marcos.c).                                 *)
THEOREM MarcosSeSueltanSiempre == Spec => []MarcosSeSueltan
<1>1. Init => IInv
  BY IInvInicial
<1>2. IInv /\ [Next]_vars => IInv'
  BY IInvPaso
<1>3. IInv => MarcosSeSueltan
  BY DEF IInv
<1> QED
  BY <1>1, <1>2, <1>3, PTL DEF Spec

-----------------------------------------------------------------------------
(* The clock of each process.                                               *)

(* An entry, as far as the proofs need its type.                            *)
Registro == [marco : Int, presencia : BOOLEAN, modificado : BOOLEAN,
             puntero : BOOLEAN, uso : BOOLEAN]

EntradasOK(e) == e \in [Paginas -> Registro]
                 /\ \A g \in Paginas : e[g].presencia => e[g].marco \in Marcos

(* One puntero, on a page that is present, if there is any.                 *)
Reloj(e) == /\ \A g \in Paginas : e[g].puntero => e[g].presencia
            /\ \A g, h \in Paginas : e[g].puntero /\ e[h].puntero => g = h
            /\ Presentes(e) # {} => \E g \in Paginas : e[g].puntero

(* ------------------------------------------------------------------------ *)
(* The replacement on the entries of one process.                           *)

LEMMA DistanciaNat ==
  ASSUME NEW e, EntradasOK(e), NEW d \in Presentes(e), NEW g \in Presentes(e)
  PROVE  Distancia(e, d, g) \in Nat
<1>1. e[g].marco - e[d].marco \in Int
  BY DEF EntradasOK, Registro, Presentes
<1>2. cantidad_marcos \in Nat \ {0}
  BY MarcosAssumption
<1> DEFINE x == e[g].marco - e[d].marco
<1>3. \A y \in Int : y % cantidad_marcos \in 0 .. cantidad_marcos - 1
  BY <1>2
<1>4. x % cantidad_marcos \in 0 .. cantidad_marcos - 1
  BY <1>1, <1>3
<1> QED
  BY <1>2, <1>4 DEF Distancia

(* Of some pages that are present one is the nearest.                       *)
LEMMA HayCercana ==
  ASSUME NEW e, EntradasOK(e), NEW d \in Presentes(e), NEW S \in SUBSET Presentes(e), S # {}
  PROVE  \E g \in S : \A h \in S : Distancia(e, d, g) <= Distancia(e, d, h)
<1> DEFINE D == {Distancia(e, d, g) : g \in S}
<1>1. D \in SUBSET Nat /\ D # {}
  BY DistanciaNat
<1>2. PICK x \in D : \A y \in D : x <= y
  <2> HIDE DEF D
  <2> QED
    BY <1>1, MenorExiste
<1>3. PICK g \in S : x = Distancia(e, d, g)
  OBVIOUS
<1>4. \A h \in S : Distancia(e, d, g) <= Distancia(e, d, h)
  BY <1>2, <1>3
<1> QED
  BY <1>4

LEMMA PunteroPresente ==
  ASSUME NEW e, EntradasOK(e), Reloj(e), Presentes(e) # {}
  PROVE  Puntero(e) \in Presentes(e) /\ e[Puntero(e)].puntero
<1>1. \E g \in Presentes(e) : e[g].puntero
  BY DEF Reloj, Presentes
<1> QED
  BY <1>1 DEF Puntero

LEMMA PrimeraEsta ==
  ASSUME NEW e, EntradasOK(e), Reloj(e), NEW S \in SUBSET Presentes(e), S # {}
  PROVE  Primera(e, S) \in S
<1>1. Puntero(e) \in Presentes(e)
  BY PunteroPresente
<1>2. \E g \in S : \A h \in S :
        Distancia(e, Puntero(e), g) <= Distancia(e, Puntero(e), h)
  BY <1>1, HayCercana
<1> QED
  BY <1>2 DEF Primera

(* Either algorithm chooses a page of the process that is in memory.         *)
LEMMA VictimaPresente ==
  ASSUME NEW e, EntradasOK(e), Reloj(e), Presentes(e) # {}
  PROVE  Victima(e).pagina \in Presentes(e)
<1> DEFINE sinUso == {g \in Presentes(e) : ~e[g].uso}
           limpias == {g \in Presentes(e) : ~e[g].modificado}
<1>1. Puntero(e) \in Presentes(e)
  BY PunteroPresente
<1>2. VictimaClock(e).pagina \in Presentes(e)
  <2>1. CASE sinUso # {}
    BY <2>1, PrimeraEsta DEF VictimaClock
  <2>2. CASE sinUso = {}
    BY <2>2, <1>1 DEF VictimaClock
  <2> QED
    BY <2>1, <2>2
<1>3. VictimaModificado(e).pagina \in Presentes(e)
  <2>1. CASE sinUso \cap limpias # {}
    <3>1. VictimaModificado(e).pagina = Primera(e, sinUso \cap limpias)
      BY <2>1 DEF VictimaModificado
    <3> QED
      BY <2>1, <3>1, PrimeraEsta
  <2>2. CASE sinUso # {} /\ sinUso \cap limpias = {}
    <3>1. VictimaModificado(e).pagina = Primera(e, sinUso)
      BY <2>2 DEF VictimaModificado
    <3> QED
      BY <2>2, <3>1, PrimeraEsta
  <2>3. CASE sinUso = {} /\ limpias # {}
    <3>1. VictimaModificado(e).pagina = Primera(e, limpias)
      BY <2>3 DEF VictimaModificado
    <3> QED
      BY <2>3, <3>1, PrimeraEsta
  <2>4. CASE sinUso = {} /\ limpias = {}
    <3>1. VictimaModificado(e).pagina = Puntero(e)
      BY <2>4 DEF VictimaModificado
    <3> QED
      BY <3>1, <1>1
  <2> QED
    BY <2>1, <2>2, <2>3, <2>4
<1> QED
  BY <1>2, <1>3 DEF Victima

LEMMA NuevoPunteroEsta ==
  ASSUME NEW e, EntradasOK(e), NEW v \in Presentes(e), NEW nueva
  PROVE  NuevoPuntero(e, v, nueva) \in (Presentes(e) \ {v}) \cup {nueva}
<1> DEFINE otras == Presentes(e) \ {v}
<1>1. CASE otras = {}
  BY <1>1 DEF NuevoPuntero
<1>2. CASE otras # {}
  <2>1. \E g \in otras : \A h \in otras : Distancia(e, v, g) <= Distancia(e, v, h)
    BY <1>2, HayCercana
  <2> QED
    BY <1>2, <2>1 DEF NuevoPuntero
<1> QED
  BY <1>1, <1>2

(* What a replacement does to the entries, whoever is the victim v and      *)
(* whoever gets the puntero.                                                *)
LEMMA ReemplazoHace ==
  ASSUME NEW e, EntradasOK(e), Reloj(e), Presentes(e) # {},
         NEW nueva \in Paginas, nueva \notin Presentes(e)
  PROVE  \E v \in Presentes(e) : \E np \in (Presentes(e) \ {v}) \cup {nueva} :
           /\ v = Victima(e).pagina
           /\ Reemplazo(e, nueva) \in [Paginas -> Registro]
           /\ Reemplazo(e, nueva)[nueva].presencia
           /\ Reemplazo(e, nueva)[nueva].marco = e[v].marco
           /\ ~Reemplazo(e, nueva)[v].presencia
           /\ \A g \in Paginas \ {nueva, v} :
                /\ Reemplazo(e, nueva)[g].presencia = e[g].presencia
                /\ Reemplazo(e, nueva)[g].marco = e[g].marco
                /\ Reemplazo(e, nueva)[g].modificado = e[g].modificado
           /\ \A g \in Paginas : Reemplazo(e, nueva)[g].puntero <=> g = np
<1> DEFINE v == Victima(e).pagina
           np == NuevoPuntero(e, v, nueva)
           r == Reemplazo(e, nueva)
           m == -1
<1>1. v \in Presentes(e)
  BY VictimaPresente
<1>2. np \in (Presentes(e) \ {v}) \cup {nueva}
  BY <1>1, NuevoPunteroEsta
<1>3. v # nueva /\ v \in Paginas /\ np # v
  BY <1>1, <1>2 DEF Presentes
<1>4. \A g \in Paginas : e[g] \in Registro
  BY DEF EntradasOK
<1>5. r[nueva] = [e[nueva] EXCEPT !.marco = e[v].marco, !.uso = TRUE, !.presencia = TRUE,
                                  !.puntero = nueva = np]
  BY DEF Reemplazo
<1>6. r[v] = [marco |-> m, presencia |-> FALSE, modificado |-> FALSE, puntero |-> FALSE,
              uso |-> TRUE]
  BY <1>3 DEF Reemplazo, Nueva
<1>7. \A g \in Paginas \ {nueva, v} :
        r[g] = [e[g] EXCEPT !.uso = e[g].uso /\ g \notin Victima(e).pierdenUso, !.puntero = g = np]
  BY DEF Reemplazo
<1>8. r = [g \in Paginas |-> r[g]]
  BY DEF Reemplazo
<1>9. m \in Int
  OBVIOUS
<1> HIDE DEF r, np, v, m
<1>10. /\ r[nueva] \in Registro /\ r[nueva].presencia /\ r[nueva].marco = e[v].marco
       /\ r[nueva].puntero <=> nueva = np
  BY <1>3, <1>4, <1>5 DEF Registro
<1>11. r[v] \in Registro /\ ~r[v].presencia /\ ~r[v].puntero
  BY <1>6, <1>9 DEF Registro
<1>12. \A g \in Paginas \ {nueva, v} :
         /\ r[g] \in Registro /\ r[g].presencia = e[g].presencia /\ r[g].marco = e[g].marco
         /\ r[g].modificado = e[g].modificado
         /\ r[g].puntero <=> g = np
  <2> TAKE g \in Paginas \ {nueva, v}
  <2>1. e[g] \in Registro
    BY <1>4
  <2> DEFINE u == e[g].uso /\ g \notin Victima(e).pierdenUso
             b == g = np
  <2>2. u \in BOOLEAN /\ b \in BOOLEAN
    OBVIOUS
  <2>3. r[g] = [e[g] EXCEPT !.uso = u, !.puntero = b]
    BY <1>7
  <2>4. b <=> g = np
    OBVIOUS
  <2> HIDE DEF u, b
  <2> QED
    BY <2>1, <2>2, <2>3, <2>4 DEF Registro
<1>13. r \in [Paginas -> Registro]
  BY <1>8, <1>10, <1>11, <1>12
<1>14. \A g \in Paginas : r[g].puntero <=> g = np
  BY <1>3, <1>10, <1>11, <1>12
<1>15. /\ r[nueva].presencia /\ r[nueva].marco = e[v].marco /\ ~r[v].presencia
       /\ \A g \in Paginas \ {nueva, v} : /\ r[g].presencia = e[g].presencia
                                          /\ r[g].marco = e[g].marco
                                          /\ r[g].modificado = e[g].modificado
  BY <1>10, <1>11, <1>12
<1>16. v = Victima(e).pagina
  BY DEF v
<1> QED
  BY <1>1, <1>2, <1>13, <1>14, <1>15, <1>16 DEF r

(* ------------------------------------------------------------------------ *)
(* The clock stays well formed however requests overlap.                    *)

Falta == {"marcos", "hayMarcos", "revisa", "reemplaza", "elige", "asigna", "llena"}

(* What the NUCLEO's thread has done with a process.                        *)
Etapas == {"nuevo", "vivo", "rechazado", "sinSwap", "sinTLB", "contando", "quitando",
           "terminado"}

TablaOK == /\ tabla \in [Pids -> [Paginas -> Registro]]
           /\ \A p \in Pids : EntradasOK(tabla[p])
           /\ disponible \in [Marcos -> BOOLEAN]
           /\ proceso \in [Pids -> Etapas]

(* A thread that serves a request has a process that is alive, the page it   *)
(* is getting a frame for is absent, and a frame it has chosen is one.       *)
HiloBien(k) ==
  /\ hilo[k].pc # "espera" => hilo[k].pid \in Pids
  /\ hilo[k].pid \in Pids => proceso[hilo[k].pid] = "vivo"
  /\ hilo[k].pc \in Falta => ~Entrada(k).presencia
  /\ hilo[k].pc \in {"asigna", "llena"} /\ ~caida => hilo[k].marco \in Marcos

(* No two of them have the same process.                                    *)
Distintos == \A j, k \in CPUs : hilo[j].pid = hilo[k].pid /\ hilo[k].pid \in Pids => j = k

RelojBien == \A p \in Pids : Reloj(tabla[p])

IReloj == /\ IInv
          /\ TablaOK
          /\ \A k \in CPUs : HiloBien(k)
          /\ Distintos
          /\ RelojBien

(* What a step of thread k leaves to the others: their processes' pages are  *)
(* their own.                                                               *)
LEMMA LosDemas ==
  ASSUME IReloj, HilosOK', NEW k \in CPUs, proceso' = proceso, ~caida,
         \A j \in CPUs \ {k} : hilo'[j] = hilo[j],
         \A p \in Pids : p # hilo[k].pid => tabla'[p] = tabla[p]
  PROVE  \A j \in CPUs \ {k} : HiloBien(j)'
<1> TAKE j \in CPUs \ {k}
<1>1. HiloBien(j) /\ hilo'[j] = hilo[j]
  BY DEF IReloj
<1>2. hilo[j].pid \in Pids => hilo[j].pid # hilo[k].pid
  BY DEF IReloj, Distintos
<1>3. hilo[j].pc \in Falta => hilo[j].pc # "espera"
  BY DEF Falta
<1>4. hilo[j].pc \in Falta => Entrada(j)' = Entrada(j)
  BY <1>1, <1>2, <1>3 DEF HiloBien, Entrada
<1> QED
  BY <1>1, <1>4 DEF HiloBien, Entrada

(* A step that leaves the table alone and keeps the thread's process.        *)
LEMMA PasaBien ==
  ASSUME IReloj, IInv', NEW k \in CPUs, proceso' = proceso, ~caida,
         \A j \in CPUs \ {k} : hilo'[j] = hilo[j],
         hilo'[k].pid = hilo[k].pid,
         tabla' = tabla, disponible' \in [Marcos -> BOOLEAN],
         HiloBien(k)'
  PROVE  IReloj'
<1>1. \A j \in CPUs : HiloBien(j)'
  BY LosDemas DEF IReloj, IInv
<1>2. Distintos'
  BY DEF IReloj, Distintos
<1>3. TablaOK' /\ RelojBien'
  BY DEF IReloj, TablaOK, RelojBien, EntradasOK, Reloj, Presentes
<1> QED
  BY <1>1, <1>2, <1>3 DEF IReloj

(* The pc alone changes, and where it goes the page is absent if it has to be. *)
LEMMA PasaPc ==
  ASSUME IReloj, IInv', NEW k \in CPUs, NEW pc \in PCs, Pasa(k, pc),
         hilo[k].pc # "espera", pc \notin {"asigna", "llena"},
         pc \in Falta => ~Entrada(k).presencia,
         proceso' = proceso, ~caida, tabla' = tabla, disponible' = disponible
  PROVE  IReloj'
<1>1. HilosOK
  BY DEF IReloj, IInv
<1>2. hilo'[k] = [hilo[k] EXCEPT !.pc = pc] /\ \A j \in CPUs \ {k} : hilo'[j] = hilo[j]
  BY <1>1 DEF Pasa, HilosOK
<1>3. hilo'[k].pc = pc /\ hilo'[k].pid = hilo[k].pid /\ hilo'[k].pagina = hilo[k].pagina
  BY <1>1, <1>2 DEF HilosOK, Registros
<1>4. HiloBien(k)'
  BY <1>3 DEF IReloj, HiloBien, Entrada
<1> QED
  BY <1>2, <1>3, <1>4, PasaBien DEF IReloj, TablaOK

(* A step that touches the entries of the thread's process only.             *)
LEMMA TablaPaso ==
  ASSUME IReloj, IInv', NEW k \in CPUs, proceso' = proceso, ~caida,
         hilo[k].pid \in Pids,
         \A j \in CPUs \ {k} : hilo'[j] = hilo[j],
         hilo'[k].pid = hilo[k].pid, hilo'[k].pc \notin Falta,
         disponible' \in [Marcos -> BOOLEAN],
         NEW e, tabla' = [tabla EXCEPT ![hilo[k].pid] = e],
         EntradasOK(e), Reloj(e)
  PROVE  IReloj'
<1>1. tabla \in [Pids -> [Paginas -> Registro]] /\ \A p \in Pids : EntradasOK(tabla[p])
  BY DEF IReloj, TablaOK
<1>2. \A p \in Pids : tabla'[p] = IF p = hilo[k].pid THEN e ELSE tabla[p]
  BY <1>1
<1>3. tabla' \in [Pids -> [Paginas -> Registro]]
  BY <1>1 DEF EntradasOK
<1>4. \A p \in Pids : EntradasOK(tabla'[p]) /\ Reloj(tabla'[p])
  BY <1>1, <1>2 DEF IReloj, RelojBien
<1>5. TablaOK' /\ RelojBien'
  BY <1>3, <1>4 DEF IReloj, TablaOK, RelojBien, EntradasOK, Reloj, Presentes
<1>6. \A j \in CPUs \ {k} : HiloBien(j)'
  BY <1>2, LosDemas DEF IInv
<1>7. HiloBien(k)'
  BY DEF IReloj, HiloBien, Falta
<1>8. Distintos'
  BY DEF IReloj, Distintos
<1> QED
  BY <1>5, <1>6, <1>7, <1>8 DEF IReloj

(* A step that only writes what the invariant does not speak of.            *)
LEMMA Quieto ==
  ASSUME IReloj, IInv', hilo' = hilo, tabla' = tabla, disponible' \in [Marcos -> BOOLEAN],
         proceso' = proceso, caida => caida'
  PROVE  IReloj'
<1>1. \A k \in CPUs : HiloBien(k)'
  BY DEF IReloj, HiloBien, Entrada
<1>2. TablaOK' /\ Distintos' /\ RelojBien'
  BY DEF IReloj, TablaOK, Distintos, RelojBien, EntradasOK, Reloj, Presentes
<1> QED
  BY <1>1, <1>2 DEF IReloj

(* A step of the NUCLEO's thread on a process that no CPU runs.              *)
LEMMA PasoDelNucleo ==
  ASSUME IReloj, IInv', NEW p \in Pids, hilo' = hilo, caida' = caida,
         \A k \in CPUs : hilo[k].pid # p,
         \A q \in Pids \ {p} : tabla'[q] = tabla[q] /\ proceso'[q] = proceso[q],
         TablaOK', Reloj(tabla'[p])
  PROVE  IReloj'
<1>1. \A k \in CPUs : HiloBien(k)'
  <2> TAKE k \in CPUs
  <2>1. HiloBien(k) /\ hilo'[k] = hilo[k] /\ hilo[k].pid # p
    BY DEF IReloj
  <2>2. hilo[k].pc \in Falta => hilo[k].pc # "espera"
    BY DEF Falta
  <2>3. hilo[k].pc \in Falta => Entrada(k)' = Entrada(k)
    BY <2>1, <2>2 DEF HiloBien, Entrada
  <2> QED
    BY <2>1, <2>3 DEF HiloBien
<1>2. Distintos'
  BY DEF IReloj, Distintos
<1>3. \A q \in Pids : Reloj(tabla'[q])
  BY DEF IReloj, RelojBien
<1>4. RelojBien'
  BY <1>3 DEF RelojBien, Reloj, Presentes
<1> QED
  BY <1>1, <1>2, <1>4 DEF IReloj

(* The frame that marco_nuevo finds first is an available one.               *)
LEMMA MarcoElegido ==
  ASSUME Libres # {}
  PROVE  (CHOOSE m \in Libres : \A n \in Libres : m <= n) \in Libres
<1>1. Libres \in SUBSET Nat
  BY MarcosAssumption DEF Libres, Marcos
<1>2. \E m \in Libres : \A n \in Libres : m <= n
  BY <1>1, MenorExiste
<1> QED
  BY <1>2

(* What Llena writes in the entries of its process.                        *)
LEMMA AsignacionHace ==
  ASSUME NEW e, EntradasOK(e), Reloj(e), NEW g \in Paginas, ~e[g].presencia, NEW m \in Marcos,
         NEW b \in BOOLEAN, b <=> (e[g].puntero \/ Presentes(e) = {}),
         NEW r, r = [e EXCEPT ![g] = [e[g] EXCEPT !.presencia = TRUE, !.marco = m, !.puntero = b]]
  PROVE  /\ EntradasOK(r) /\ Reloj(r)
         /\ r[g].presencia /\ r[g].marco = m
         /\ \A h \in Paginas \ {g} : r[h] = e[h]
<1> DEFINE x == [e[g] EXCEPT !.presencia = TRUE, !.marco = m, !.puntero = b]
<1>1. e \in [Paginas -> Registro] /\ e[g] \in Registro /\ m \in Int
  BY MarcosAssumption DEF EntradasOK, Marcos
<1>2. r = [e EXCEPT ![g] = x]
  OBVIOUS
<1>3. b <=> Presentes(e) = {}
  BY DEF Reloj
<1>4. /\ x \in Registro /\ x.presencia /\ x.marco = m
      /\ x.puntero <=> Presentes(e) = {}
  BY <1>1, <1>3 DEF Registro
<1> HIDE DEF x
<1>5. /\ r \in [Paginas -> Registro]
      /\ r[g] = x
      /\ \A h \in Paginas \ {g} : r[h] = e[h]
  BY <1>1, <1>2, <1>4
<1>6. EntradasOK(r)
  BY <1>4, <1>5 DEF EntradasOK
<1>7. Reloj(r)
  BY <1>4, <1>5 DEF Reloj, Presentes
<1> QED
  BY <1>4, <1>5, <1>6, <1>7

(* What an access leaves of its page's entry: the frame, presencia, puntero. *)
LEMMA MarcasHacen ==
  ASSUME NEW e, EntradasOK(e), Reloj(e), NEW r \in [Paginas -> Registro],
         \A g \in Paginas : /\ r[g].marco = e[g].marco
                            /\ r[g].presencia = e[g].presencia
                            /\ r[g].puntero = e[g].puntero
  PROVE  EntradasOK(r) /\ Reloj(r)
<1>1. Presentes(r) = Presentes(e)
  BY DEF Presentes
<1> QED
  BY <1>1 DEF EntradasOK, Reloj

(* Reloj after a replacement.                                               *)
LEMMA ReemplazoBien ==
  ASSUME NEW e, EntradasOK(e), Reloj(e), Presentes(e) # {},
         NEW nueva \in Paginas, nueva \notin Presentes(e)
  PROVE  EntradasOK(Reemplazo(e, nueva)) /\ Reloj(Reemplazo(e, nueva))
<1> DEFINE r == Reemplazo(e, nueva)
<1>1. PICK v \in Presentes(e) : \E np \in (Presentes(e) \ {v}) \cup {nueva} :
           /\ r \in [Paginas -> Registro]
           /\ r[nueva].presencia
           /\ r[nueva].marco = e[v].marco
           /\ ~r[v].presencia
           /\ \A g \in Paginas \ {nueva, v} :
                r[g].presencia = e[g].presencia /\ r[g].marco = e[g].marco
           /\ \A g \in Paginas : r[g].puntero <=> g = np
  BY ReemplazoHace
<1> HIDE DEF r
<1>2. e[v].marco \in Marcos /\ v \in Paginas /\ v # nueva
  BY DEF EntradasOK, Presentes
<1>3. EntradasOK(r)
  BY <1>1, <1>2 DEF EntradasOK
<1>4. PICK np : /\ np \in (Presentes(e) \ {v}) \cup {nueva}
                /\ \A g \in Paginas : r[g].puntero <=> g = np
  BY <1>1
<1>5. np \in Paginas /\ r[np].presencia
  BY <1>1, <1>2, <1>4 DEF Presentes
<1>6. Reloj(r)
  BY <1>4, <1>5 DEF Reloj
<1> QED
  BY <1>3, <1>6 DEF r

LEMMA IRelojPaso == IReloj /\ [Next]_vars => IReloj'
<1> SUFFICES ASSUME IReloj, [Next]_vars PROVE IReloj'
  OBVIOUS
<1>0. IInv' /\ HilosOK /\ TablaOK
  BY IInvPaso DEF IReloj, IInv
<1>1. ASSUME NEW k \in CPUs, NEW p \in Pids, CambiarProceso(k, p)
      PROVE  IReloj'
  <2>1. /\ hilo[k].pc = "espera" /\ proceso[p] = "vivo"
        /\ \A j \in CPUs : hilo[j].pid # p
        /\ hilo' = [hilo EXCEPT ![k].pid = p]
        /\ UNCHANGED <<tabla, disponible, proceso, caida>>
    BY <1>1 DEF CambiarProceso, EsDe
  <2>2. hilo'[k].pid = p /\ hilo'[k].pc = "espera" /\ \A j \in CPUs \ {k} : hilo'[j] = hilo[j]
    BY <1>0, <2>1 DEF HilosOK, Registros
  <2>3. HiloBien(k)'
    BY <2>1, <2>2 DEF HiloBien, Falta
  <2>4. \A j \in CPUs \ {k} : HiloBien(j)'
    BY <2>1, <2>2 DEF IReloj, HiloBien, Entrada
  <2>5. Distintos'
    BY <2>1, <2>2 DEF IReloj, Distintos
  <2>6. TablaOK' /\ RelojBien'
    BY <2>1 DEF IReloj, TablaOK, RelojBien, EntradasOK, Reloj, Presentes
  <2> QED
    BY <1>0, <2>3, <2>4, <2>5, <2>6 DEF IReloj
<1>2. ASSUME NEW k \in CPUs, Deja(k)
      PROVE  IReloj'
  <2>1. /\ hilo' = [hilo EXCEPT ![k] = Ocioso]
        /\ UNCHANGED <<tabla, disponible, proceso, caida>>
    BY <1>2 DEF Deja
  <2>2. /\ hilo'[k].pid = NADIE /\ hilo'[k].pc = "espera"
        /\ \A j \in CPUs \ {k} : hilo'[j] = hilo[j]
    BY <1>0, <2>1 DEF HilosOK, Ocioso
  <2>3. HiloBien(k)'
    BY <2>2, NadieAssumption DEF HiloBien, Falta
  <2>4. \A j \in CPUs \ {k} : HiloBien(j)'
    BY <2>1, <2>2 DEF IReloj, HiloBien, Entrada
  <2>5. Distintos'
    BY <2>2, NadieAssumption DEF IReloj, Distintos
  <2>6. TablaOK' /\ RelojBien'
    BY <2>1 DEF IReloj, TablaOK, RelojBien, EntradasOK, Reloj, Presentes
  <2> QED
    BY <1>0, <2>3, <2>4, <2>5, <2>6 DEF IReloj
<1>3. ASSUME NEW k \in CPUs, NEW op \in {"leer", "escribir"}, NEW g \in Paginas, Pide(k, op, g)
      PROVE  IReloj'
  <2>1. /\ ~caida /\ hilo[k].pid # NADIE
        /\ hilo' = [hilo EXCEPT ![k].pc = "busca", ![k].op = op, ![k].pagina = g]
        /\ UNCHANGED <<tabla, disponible, proceso>>
    BY <1>3 DEF Pide, EsDe
  <2> DEFINE r == [hilo[k] EXCEPT !.pc = "busca", !.op = op, !.pagina = g]
  <2>2. hilo' = [hilo EXCEPT ![k] = r]
    BY <1>0, <2>1 DEF HilosOK
  <2>3. r.pc = "busca" /\ r.pid = hilo[k].pid
    BY <1>0 DEF HilosOK, Registros
  <2> HIDE DEF r
  <2>4. /\ hilo'[k].pc = "busca" /\ hilo'[k].pid = hilo[k].pid
        /\ \A j \in CPUs \ {k} : hilo'[j] = hilo[j]
    BY <1>0, <2>2, <2>3 DEF HilosOK
  <2>5. hilo[k].pid \in Pids
    BY <1>0, <2>1 DEF HilosOK, Registros
  <2>6. HiloBien(k)'
    BY <2>1, <2>4, <2>5 DEF IReloj, HiloBien, Falta
  <2> QED
    BY <1>0, <2>1, <2>4, <2>6, PasaBien DEF TablaOK
<1>4. ASSUME NEW k \in CPUs, Busca(k) \/ Acierto(k) \/ Fallo(k)
      PROVE  IReloj'
  <2>1. PICK pc \in PCs : /\ Pasa(k, pc) /\ pc \notin {"asigna", "llena"}
                          /\ pc \in Falta => ~Entrada(k).presencia
    BY <1>4 DEF Busca, Acierto, Fallo, Encontrada, PCs, Falta
  <2>2. /\ ~caida /\ hilo[k].pc # "espera"
        /\ UNCHANGED <<tabla, disponible, proceso>>
    BY <1>4 DEF Busca, Acierto, Fallo, EsDe
  <2> QED
    BY <1>0, <2>1, <2>2, PasaPc
<1>5. ASSUME NEW k \in CPUs, TomaMarcos(k) \/ HayMarcos(k) \/ Revisa(k)
      PROVE  IReloj'
  <2>1. PICK pc \in PCs : Pasa(k, pc) /\ pc \notin {"asigna", "llena"}
    BY <1>5 DEF TomaMarcos, HayMarcos, Revisa, PCs
  <2>2. /\ ~caida /\ hilo[k].pc \in {"marcos", "hayMarcos", "revisa"}
        /\ UNCHANGED <<tabla, disponible, proceso>>
    BY <1>5 DEF TomaMarcos, HayMarcos, Revisa, EsDe
  <2>3. ~Entrada(k).presencia
    BY <2>2 DEF IReloj, HiloBien, Falta
  <2>4. hilo[k].pc # "espera"
    BY <2>2
  <2> QED
    BY <1>0, <2>1, <2>2, <2>3, <2>4, PasaPc
<1>6. ASSUME NEW k \in CPUs, Reemplaza(k)
      PROVE  IReloj'
  <2> DEFINE e == tabla[hilo[k].pid]
             g == hilo[k].pagina
             r == Reemplazo(e, g)
  <2>1. /\ ~caida /\ hilo[k].pc = "reemplaza" /\ Presentes(e) # {}
        /\ tabla' = [tabla EXCEPT ![hilo[k].pid] = r]
        /\ Pasa(k, "accede") /\ UNCHANGED <<disponible, proceso>>
    BY <1>6 DEF Reemplaza, EsDe
  <2>2. hilo[k].pid \in Pids /\ g \in Paginas
    BY <1>0, <2>1 DEF IReloj, HiloBien, HilosOK, Registros
  <2>3. g \notin Presentes(e)
    BY <2>1 DEF IReloj, HiloBien, Falta, Entrada, Presentes
  <2>4. EntradasOK(e) /\ Reloj(e)
    BY <1>0, <2>2 DEF IReloj, RelojBien, TablaOK
  <2>5. EntradasOK(r) /\ Reloj(r)
    <3> HIDE DEF e, g
    <3> QED
      BY <2>1, <2>2, <2>3, <2>4, ReemplazoBien
  <2>6. /\ hilo'[k].pc = "accede" /\ hilo'[k].pid = hilo[k].pid
        /\ \A j \in CPUs \ {k} : hilo'[j] = hilo[j]
    BY <1>0, <2>1 DEF Pasa, HilosOK, Registros
  <2> HIDE DEF r
  <2> QED
    BY <1>0, <2>1, <2>2, <2>5, <2>6, TablaPaso DEF TablaOK, Falta
<1>7. ASSUME NEW k \in CPUs, ReemplazaNulo(k)
      PROVE  IReloj'
  BY <1>0, <1>7, Quieto DEF ReemplazaNulo, TablaOK
<1>8. ASSUME NEW k \in CPUs, Elige(k)
      PROVE  IReloj'
  <2> DEFINE m == IF Libres = {} THEN -1
                  ELSE CHOOSE x \in Libres : \A n \in Libres : x <= n
             r == [hilo[k] EXCEPT !.pc = "asigna", !.marco = m]
  <2>1. /\ ~caida /\ hilo[k].pc = "elige" /\ caida' = (Libres = {})
        /\ hilo' = [hilo EXCEPT ![k].pc = "asigna", ![k].marco = m]
        /\ UNCHANGED <<tabla, disponible, proceso>>
    BY <1>8 DEF Elige, EsDe
  <2>2. ~caida' => m \in Marcos
    <3>1. Libres # {} => m \in Libres
      BY MarcoElegido
    <3> QED
      BY <2>1, <3>1 DEF Libres
  <2> HIDE DEF m
  <2>3. hilo' = [hilo EXCEPT ![k] = r]
    BY <1>0, <2>1 DEF HilosOK
  <2>4. r.pc = "asigna" /\ r.pid = hilo[k].pid /\ r.marco = m /\ r.pagina = hilo[k].pagina
    BY <1>0 DEF HilosOK, Registros
  <2> HIDE DEF r
  <2>5. /\ hilo'[k].pc = "asigna" /\ hilo'[k].pid = hilo[k].pid /\ hilo'[k].marco = m
        /\ hilo'[k].pagina = hilo[k].pagina
        /\ \A j \in CPUs \ {k} : hilo'[j] = hilo[j]
    BY <1>0, <2>3, <2>4 DEF HilosOK
  <2>6. HiloBien(k)'
    BY <2>1, <2>2, <2>5 DEF IReloj, HiloBien, Falta, Entrada
  <2> QED
    BY <1>0, <2>1, <2>5, <2>6, PasaBien DEF TablaOK
<1>17. ASSUME NEW k \in CPUs, Asigna(k)
       PROVE  IReloj'
  <2>1. /\ ~caida /\ hilo[k].pc = "asigna" /\ Pasa(k, "llena")
        /\ disponible' = [disponible EXCEPT ![hilo[k].marco] = FALSE]
        /\ UNCHANGED <<tabla, proceso, caida>>
    BY <1>17 DEF Asigna, EsDe
  <2>2. /\ hilo'[k].pc = "llena" /\ hilo'[k].pid = hilo[k].pid
        /\ hilo'[k].pagina = hilo[k].pagina /\ hilo'[k].marco = hilo[k].marco
        /\ \A j \in CPUs \ {k} : hilo'[j] = hilo[j]
    BY <1>0, <2>1 DEF Pasa, HilosOK, Registros
  <2>3. HiloBien(k)'
    BY <2>1, <2>2 DEF IReloj, HiloBien, Falta, Entrada
  <2>4. disponible' \in [Marcos -> BOOLEAN]
    BY <1>0, <2>1 DEF TablaOK
  <2> QED
    BY <1>0, <2>1, <2>2, <2>3, <2>4, PasaBien
<1>9. ASSUME NEW k \in CPUs, Llena(k)
      PROVE  IReloj'
  <2> DEFINE p == hilo[k].pid
             g == hilo[k].pagina
             m == hilo[k].marco
             e == tabla[p]
             b == Entrada(k).puntero \/ Tiene(p) = {}
             r == [e EXCEPT ![g] = [e[g] EXCEPT !.presencia = TRUE, !.marco = m, !.puntero = b]]
             n == -1
  <2>1. /\ ~caida /\ hilo[k].pc = "llena"
        /\ UNCHANGED <<disponible, proceso>>
        /\ hilo' = [hilo EXCEPT ![k].pc = "accede", ![k].marco = n]
    BY <1>9 DEF Llena, EsDe
  <2>2. tabla' = [tabla EXCEPT ![p][g] = [tabla[p][g] EXCEPT !.presencia = TRUE, !.marco = m,
                                                             !.puntero = b]]
    BY <1>9 DEF Llena
  <2>3. p \in Pids /\ g \in Paginas /\ m \in Marcos /\ ~e[g].presencia
    BY <1>0, <2>1 DEF IReloj, HiloBien, HilosOK, Registros, Falta, Entrada
  <2>4. EntradasOK(e) /\ Reloj(e)
    BY <1>0, <2>3 DEF IReloj, RelojBien, TablaOK
  <2>5. b \in BOOLEAN /\ (b <=> (e[g].puntero \/ Presentes(e) = {}))
    BY DEF Entrada, Tiene
  <2>6. /\ hilo'[k].pc = "accede" /\ hilo'[k].pid = hilo[k].pid
        /\ \A j \in CPUs \ {k} : hilo'[j] = hilo[j]
    <3> HIDE DEF n
    <3> QED
      BY <1>0, <2>1 DEF HilosOK, Registros
  <2>7. disponible' \in [Marcos -> BOOLEAN]
    BY <1>0, <2>1 DEF TablaOK
  <2> HIDE DEF b
  <2>8. tabla' = [tabla EXCEPT ![p] = r]
    BY <1>0, <2>2, <2>3 DEF TablaOK
  <2>9. EntradasOK(r) /\ Reloj(r)
    <3> HIDE DEF e, g, m
    <3> QED
      BY <2>3, <2>4, <2>5, AsignacionHace
  <2> HIDE DEF r
  <2> QED
    BY <1>0, <2>1, <2>3, <2>6, <2>7, <2>8, <2>9, TablaPaso DEF Falta
<1>10. ASSUME NEW k \in CPUs, Accede(k)
       PROVE  IReloj'
  <2> DEFINE p == hilo[k].pid
             g == hilo[k].pagina
             e == tabla[p]
             r == tabla'[p]
  <2>1. /\ ~caida /\ hilo[k].pc = "accede"
        /\ UNCHANGED <<disponible, proceso>>
        /\ hilo' = [hilo EXCEPT ![k] = [Ocioso EXCEPT !.pid = p]]
    BY <1>10 DEF Accede, EsDe
  <2>2. \/ tabla' = [tabla EXCEPT ![p][g].uso = TRUE]
        \/ tabla' = [tabla EXCEPT ![p][g].uso = TRUE, ![p][g].modificado = TRUE]
    BY <1>10 DEF Accede
  <2>3. p \in Pids /\ g \in Paginas
    BY <1>0, <2>1 DEF IReloj, HiloBien, HilosOK, Registros
  <2>4. EntradasOK(e) /\ Reloj(e)
    BY <1>0, <2>3 DEF IReloj, RelojBien, TablaOK
  <2>5. /\ hilo'[k].pc = "espera" /\ hilo'[k].pid = hilo[k].pid
        /\ \A j \in CPUs \ {k} : hilo'[j] = hilo[j]
    BY <1>0, <2>1 DEF HilosOK, Ocioso
  <2>6. PICK x \in {[e[g] EXCEPT !.uso = TRUE],
                    [e[g] EXCEPT !.uso = TRUE, !.modificado = TRUE]} :
          tabla' = [tabla EXCEPT ![p] = [e EXCEPT ![g] = x]]
    BY <1>0, <2>2, <2>3 DEF TablaOK
  <2>7. e \in [Paginas -> Registro] /\ e[g] \in Registro
    BY <2>3, <2>4 DEF EntradasOK
  <2>8. /\ x \in Registro /\ x.marco = e[g].marco /\ x.presencia = e[g].presencia
        /\ x.puntero = e[g].puntero
    BY <2>6, <2>7 DEF Registro
  <2>9. tabla' = [tabla EXCEPT ![p] = r] /\ r = [e EXCEPT ![g] = x]
    BY <1>0, <2>3, <2>6 DEF TablaOK
  <2>10. r \in [Paginas -> Registro]
         /\ \A h \in Paginas : /\ r[h].marco = e[h].marco
                               /\ r[h].presencia = e[h].presencia
                               /\ r[h].puntero = e[h].puntero
    BY <2>3, <2>7, <2>8, <2>9
  <2> HIDE DEF r
  <2>11. EntradasOK(r) /\ Reloj(r)
    <3> HIDE DEF e
    <3> QED
      BY <2>4, <2>10, MarcasHacen
  <2> QED
    BY <1>0, <2>1, <2>3, <2>5, <2>9, <2>11, TablaPaso DEF TablaOK, Falta
<1>11. ASSUME NEW p \in Pids,
              \/ Inicializa(p) \/ FinalizaSwap(p) \/ FinalizaTLB(p) \/ TomaTabla(p)
              \/ EmpiezaAQuitar(p)
       PROVE  IReloj'
  <2>1. PICK donde \in Etapas : proceso' = [proceso EXCEPT ![p] = donde]
    BY <1>11 DEF Inicializa, FinalizaSwap, FinalizaTLB, TomaTabla, EmpiezaAQuitar, Etapas
  <2>2. UNCHANGED <<tabla, disponible, hilo, caida>>
    BY <1>11 DEF Inicializa, FinalizaSwap, FinalizaTLB, TomaTabla, EmpiezaAQuitar
  <2>3. \A k \in CPUs : hilo[k].pid # p
    BY <1>11 DEF Inicializa, FinalizaSwap, FinalizaTLB, TomaTabla, EmpiezaAQuitar, IReloj, HiloBien
  <2>4. \A q \in Pids \ {p} : tabla'[q] = tabla[q] /\ proceso'[q] = proceso[q]
    BY <1>0, <2>1, <2>2 DEF TablaOK
  <2>5. TablaOK' /\ Reloj(tabla'[p])
    BY <1>0, <2>1, <2>2 DEF IReloj, RelojBien, TablaOK, EntradasOK
  <2> QED
    BY <1>0, <2>2, <2>3, <2>4, <2>5, PasoDelNucleo
<1>12. ASSUME NEW p \in Pids, FinalizaTabla(p)
       PROVE  IReloj'
  <2> DEFINE nada == [g \in Paginas |-> Nueva]
             m == -1
  <2>1. /\ UNCHANGED <<hilo, caida>> /\ proceso[p] = "quitando"
        /\ proceso' = [proceso EXCEPT ![p] = "terminado"]
        /\ disponible' \in [Marcos -> BOOLEAN]
        /\ tabla' = [tabla EXCEPT ![p] = nada]
    BY <1>0, <1>12 DEF FinalizaTabla, TablaOK
  <2>2. \A k \in CPUs : hilo[k].pid # p
    BY <2>1 DEF IReloj, HiloBien
  <2>3. Nueva = [marco |-> m, presencia |-> FALSE, modificado |-> FALSE, puntero |-> FALSE,
                 uso |-> TRUE] /\ m \in Int
    BY DEF Nueva
  <2> HIDE DEF m
  <2>4. Nueva \in Registro /\ ~Nueva.presencia /\ ~Nueva.puntero
    BY <2>3 DEF Registro
  <2>5. EntradasOK(nada) /\ Reloj(nada)
    BY <2>4 DEF EntradasOK, Reloj, Presentes
  <2> HIDE DEF nada
  <2>6. \A q \in Pids : tabla'[q] = IF q = p THEN nada ELSE tabla[q]
    BY <1>0, <2>1 DEF TablaOK
  <2>7. \A q \in Pids \ {p} : tabla'[q] = tabla[q] /\ proceso'[q] = proceso[q]
    BY <1>0, <2>1, <2>6 DEF TablaOK
  <2>8. /\ tabla' \in [Pids -> [Paginas -> Registro]]
        /\ proceso' \in [Pids -> Etapas]
    BY <1>0, <2>1, <2>5 DEF TablaOK, EntradasOK, Etapas
  <2>9. \A q \in Pids : EntradasOK(tabla'[q])
    BY <1>0, <2>5, <2>6 DEF TablaOK
  <2>10. TablaOK'
    BY <2>1, <2>8, <2>9 DEF TablaOK, EntradasOK
  <2>11. Reloj(tabla'[p])
    BY <2>5, <2>6
  <2> QED
    BY <1>0, <2>1, <2>2, <2>7, <2>10, <2>11, PasoDelNucleo
<1>13. ASSUME NEW p \in Pids, FlushMemory(p)
       PROVE  IReloj'
  <2>1. /\ UNCHANGED <<disponible, hilo, proceso, caida>>
        /\ tabla' = [tabla EXCEPT ![p] =
                       [g \in Paginas |-> [tabla[p][g] EXCEPT !.modificado = TRUE]]]
    BY <1>13 DEF FlushMemory
  <2> DEFINE e == tabla[p]
             r == [g \in Paginas |-> [e[g] EXCEPT !.modificado = TRUE]]
  <2>2. EntradasOK(e) /\ Reloj(e)
    BY <1>0 DEF IReloj, TablaOK, RelojBien
  <2>3. \A g \in Paginas : e[g] \in Registro
    BY <2>2 DEF EntradasOK
  <2>4. \A g \in Paginas : /\ r[g] \in Registro
                           /\ r[g].marco = e[g].marco
                           /\ r[g].presencia = e[g].presencia
                           /\ r[g].puntero = e[g].puntero
    BY <2>3 DEF Registro
  <2>5. r \in [Paginas -> Registro]
    BY <2>4
  <2>6. tabla' = [tabla EXCEPT ![p] = r]
    BY <2>1
  <2> HIDE DEF r
  <2>7. EntradasOK(r) /\ Reloj(r)
    <3> HIDE DEF e
    <3> QED
      BY <2>2, <2>4, <2>5, MarcasHacen
  <2>8. \A q \in Pids : tabla'[q] = IF q = p THEN r ELSE tabla[q]
    BY <1>0, <2>6 DEF TablaOK
  <2>9. \A q \in Pids : EntradasOK(tabla'[q]) /\ Reloj(tabla'[q])
    BY <1>0, <2>7, <2>8 DEF IReloj, TablaOK, RelojBien
  <2>10. tabla' \in [Pids -> [Paginas -> Registro]]
    BY <1>0, <2>5, <2>6 DEF TablaOK
  <2>11. TablaOK' /\ RelojBien'
    BY <1>0, <2>1, <2>9, <2>10 DEF TablaOK, RelojBien, EntradasOK, Reloj, Presentes
  <2>12. \A q \in Pids, g \in Paginas : tabla'[q][g].presencia = tabla[q][g].presencia
    BY <2>4, <2>8
  <2>13. \A k \in CPUs : HiloBien(k)'
    <3> TAKE k \in CPUs
    <3>1. HiloBien(k) /\ hilo'[k] = hilo[k] /\ hilo[k].pagina \in Paginas
      BY <1>0, <2>1 DEF IReloj, HilosOK, Registros
    <3>2. hilo[k].pid \in Pids => Entrada(k)'.presencia = Entrada(k).presencia
      BY <2>12, <3>1 DEF Entrada
    <3>3. hilo[k].pc \in Falta => hilo[k].pid \in Pids
      BY <3>1 DEF HiloBien, Falta
    <3> QED
      BY <2>1, <3>1, <3>2, <3>3 DEF HiloBien
  <2>14. Distintos'
    BY <2>1 DEF IReloj, Distintos
  <2> QED
    BY <1>0, <2>11, <2>13, <2>14 DEF IReloj
<1>14. ASSUME FlushTLB \/ UNCHANGED vars
       PROVE  IReloj'
  BY <1>0, <1>14, Quieto DEF FlushTLB, vars, TablaOK
<1>18. ASSUME NEW p \in Pids, NEW g \in Paginas, CuentaEntrada(p, g) \/ QuitaEntrada(p, g)
       PROVE  IReloj'
  <2>1. /\ UNCHANGED <<tabla, hilo, proceso, caida>>
        /\ disponible' = [disponible EXCEPT ![tabla[p][g].marco] = TRUE]
    BY <1>18 DEF CuentaEntrada, QuitaEntrada
  <2>2. disponible' \in [Marcos -> BOOLEAN]
    BY <1>0, <2>1 DEF TablaOK
  <2> QED
    BY <1>0, <2>1, <2>2, Quieto
<1>15. ASSUME NEW k \in CPUs, HiloCPU(k)
       PROVE  IReloj'
  <2>1. ASSUME NEW g \in Paginas, Pide(k, "leer", g) \/ Pide(k, "escribir", g)
        PROVE  IReloj'
    BY <2>1, <1>3
  <2> QED
    BY <1>15, <2>1, <1>1, <1>2, <1>4, <1>5, <1>6, <1>7, <1>8, <1>9, <1>10, <1>17
       DEF HiloCPU, PasoDeCPU
<1>16. ASSUME NEW p \in Pids, HiloNucleo(p) \/ FlushMemory(p)
       PROVE  IReloj'
  BY <1>16, <1>11, <1>12, <1>13, <1>18 DEF HiloNucleo
<1> QED
  BY <1>14, <1>15, <1>16 DEF Next, Hilos

LEMMA IRelojInicial == Init => IReloj
<1> SUFFICES ASSUME Init PROVE IReloj
  OBVIOUS
<1> DEFINE m == -1
<1>1. Nueva = [marco |-> m, presencia |-> FALSE, modificado |-> FALSE, puntero |-> FALSE,
               uso |-> TRUE] /\ m \in Int
  BY DEF Nueva
<1>2. \A k \in CPUs : hilo[k].pid = NADIE /\ hilo[k].pc = "espera"
  BY DEF Init, Ocioso
<1> HIDE DEF m
<1>3. Nueva \in Registro /\ ~Nueva.presencia /\ ~Nueva.puntero
  BY <1>1 DEF Registro
<1>4. TablaOK
  BY <1>3 DEF Init, TablaOK, EntradasOK, Etapas
<1>5. RelojBien
  BY <1>3 DEF Init, RelojBien, Reloj, Presentes
<1>6. Distintos /\ \A k \in CPUs : HiloBien(k)
  BY <1>2, NadieAssumption DEF Distintos, HiloBien, Falta
<1> QED
  BY <1>4, <1>5, <1>6, IInvInicial DEF IReloj

(* However requests meet and whatever frames they get, avanzar_victima and   *)
(* crear_nueva_entrada leave each process with pages in memory one puntero,   *)
(* on one of those pages, so lista_circular_clock (marcos.c) finds it.        *)
THEOREM RelojBienArmadoSiempre == Spec => []RelojBienArmado
<1>1. Init => IReloj
  BY IRelojInicial
<1>2. IReloj /\ [Next]_vars => IReloj'
  BY IRelojPaso
<1>3. IReloj => RelojBienArmado
  <2> SUFFICES ASSUME IReloj, NEW p \in Pids
               PROVE  /\ Cardinality({g \in Paginas : tabla[p][g].puntero})
                            = IF Tiene(p) = {} THEN 0 ELSE 1
                      /\ \A g \in Paginas : tabla[p][g].puntero => tabla[p][g].presencia
    BY DEF RelojBienArmado
  <2> DEFINE P == {g \in Paginas : tabla[p][g].puntero}
  <2>1. Reloj(tabla[p])
    BY DEF IReloj, RelojBien
  <2>2. CASE Tiene(p) = {}
    <3>1. P = {}
      BY <2>1, <2>2 DEF Reloj, Tiene, Presentes
    <3> QED
      BY <2>1, <2>2, <3>1, FS_EmptySet DEF Reloj
  <2>3. CASE Tiene(p) # {}
    <3>1. PICK g \in Paginas : tabla[p][g].puntero
      BY <2>1, <2>3 DEF Reloj, Tiene
    <3>2. P = {g}
      BY <2>1, <3>1 DEF Reloj
    <3>3. Cardinality({g}) = 1
      BY FS_Singleton
    <3> QED
      BY <2>1, <2>3, <3>2, <3>3 DEF Reloj
  <2> QED
    BY <2>2, <2>3
<1> QED
  BY <1>1, <1>2, <1>3, PTL DEF Spec

-----------------------------------------------------------------------------
(* The TLB.                                                                 *)

(* What is left of a list: the elements that are not of X, in their order.   *)
LEMMA SinHace ==
  ASSUME NEW T, NEW X, NEW s \in Seq(T), NEW r, r = Sin(X, s)
  PROVE  /\ r \in Seq(T) /\ Len(r) <= Len(s)
         /\ \A j \in 1..Len(r) : r[j] \notin X /\ \E h \in 1..Len(s) : r[j] = s[h]
         /\ (\E h \in 1..Len(s) : s[h] \in X) => Len(r) < Len(s)
         /\ (\A i, j \in 1..Len(s) : s[i] = s[j] => i = j)
              => \A i, j \in 1..Len(r) : r[i] = r[j] => i = j
<1> DEFINE n == Len(s)
           Queda(f, i) == IF i = 0 THEN <<>>
                          ELSE IF s[i] \in X THEN f[i - 1] ELSE Append(f[i - 1], s[i])
           quedan == CHOOSE f : f = [i \in 0..n |-> Queda(f, i)]
<1>1. n \in Nat /\ \A i \in 1..n : s[i] \in T
  OBVIOUS
<1>2. r = quedan[n]
  BY DEF Sin
<1>3. \E f : f = [i \in 0..n |-> Queda(f, i)]
  <2> DEFINE S == {m \in Nat : \E f : f = [i \in 0..m |-> Queda(f, i)]}
  <2>1. 0 \in S
    <3> DEFINE f == [i \in 0..0 |-> <<>>]
    <3>1. f = [i \in 0..0 |-> Queda(f, i)]
      OBVIOUS
    <3> HIDE DEF f
    <3> QED
      BY <3>1
  <2>2. ASSUME NEW m \in S PROVE m + 1 \in S
    <3>1. PICK f : f = [i \in 0..m |-> Queda(f, i)]
      OBVIOUS
    <3> DEFINE ultimo == Queda(f, m + 1)
               g == [i \in 0..(m + 1) |-> IF i = m + 1 THEN ultimo ELSE f[i]]
    <3>2. m \in Nat /\ \A i \in 0..m : f[i] = Queda(f, i)
      <4> HIDE DEF Queda
      <4> QED
        BY <3>1
    <3> HIDE DEF ultimo
    <3>3. \A i \in 0..m : g[i] = f[i]
      BY <3>2
    <3>4. g[m + 1] = ultimo
      BY <3>2
    <3>5. \A i \in 0..(m + 1) : Queda(g, i) = Queda(f, i)
      <4> HIDE DEF g
      <4> QED
        BY <3>2, <3>3
    <3>6. \A i \in 0..(m + 1) : g[i] = Queda(g, i)
      <4>1. \A i \in 0..(m + 1) : i \in 0..m \/ i = m + 1
        BY <3>2
      <4> HIDE DEF Queda, g
      <4> QED
        BY <3>2, <3>3, <3>4, <3>5, <4>1 DEF ultimo
    <3>7. g = [i \in 0..(m + 1) |-> Queda(g, i)]
      <4> HIDE DEF Queda
      <4> QED
        BY <3>6
    <3> HIDE DEF g, Queda
    <3> QED
      BY <3>2, <3>7
  <2> HIDE DEF S
  <2>3. S \in SUBSET Nat
    BY DEF S
  <2>4. n \in S
    BY <1>1, <2>1, <2>2, <2>3, Induccion
  <2> QED
    BY <2>4 DEF S
<1>4. quedan = [i \in 0..n |-> Queda(quedan, i)]
  BY <1>3
<1> HIDE DEF quedan
<1>5. /\ quedan[0] = <<>>
      /\ \A i \in 1..n : quedan[i] = IF s[i] \in X THEN quedan[i - 1]
                                                    ELSE Append(quedan[i - 1], s[i])
  <2>1. \A i \in 0..n : quedan[i] = Queda(quedan, i)
    <3> HIDE DEF Queda
    <3> QED
      BY <1>4
  <2>2. 0 \in 0..n /\ \A i \in 1..n : i \in 0..n /\ i # 0
    BY <1>1
  <2> QED
    BY <2>1, <2>2
<1> DEFINE Hecho(i) ==
             /\ quedan[i] \in Seq(T) /\ Len(quedan[i]) <= i
             /\ \A j \in 1..Len(quedan[i]) :
                  quedan[i][j] \notin X /\ \E h \in 1..i : quedan[i][j] = s[h]
             /\ (\E h \in 1..i : s[h] \in X) => Len(quedan[i]) < i
             /\ (\A h, j \in 1..n : s[h] = s[j] => h = j)
                  => \A h, j \in 1..Len(quedan[i]) : quedan[i][h] = quedan[i][j] => h = j
<1>6. n \in {i \in Nat : i <= n => Hecho(i)}
  <2> DEFINE S == {i \in Nat : i <= n => Hecho(i)}
  <2>1. 0 \in S
    <3>1. Hecho(0)
      <4>1. quedan[0] = <<>>
        BY <1>5
      <4>2. /\ <<>> \in Seq(T) /\ Len(<<>>) = 0
            /\ 1..0 = {}
        OBVIOUS
      <4> QED
        BY <4>1, <4>2
    <3> QED
      BY <3>1
  <2>2. ASSUME NEW i \in S, i + 1 <= n
        PROVE  Hecho(i + 1)
    <3> DEFINE a == quedan[i]
               b == quedan[i + 1]
    <3>1. i \in Nat /\ i + 1 \in 1..n /\ Hecho(i)
      BY <1>1, <2>2
    <3>2. b = IF s[i + 1] \in X THEN a ELSE Append(a, s[i + 1])
      BY <1>5, <3>1
    <3>3. CASE s[i + 1] \in X
      BY <1>1, <3>1, <3>2, <3>3
    <3>4. CASE s[i + 1] \notin X
      <4>1. b \in Seq(T) /\ Len(b) = Len(a) + 1 /\ b[Len(a) + 1] = s[i + 1]
            /\ \A j \in 1..Len(a) : b[j] = a[j]
        BY <1>1, <3>1, <3>2, <3>4
      <4>2. \A j \in 1..Len(b) : j \in 1..Len(a) \/ j = Len(a) + 1
        BY <3>1, <4>1
      <4> HIDE DEF a, b
      <4>3. /\ a \in Seq(T) /\ Len(a) <= i
            /\ \A j \in 1..Len(a) : a[j] \notin X /\ \E h \in 1..i : a[j] = s[h]
            /\ (\E h \in 1..i : s[h] \in X) => Len(a) < i
        BY <3>1 DEF a
      <4>4. Len(b) <= i + 1 /\ ((\E h \in 1..(i + 1) : s[h] \in X) => Len(b) < i + 1)
        BY <3>1, <3>4, <4>1, <4>3
      <4>5. ASSUME NEW j \in 1..Len(b)
            PROVE  b[j] \notin X /\ \E h \in 1..(i + 1) : b[j] = s[h]
        <5>1. CASE j \in 1..Len(a)
          <6>1. b[j] = a[j]
            BY <4>1, <5>1
          <6>2. PICK h \in 1..i : a[j] = s[h]
            BY <4>3, <5>1
          <6>3. h \in 1..(i + 1)
            BY <3>1
          <6> QED
            BY <4>3, <5>1, <6>1, <6>2, <6>3
        <5>2. CASE j = Len(a) + 1
          <6>1. b[j] = s[i + 1] /\ i + 1 \in 1..(i + 1)
            BY <3>1, <4>1, <5>2
          <6> QED
            BY <3>4, <6>1
        <5> QED
          BY <4>2, <5>1, <5>2
      <4>6. ASSUME \A h, j \in 1..n : s[h] = s[j] => h = j,
                   NEW u \in 1..Len(b), NEW v \in 1..Len(b), b[u] = b[v]
            PROVE  u = v
        <5>1. \A x, y \in 1..Len(a) : a[x] = a[y] => x = y
          BY <3>1, <4>6 DEF a
        <5>2. \A x \in 1..Len(a) : a[x] # s[i + 1]
          BY <1>1, <3>1, <4>3, <4>6
        <5>3. ASSUME NEW x \in 1..Len(b), NEW y \in 1..Len(b), b[x] = b[y], x # y
              PROVE  x \in 1..Len(a) /\ y \in 1..Len(a)
          <6>1. CASE x = Len(a) + 1 /\ y \in 1..Len(a)
            BY <4>1, <5>2, <5>3, <6>1
          <6>2. CASE y = Len(a) + 1 /\ x \in 1..Len(a)
            BY <4>1, <5>2, <5>3, <6>2
          <6> QED
            BY <4>2, <5>3, <6>1, <6>2
        <5>4. CASE u \in 1..Len(a) /\ v \in 1..Len(a)
          <6>1. b[u] = a[u] /\ b[v] = a[v]
            BY <4>1, <5>4
          <6> QED
            BY <4>6, <5>1, <5>4, <6>1
        <5> QED
          BY <4>6, <5>3, <5>4
      <4> QED
        BY <4>1, <4>4, <4>5, <4>6 DEF b
    <3> QED
      BY <3>3, <3>4
  <2>3. ASSUME NEW i \in S PROVE i + 1 \in S
    <3>1. i \in Nat
      OBVIOUS
    <3> HIDE DEF Hecho
    <3> QED
      BY <1>1, <2>2, <3>1
  <2> HIDE DEF S
  <2>4. S \in SUBSET Nat
    BY DEF S
  <2>5. n \in S
    BY <1>1, <2>1, <2>3, <2>4, Induccion
  <2> QED
    BY <2>5 DEF S
<1>7. Hecho(n)
  <2> HIDE DEF Hecho
  <2> QED
    BY <1>1, <1>6
<1> QED
  BY <1>2, <1>7

(* What the TLB refers to is in the table and will be until its references    *)
(* leave; a thread that missed a page adds it, and nobody else may.          *)
TLBBien ==
  /\ tlb \in Seq(Pids \X Paginas)
  /\ Len(tlb) <= entradas_TLB
  /\ \A i, j \in 1..Len(tlb) : tlb[i] = tlb[j] => i = j
  /\ \A i \in 1..Len(tlb) : proceso[tlb[i][1]] \in {"vivo", "sinSwap"}

FalloBien(k) ==
  /\ hilo[k].pc \in {"acierto", "fallo"} => entradas_TLB # 0
  /\ hilo[k].pc = "fallo" => \A i \in 1..Len(tlb) : tlb[i] # Refe(k)

ITLB == TLBBien /\ \A k \in CPUs : FalloBien(k)

LEMMA SinDelTLB ==
  ASSUME TLBBien, NEW X, NEW t, t = Sin(X, tlb)
  PROVE  /\ t \in Seq(Pids \X Paginas) /\ Len(t) <= Len(tlb)
         /\ \A j \in 1..Len(t) : t[j] \notin X /\ \E h \in 1..Len(tlb) : t[j] = tlb[h]
         /\ (\E h \in 1..Len(tlb) : tlb[h] \in X) => Len(t) < Len(tlb)
         /\ \A i, j \in 1..Len(t) : t[i] = t[j] => i = j
<1> DEFINE T == Pids \X Paginas
           s == tlb
<1>1. s \in Seq(T)
  BY DEF TLBBien
<1>2. t = Sin(X, s)
  OBVIOUS
<1>3. \A i, j \in 1..Len(s) : s[i] = s[j] => i = j
  BY DEF TLBBien
<1> HIDE DEF T, s
<1>4. /\ t \in Seq(T) /\ Len(t) <= Len(s)
      /\ \A j \in 1..Len(t) : t[j] \notin X /\ \E h \in 1..Len(s) : t[j] = s[h]
      /\ (\E h \in 1..Len(s) : s[h] \in X) => Len(t) < Len(s)
      /\ (\A i, j \in 1..Len(s) : s[i] = s[j] => i = j)
           => \A i, j \in 1..Len(t) : t[i] = t[j] => i = j
  BY ONLY <1>1, <1>2, SinHace
<1> QED
  BY <1>3, <1>4 DEF T, s

(* The TLB loses some of its references, or none, and no process that has     *)
(* any left leaves the table.                                                *)
LEMMA QuedanMenos ==
  ASSUME ITLB, tlb' \in Seq(Pids \X Paginas), Len(tlb') <= Len(tlb),
         \A i, j \in 1..Len(tlb') : tlb'[i] = tlb'[j] => i = j,
         \A i \in 1..Len(tlb') : \E j \in 1..Len(tlb) : tlb'[i] = tlb[j],
         \A i \in 1..Len(tlb') : proceso'[tlb'[i][1]] \in {"vivo", "sinSwap"},
         \A k \in CPUs : hilo'[k].pc \in {"acierto", "fallo"} =>
           hilo'[k].pc = hilo[k].pc /\ Refe(k)' = Refe(k)
  PROVE  ITLB'
<1>1. Len(tlb) \in Nat /\ Len(tlb') \in Nat /\ entradas_TLB \in Nat
  BY MarcosAssumption DEF ITLB, TLBBien
<1>2. TLBBien'
  BY <1>1 DEF ITLB, TLBBien
<1>3. \A k \in CPUs : FalloBien(k)'
  BY DEF ITLB, FalloBien
<1> QED
  BY <1>2, <1>3 DEF ITLB

(* A thread adds the page it was asked for, which was not there.             *)
LEMMA Agrega ==
  ASSUME IReloj, ITLB, NEW k \in CPUs, hilo[k].pc \in {"acierto", "fallo"},
         \A j \in CPUs \ {k} : hilo'[j] = hilo[j],
         hilo'[k].pc \notin {"acierto", "fallo"}, proceso' = proceso,
         NEW t \in Seq(Pids \X Paginas), Len(t) < entradas_TLB,
         \A i, j \in 1..Len(t) : t[i] = t[j] => i = j,
         \A i \in 1..Len(t) : t[i] # Refe(k) /\ \E j \in 1..Len(tlb) : t[i] = tlb[j],
         tlb' = Append(t, Refe(k))
  PROVE  ITLB'
<1>1. hilo[k].pid \in Pids /\ hilo[k].pagina \in Paginas /\ proceso[hilo[k].pid] = "vivo"
  BY DEF IReloj, IInv, HilosOK, Registros, HiloBien
<1>2. Refe(k) \in Pids \X Paginas /\ Refe(k)[1] = hilo[k].pid
  BY <1>1 DEF Refe
<1> DEFINE x == Refe(k)
<1> HIDE DEF x
<1>3. /\ x \in Pids \X Paginas /\ x[1] = hilo[k].pid /\ tlb' = Append(t, x)
      /\ \A i \in 1..Len(t) : t[i] # x
  BY <1>2 DEF x
<1>4. /\ tlb' \in Seq(Pids \X Paginas) /\ Len(tlb') = Len(t) + 1 /\ tlb'[Len(t) + 1] = x
      /\ \A i \in 1..Len(t) : tlb'[i] = t[i]
  BY <1>3
<1>5. /\ Len(t) \in Nat /\ entradas_TLB \in Nat
      /\ \A i \in 1..Len(tlb') : i \in 1..Len(t) \/ i = Len(t) + 1
  BY <1>4, MarcosAssumption
<1>6. \A i, j \in 1..Len(tlb') : tlb'[i] = tlb'[j] => i = j
  BY <1>3, <1>4, <1>5
<1>7. \A i \in 1..Len(tlb') : proceso'[tlb'[i][1]] \in {"vivo", "sinSwap"}
  BY <1>1, <1>3, <1>4, <1>5 DEF ITLB, TLBBien
<1>8. TLBBien'
  BY <1>4, <1>5, <1>6, <1>7 DEF TLBBien
<1>9. ASSUME NEW j \in CPUs PROVE FalloBien(j)'
  <2>1. CASE j = k
    BY <2>1 DEF FalloBien
  <2>2. CASE j # k
    <3>1. hilo'[j] = hilo[j] /\ Refe(j)' = Refe(j) /\ FalloBien(j)
      BY <2>2 DEF ITLB, Refe
    <3>2. hilo[j].pc = "fallo" => hilo[j].pid # hilo[k].pid
      BY <1>1, <2>2 DEF IReloj, Distintos
    <3>3. Refe(j)[1] = hilo[j].pid
      BY DEF Refe
    <3>4. ASSUME hilo[j].pc = "fallo", NEW i \in 1..Len(tlb')
          PROVE  tlb'[i] # Refe(j)
      <4>1. CASE i \in 1..Len(t)
        BY <1>4, <3>1, <3>4, <4>1 DEF FalloBien
      <4>2. CASE i = Len(t) + 1
        BY <1>3, <1>4, <3>2, <3>3, <3>4, <4>2
      <4> QED
        BY <1>5, <4>1, <4>2
    <3> QED
      BY <3>1, <3>4 DEF FalloBien
  <2> QED
    BY <2>1, <2>2
<1> QED
  BY <1>8, <1>9 DEF ITLB

LEMMA ITLBPaso == IReloj /\ ITLB /\ [Next]_vars => ITLB'
<1> SUFFICES ASSUME IReloj, ITLB, [Next]_vars PROVE ITLB'
  OBVIOUS
<1>0. HilosOK /\ TLBBien /\ Len(tlb) \in Nat /\ entradas_TLB \in Nat
      /\ proceso \in [Pids -> Etapas]
  BY MarcosAssumption DEF IReloj, IInv, ITLB, TLBBien, TablaOK
<1>1. ASSUME NEW k \in CPUs, NEW pc \in PCs \ {"acierto", "fallo"}, hilo'[k].pc = pc,
             \A j \in CPUs \ {k} : hilo'[j] = hilo[j], UNCHANGED <<tlb, proceso>>
      PROVE  ITLB'
  BY <1>0, <1>1, QuedanMenos DEF TLBBien, Refe
<1>2. ASSUME NEW k \in CPUs, NEW p \in Pids, CambiarProceso(k, p)
      PROVE  ITLB'
  BY <1>0, <1>1, <1>2 DEF CambiarProceso, EsDe, HilosOK, Registros, PCs
<1>3. ASSUME NEW k \in CPUs, Deja(k) \/ Accede(k)
      PROVE  ITLB'
  <2>1. PICK pid : hilo' = [hilo EXCEPT ![k] = [Ocioso EXCEPT !.pid = pid]]
    <3>1. CASE Deja(k)
      <4>1. [Ocioso EXCEPT !.pid = NADIE] = Ocioso
        BY DEF Ocioso
      <4> QED
        BY <3>1, <4>1 DEF Deja
    <3>2. CASE Accede(k)
      BY <3>2 DEF Accede
    <3> QED
      BY <1>3, <3>1, <3>2
  <2>2. hilo'[k].pc = "espera" /\ \A j \in CPUs \ {k} : hilo'[j] = hilo[j]
    BY <1>0, <2>1 DEF HilosOK, Ocioso
  <2> QED
    BY <1>1, <1>3, <2>2 DEF Deja, Accede, PCs
<1>4. ASSUME NEW k \in CPUs, NEW op \in {"leer", "escribir"}, NEW g \in Paginas, Pide(k, op, g)
      PROVE  ITLB'
  <2>1. /\ hilo' = [hilo EXCEPT ![k].pc = "busca", ![k].op = op, ![k].pagina = g]
        /\ UNCHANGED <<tlb, proceso>>
    BY <1>4 DEF Pide
  <2>2. hilo'[k].pc = "busca" /\ \A j \in CPUs \ {k} : hilo'[j] = hilo[j]
    BY <1>0, <2>1 DEF HilosOK, Registros
  <2> QED
    BY <1>1, <2>1, <2>2 DEF PCs
<1>5. ASSUME NEW k \in CPUs, Busca(k)
      PROVE  ITLB'
  <2>1. PICK pc \in PCs : /\ Pasa(k, pc) /\ UNCHANGED <<tlb, proceso>>
                          /\ pc \in {"acierto", "fallo"} => entradas_TLB # 0
                          /\ pc = "fallo" => ~EnTLB(Refe(k))
    BY <1>5 DEF Busca, Encontrada, PCs
  <2>2. /\ hilo'[k].pc = pc /\ Refe(k)' = Refe(k)
        /\ \A j \in CPUs \ {k} : hilo'[j] = hilo[j]
    BY <1>0, <2>1 DEF Pasa, Refe, HilosOK, Registros
  <2>3. FalloBien(k)'
    BY <1>0, <2>1, <2>2 DEF FalloBien, EnTLB, TLBBien
  <2>4. \A j \in CPUs \ {k} : FalloBien(j)'
    BY <2>1, <2>2 DEF ITLB, FalloBien, Refe
  <2> QED
    BY <1>0, <2>1, <2>3, <2>4 DEF ITLB, TLBBien
<1>6. ASSUME NEW k \in CPUs, Acierto(k)
      PROVE  ITLB'
  <2>1. PICK pc \in PCs \ {"acierto", "fallo"} : Pasa(k, pc)
    BY <1>6 DEF Acierto, Encontrada, PCs
  <2>2. hilo'[k].pc = pc /\ \A j \in CPUs \ {k} : hilo'[j] = hilo[j]
    BY <1>0, <2>1 DEF Pasa, HilosOK, Registros
  <2>3. /\ hilo[k].pc = "acierto" /\ proceso' = proceso
        /\ tlb' = IF EnTLB(Refe(k)) THEN Append(Sin({Refe(k)}, tlb), Refe(k)) ELSE tlb
    BY <1>6 DEF Acierto, EsDe
  <2>4. CASE ~EnTLB(Refe(k))
    BY <1>1, <2>2, <2>3, <2>4
  <2>5. CASE EnTLB(Refe(k))
    <3> DEFINE t == Sin({Refe(k)}, tlb)
    <3>1. /\ t \in Seq(Pids \X Paginas) /\ Len(t) <= Len(tlb)
          /\ \A j \in 1..Len(t) : t[j] \notin {Refe(k)} /\ \E h \in 1..Len(tlb) : t[j] = tlb[h]
          /\ (\E h \in 1..Len(tlb) : tlb[h] \in {Refe(k)}) => Len(t) < Len(tlb)
          /\ \A i, j \in 1..Len(t) : t[i] = t[j] => i = j
      <4> DEFINE X == {Refe(k)}
      <4>2. t = Sin(X, tlb)
        OBVIOUS
      <4> HIDE DEF t, X
      <4>3. /\ t \in Seq(Pids \X Paginas) /\ Len(t) <= Len(tlb)
            /\ \A j \in 1..Len(t) : t[j] \notin X /\ \E h \in 1..Len(tlb) : t[j] = tlb[h]
            /\ (\E h \in 1..Len(tlb) : tlb[h] \in X) => Len(t) < Len(tlb)
            /\ \A i, j \in 1..Len(t) : t[i] = t[j] => i = j
        <5>1. TLBBien
          BY <1>0
        <5> QED
          BY <4>2, <5>1, SinDelTLB
      <4> QED
        BY <4>3 DEF X
    <3>2. \E h \in 1..Len(tlb) : tlb[h] \in {Refe(k)}
      BY <1>0, <2>5 DEF EnTLB, TLBBien
    <3> HIDE DEF t
    <3>3. Len(t) \in Nat /\ Len(t) < entradas_TLB
      <4>1. Len(t) < Len(tlb)
        BY <3>1, <3>2
      <4>2. Len(t) \in Nat
        BY <3>1
      <4>3. Len(tlb) <= entradas_TLB
        BY <1>0 DEF TLBBien
      <4> QED
        BY <1>0, <4>1, <4>2, <4>3
    <3>4. tlb' = Append(t, Refe(k))
      BY <2>3, <2>5 DEF t
    <3> QED
      BY <2>2, <2>3, <3>1, <3>3, <3>4, Agrega
  <2> QED
    BY <2>4, <2>5
<1>7. ASSUME NEW k \in CPUs, Fallo(k)
      PROVE  ITLB'
  <2>1. PICK pc \in PCs \ {"acierto", "fallo"} : Pasa(k, pc)
    BY <1>7 DEF Fallo, Encontrada, PCs
  <2>2. hilo'[k].pc = pc /\ \A j \in CPUs \ {k} : hilo'[j] = hilo[j]
    BY <1>0, <2>1 DEF Pasa, HilosOK, Registros
  <2> DEFINE t == IF Len(tlb) < entradas_TLB THEN tlb ELSE Tail(tlb)
  <2>3. hilo[k].pc = "fallo" /\ proceso' = proceso /\ tlb' = Append(t, Refe(k))
    BY <1>7 DEF Fallo, EsDe
  <2>4. entradas_TLB # 0 /\ \A i \in 1..Len(tlb) : tlb[i] # Refe(k)
    BY <2>3 DEF ITLB, FalloBien
  <2>5. /\ t \in Seq(Pids \X Paginas) /\ Len(t) < entradas_TLB
        /\ \A i, j \in 1..Len(t) : t[i] = t[j] => i = j
        /\ \A i \in 1..Len(t) : \E j \in 1..Len(tlb) : t[i] = tlb[j]
    <3>1. CASE Len(tlb) < entradas_TLB
      BY <1>0, <3>1 DEF TLBBien
    <3>2. CASE ~(Len(tlb) < entradas_TLB)
      <4>1. tlb # <<>> /\ tlb \in Seq(Pids \X Paginas) /\ Len(tlb) = entradas_TLB
        BY <1>0, <2>4, <3>2 DEF TLBBien
      <4>2. /\ t \in Seq(Pids \X Paginas) /\ Len(t) = Len(tlb) - 1
            /\ \A i \in 1..Len(t) : t[i] = tlb[i + 1]
        BY <3>2, <4>1
      <4>3. \A i \in 1..Len(t) : i + 1 \in 1..Len(tlb)
        BY <1>0, <4>2
      <4> QED
        BY <1>0, <4>1, <4>2, <4>3 DEF TLBBien
    <3> QED
      BY <3>1, <3>2
  <2> HIDE DEF t
  <2>6. \A i \in 1..Len(t) : t[i] # Refe(k)
    BY <2>4, <2>5
  <2> QED
    BY <2>2, <2>3, <2>5, <2>6, Agrega
<1>8. ASSUME NEW k \in CPUs,
             TomaMarcos(k) \/ HayMarcos(k) \/ Revisa(k) \/ Reemplaza(k) \/ Asigna(k)
      PROVE  ITLB'
  <2>1. PICK pc \in PCs \ {"acierto", "fallo"} : Pasa(k, pc) /\ UNCHANGED <<tlb, proceso>>
    BY <1>8 DEF TomaMarcos, HayMarcos, Revisa, Reemplaza, Asigna, PCs
  <2>2. hilo'[k].pc = pc /\ \A j \in CPUs \ {k} : hilo'[j] = hilo[j]
    BY <1>0, <2>1 DEF Pasa, HilosOK, Registros
  <2> QED
    BY <1>1, <2>1, <2>2
<1>9. ASSUME NEW k \in CPUs, Elige(k) \/ Llena(k)
      PROVE  ITLB'
  <2>1. /\ \E m : \E pc \in {"asigna", "accede"} :
             hilo' = [hilo EXCEPT ![k].pc = pc, ![k].marco = m]
        /\ UNCHANGED <<tlb, proceso>>
    BY <1>9 DEF Elige, Llena
  <2>2. hilo'[k].pc \in {"asigna", "accede"} /\ \A j \in CPUs \ {k} : hilo'[j] = hilo[j]
    BY <1>0, <2>1 DEF HilosOK, Registros
  <2> QED
    BY <1>1, <2>1, <2>2 DEF PCs
<1>10. ASSUME UNCHANGED <<tlb, hilo>>, \A p \in Pids : proceso[p] \in {"vivo", "sinSwap"} =>
                                                          proceso'[p] \in {"vivo", "sinSwap"}
       PROVE  ITLB'
  <2>1. \A i \in 1..Len(tlb) : tlb[i][1] \in Pids
    BY <1>0 DEF TLBBien
  <2> QED
    BY <1>0, <1>10, <2>1, QuedanMenos DEF TLBBien, Refe
<1>11. ASSUME NEW p \in Pids,
              \/ Inicializa(p) \/ FinalizaSwap(p) \/ TomaTabla(p) \/ EmpiezaAQuitar(p)
              \/ FinalizaTabla(p)
       PROVE  ITLB'
  BY <1>0, <1>10, <1>11 DEF Inicializa, FinalizaSwap, TomaTabla, EmpiezaAQuitar, FinalizaTabla
<1>12. ASSUME NEW p \in Pids, FinalizaTLB(p)
       PROVE  ITLB'
  <2>1. /\ hilo' = hilo /\ tlb' = Sin({p} \X Paginas, tlb)
        /\ proceso' = [proceso EXCEPT ![p] = "sinTLB"]
    BY <1>12 DEF FinalizaTLB
  <2>2. tlb \in Seq(Pids \X Paginas) /\ \A i, j \in 1..Len(tlb) : tlb[i] = tlb[j] => i = j
    BY <1>0 DEF TLBBien
  <2>3. /\ tlb' \in Seq(Pids \X Paginas) /\ Len(tlb') <= Len(tlb)
        /\ \A j \in 1..Len(tlb') : tlb'[j] \notin {p} \X Paginas
                                   /\ \E h \in 1..Len(tlb) : tlb'[j] = tlb[h]
        /\ \A i, j \in 1..Len(tlb') : tlb'[i] = tlb'[j] => i = j
    <3> DEFINE X == {p} \X Paginas
               t == tlb'
    <3>1. t = Sin(X, tlb)
      BY <2>1
    <3> HIDE DEF t, X
    <3>2. /\ t \in Seq(Pids \X Paginas) /\ Len(t) <= Len(tlb)
          /\ \A j \in 1..Len(t) : t[j] \notin X /\ \E h \in 1..Len(tlb) : t[j] = tlb[h]
          /\ \A i, j \in 1..Len(t) : t[i] = t[j] => i = j
      BY <1>0, <3>1, SinDelTLB
    <3> QED
      BY <3>2 DEF t, X
  <2>4. ASSUME NEW i \in 1..Len(tlb') PROVE proceso'[tlb'[i][1]] \in {"vivo", "sinSwap"}
    <3>1. PICK h \in 1..Len(tlb) : tlb'[i] = tlb[h]
      BY <2>3
    <3>2. tlb[h] \in Pids \X Paginas /\ tlb[h] \notin {p} \X Paginas
      BY <2>2, <2>3, <3>1
    <3>3. tlb[h][1] \in Pids /\ tlb[h][1] # p
      BY <3>2
    <3> QED
      BY <1>0, <2>1, <3>1, <3>3 DEF TLBBien
  <2> QED
    BY <2>1, <2>3, <2>4, QuedanMenos DEF Refe
<1>13. ASSUME FlushTLB
       PROVE  ITLB'
  <2>1. UNCHANGED <<hilo, proceso>> /\ tlb' = <<>>
    BY <1>13 DEF FlushTLB
  <2>2. tlb' \in Seq(Pids \X Paginas) /\ Len(tlb') = 0 /\ 1..Len(tlb') = {}
    BY <2>1
  <2> QED
    BY <1>0, <2>1, <2>2, QuedanMenos DEF Refe
<1>14. ASSUME UNCHANGED <<tlb, hilo, proceso>>
       PROVE  ITLB'
  BY <1>10, <1>14
<1>15. ASSUME NEW k \in CPUs, HiloCPU(k)
       PROVE  ITLB'
  <2>1. ASSUME ReemplazaNulo(k) PROVE ITLB'
    BY <1>14, <2>1 DEF ReemplazaNulo
  <2>2. ASSUME NEW g \in Paginas, Pide(k, "leer", g) \/ Pide(k, "escribir", g)
        PROVE  ITLB'
    BY <1>4, <2>2
  <2> QED
    BY <1>2, <1>3, <1>5, <1>6, <1>7, <1>8, <1>9, <1>15, <2>1, <2>2 DEF HiloCPU, PasoDeCPU
<1>16. ASSUME NEW p \in Pids, HiloNucleo(p) \/ FlushMemory(p)
       PROVE  ITLB'
  <2>1. ASSUME FlushMemory(p) PROVE ITLB'
    BY <1>14, <2>1 DEF FlushMemory
  <2>2. ASSUME NEW g \in Paginas, CuentaEntrada(p, g) \/ QuitaEntrada(p, g) PROVE ITLB'
    BY <1>14, <2>2 DEF CuentaEntrada, QuitaEntrada
  <2> QED
    BY <1>11, <1>12, <1>16, <2>1, <2>2 DEF HiloNucleo
<1> QED
  BY <1>13, <1>14, <1>15, <1>16 DEF Next, Hilos, vars

LEMMA ITLBInicial == Init => ITLB
<1> SUFFICES ASSUME Init PROVE ITLB
  OBVIOUS
<1>1. tlb = <<>> /\ \A k \in CPUs : hilo[k].pc = "espera"
  BY DEF Init, Ocioso
<1>2. tlb \in Seq(Pids \X Paginas) /\ Len(tlb) = 0 /\ 1..Len(tlb) = {} /\ entradas_TLB \in Nat
  BY <1>1, MarcosAssumption
<1> QED
  BY <1>1, <1>2 DEF ITLB, TLBBien, FalloBien

(* The TLB has its size at most, refers once to a page, and never to an entry *)
(* that eliminar_proceso_tabla_de_paginas freed, for a TLB of any size and    *)
(* whatever misses, replacements, ends and flushes meet.                     *)
THEOREM TLBSinColgadosSiempre == Spec => []TLBSinColgados
<1>1. ITLB => TLBSinColgados
  BY DEF ITLB, TLBBien, TLBSinColgados, EnTabla
<1> QED
  BY <1>1, IRelojInicial, IRelojPaso, ITLBInicial, ITLBPaso, PTL DEF Spec

-----------------------------------------------------------------------------
(* The types.                                                               *)

(* A page that is absent is as crear_nueva_entrada left it.                  *)
SinMarco == Nueva.marco
Ausentes == \A p \in Pids, g \in Paginas : ~tabla[p][g].presencia => tabla[p][g].marco = SinMarco

DatosOK == /\ memoria \in [Marcos -> Contenidos]
           /\ swap \in [Pids -> [Paginas -> Contenidos]]
           /\ version \in [Pids -> [Paginas -> {0, 1}]]
           /\ algoritmo \in Algoritmos
           /\ caida \in BOOLEAN /\ remarcado \in BOOLEAN
           /\ faltan \subseteq Paginas
           /\ \A k \in CPUs : hilo[k].marco \in Marcos \cup {SinMarco}

ITipos == Ausentes /\ DatosOK

LEMMA Vacias == Nueva \in Registro /\ ~Nueva.presencia /\ Ocioso.marco = SinMarco /\ SinMarco \in Int
<1> DEFINE m == -1
<1>1. /\ Nueva = [marco |-> m, presencia |-> FALSE, modificado |-> FALSE, puntero |-> FALSE,
                  uso |-> TRUE]
      /\ Ocioso = [pc |-> "espera", pid |-> NADIE, op |-> "leer", pagina |-> 0, marco |-> m]
      /\ m \in Int
  BY DEF Nueva, Ocioso
<1> HIDE DEF m
<1> QED
  BY <1>1 DEF Registro, SinMarco

(* The entries of one process change, and those that are absent lose it.      *)
LEMMA AusentesQuedan ==
  ASSUME IReloj, Ausentes, NEW p \in Pids, NEW e, tabla' = [tabla EXCEPT ![p] = e],
         \A g \in Paginas : ~e[g].presencia => e[g].marco = SinMarco
  PROVE  Ausentes'
<1>1. \A q \in Pids : tabla'[q] = IF q = p THEN e ELSE tabla[q]
  BY DEF IReloj, TablaOK
<1> QED
  BY <1>1 DEF Ausentes, SinMarco, Nueva

(* A step of a thread that keeps its frame and the contents.                 *)
LEMMA DatosQuedan ==
  ASSUME DatosOK, UNCHANGED <<memoria, swap, version, algoritmo>>, caida' \in BOOLEAN,
         faltan' \subseteq Paginas, remarcado' \in BOOLEAN,
         \A k \in CPUs : hilo'[k].marco \in {hilo[k].marco, SinMarco}
  PROVE  DatosOK'
  BY DEF DatosOK, SinMarco, Nueva

LEMMA DatosDelPaso == IReloj /\ ITipos /\ [Next]_vars => DatosOK'
<1> SUFFICES ASSUME IReloj, ITipos, [Next]_vars PROVE DatosOK'
  OBVIOUS
<1>0. HilosOK /\ DatosOK /\ algoritmo' = algoritmo
  BY DEF IReloj, IInv, ITipos, Next, vars
<1>1. ASSUME NEW k \in CPUs, NEW pc, Pasa(k, pc)
      PROVE  \A j \in CPUs : hilo'[j].marco = hilo[j].marco
  BY <1>0, <1>1 DEF Pasa, HilosOK, Registros
<1>2. ASSUME NEW k \in CPUs, NEW p \in Pids, CambiarProceso(k, p),
             UNCHANGED <<faltan, remarcado>>
      PROVE  DatosOK'
  <2>1. \A j \in CPUs : hilo'[j].marco = hilo[j].marco
    BY <1>0, <1>2 DEF CambiarProceso, HilosOK, Registros
  <2> QED
    BY <1>0, <1>2, <2>1, DatosQuedan DEF CambiarProceso, DatosOK
<1>3. ASSUME NEW k \in CPUs, Deja(k),
             UNCHANGED <<faltan, remarcado>>
      PROVE  DatosOK'
  <2>1. \A j \in CPUs : hilo'[j].marco \in {hilo[j].marco, SinMarco}
    BY <1>0, <1>3, Vacias DEF Deja, HilosOK
  <2> QED
    BY <1>0, <1>3, <2>1, DatosQuedan DEF Deja, DatosOK
<1>4. ASSUME NEW k \in CPUs, NEW op \in {"leer", "escribir"}, NEW g \in Paginas, Pide(k, op, g),
             UNCHANGED <<faltan, remarcado>>
      PROVE  DatosOK'
  <2>1. hilo' = [hilo EXCEPT ![k].pc = "busca", ![k].op = op, ![k].pagina = g]
        /\ UNCHANGED <<memoria, swap, version, caida>>
    BY <1>4 DEF Pide
  <2>2. \A j \in CPUs : hilo'[j].marco = hilo[j].marco
    BY <1>0, <2>1 DEF HilosOK, Registros
  <2> QED
    BY <1>0, <1>4, <2>1, <2>2, DatosQuedan DEF DatosOK
<1>5. ASSUME NEW k \in CPUs, UNCHANGED <<faltan, remarcado>>,
             \/ Busca(k) \/ Acierto(k) \/ Fallo(k) \/ TomaMarcos(k) \/ HayMarcos(k)
             \/ Revisa(k) \/ Asigna(k)
      PROVE  DatosOK'
  <2>1. PICK pc : Pasa(k, pc)
    BY <1>5 DEF Busca, Acierto, Fallo, TomaMarcos, HayMarcos, Revisa, Asigna
  <2>2. UNCHANGED <<memoria, swap, version, caida>>
    BY <1>5 DEF Busca, Acierto, Fallo, TomaMarcos, HayMarcos, Revisa, Asigna
  <2> QED
    BY <1>0, <1>1, <1>5, <2>1, <2>2, DatosQuedan DEF DatosOK
<1>6. ASSUME NEW k \in CPUs, Reemplaza(k),
             UNCHANGED <<faltan, remarcado>>
      PROVE  DatosOK'
  <2> DEFINE p == hilo[k].pid
             e == tabla[p]
             v == Victima(e).pagina
             x == Guardado(v, memoria[e[v].marco])
  <2>1. /\ hilo[k].pc = "reemplaza" /\ Presentes(e) # {}
        /\ swap' = IF e[v].modificado THEN [swap EXCEPT ![p][v] = x] ELSE swap
        /\ memoria' = [memoria EXCEPT ![e[v].marco] = swap[p][hilo[k].pagina]]
        /\ Pasa(k, "accede") /\ UNCHANGED <<version, caida>>
    BY <1>6 DEF Reemplaza, EsDe
  <2>2. p \in Pids /\ hilo[k].pagina \in Paginas
    BY <1>0, <2>1 DEF IReloj, HiloBien, HilosOK, Registros
  <2>3. EntradasOK(e) /\ Reloj(e)
    BY <2>2 DEF IReloj, RelojBien, TablaOK
  <2>4. v \in Presentes(e)
    <3> HIDE DEF e
    <3> QED
      BY <2>1, <2>3, VictimaPresente
  <2>5. v \in Paginas /\ e[v].marco \in Marcos
    BY <2>3, <2>4 DEF Presentes, EntradasOK
  <2>6. x \in Contenidos
    BY <1>0, <2>5 DEF DatosOK, Guardado, Contenidos
  <2> HIDE DEF x, v
  <2>7. memoria' \in [Marcos -> Contenidos]
    BY <1>0, <2>1, <2>2, <2>5 DEF DatosOK
  <2>8. swap' \in [Pids -> [Paginas -> Contenidos]]
    BY <1>0, <2>1, <2>2, <2>5, <2>6 DEF DatosOK
  <2>9. \A j \in CPUs : hilo'[j].marco = hilo[j].marco
    BY <1>1, <2>1
  <2> QED
    BY <1>0, <1>6, <2>1, <2>7, <2>8, <2>9 DEF DatosOK, SinMarco, Nueva
<1>7. ASSUME NEW k \in CPUs, Elige(k),
             UNCHANGED <<faltan, remarcado>>
      PROVE  DatosOK'
  <2> DEFINE m == IF Libres = {} THEN -1
                  ELSE CHOOSE x \in Libres : \A n \in Libres : x <= n
  <2>1. /\ caida' = (Libres = {})
        /\ hilo' = [hilo EXCEPT ![k].pc = "asigna", ![k].marco = m]
        /\ UNCHANGED <<memoria, swap, version>>
    BY <1>7 DEF Elige
  <2>2. m \in Marcos \cup {SinMarco}
    <3>1. Libres # {} => m \in Libres
      BY MarcoElegido
    <3>2. SinMarco = -1
      BY DEF SinMarco, Nueva
    <3> QED
      BY <3>1, <3>2 DEF Libres
  <2> HIDE DEF m
  <2>3. \A j \in CPUs : hilo'[j].marco = IF j = k THEN m ELSE hilo[j].marco
    BY <1>0, <2>1 DEF HilosOK, Registros
  <2>4. caida' \in BOOLEAN
    BY <2>1
  <2> QED
    BY <1>0, <1>7, <2>1, <2>2, <2>3, <2>4 DEF DatosOK, SinMarco, Nueva
<1>8. ASSUME NEW k \in CPUs, Llena(k), UNCHANGED <<faltan, remarcado>>
      PROVE  DatosOK'
  <2> DEFINE m == hilo[k].marco
             n == -1
  <2>1. /\ ~caida /\ hilo[k].pc = "llena"
        /\ memoria' = [memoria EXCEPT ![m] = swap[hilo[k].pid][hilo[k].pagina]]
        /\ hilo' = [hilo EXCEPT ![k].pc = "accede", ![k].marco = n]
        /\ UNCHANGED <<swap, version, caida>>
    BY <1>8 DEF Llena, EsDe
  <2>2. hilo[k].pid \in Pids /\ hilo[k].pagina \in Paginas /\ m \in Marcos
    BY <1>0, <2>1 DEF IReloj, HiloBien, HilosOK, Registros
  <2>3. memoria' \in [Marcos -> Contenidos]
    BY <1>0, <2>1, <2>2 DEF DatosOK
  <2>4. n = SinMarco
    BY DEF SinMarco, Nueva
  <2> HIDE DEF n
  <2>5. \A j \in CPUs : hilo'[j].marco \in {hilo[j].marco, SinMarco}
    BY <1>0, <2>1, <2>4 DEF HilosOK, Registros
  <2> QED
    BY <1>0, <1>8, <2>1, <2>3, <2>5 DEF DatosOK, SinMarco, Nueva
<1>9. ASSUME NEW k \in CPUs, Accede(k),
             UNCHANGED <<faltan, remarcado>>
      PROVE  DatosOK'
  <2> DEFINE p == hilo[k].pid
             g == hilo[k].pagina
             nueva == 1 - version[p][g]
             x == <<p, g, nueva>>
  <2>1. /\ hilo[k].pc = "accede"
        /\ hilo' = [hilo EXCEPT ![k] = [Ocioso EXCEPT !.pid = p]]
        /\ UNCHANGED <<swap, caida>>
        /\ \/ UNCHANGED <<memoria, version>>
           \/ /\ memoria' = [memoria EXCEPT ![Entrada(k).marco] = x]
              /\ version' = [version EXCEPT ![p][g] = nueva]
    BY <1>9 DEF Accede, EsDe
  <2>2. p \in Pids /\ g \in Paginas
    BY <1>0, <2>1 DEF IReloj, HiloBien, HilosOK, Registros
  <2>3. nueva \in {0, 1}
    BY <1>0, <2>2 DEF DatosOK
  <2> HIDE DEF nueva
  <2>4. x \in Contenidos
    BY <2>2, <2>3 DEF Contenidos
  <2> HIDE DEF x
  <2>5. memoria' \in [Marcos -> Contenidos]
    BY <1>0, <2>1, <2>4 DEF DatosOK
  <2>6. version' \in [Pids -> [Paginas -> {0, 1}]]
    <3>1. version \in [Pids -> [Paginas -> {0, 1}]]
      BY <1>0 DEF DatosOK
    <3> HIDE DEF p, g
    <3>2. [version EXCEPT ![p][g] = nueva] \in [Pids -> [Paginas -> {0, 1}]]
      BY <2>2, <2>3, <3>1
    <3> QED
      BY <2>1, <3>1, <3>2
  <2>7. [Ocioso EXCEPT !.pid = p].marco = SinMarco
    BY Vacias DEF Ocioso
  <2>8. \A j \in CPUs : hilo'[j].marco \in {hilo[j].marco, SinMarco}
    BY <1>0, <2>1, <2>7 DEF HilosOK
  <2> QED
    BY <1>0, <1>9, <2>1, <2>5, <2>6, <2>8 DEF DatosOK, SinMarco, Nueva
<1>10. ASSUME UNCHANGED <<memoria, swap, version, hilo>>, caida' \in BOOLEAN,
              faltan' \subseteq Paginas, remarcado' \in BOOLEAN
       PROVE  DatosOK'
  BY <1>0, <1>10, DatosQuedan
<1>11. ASSUME NEW p \in Pids, Inicializa(p) \/ FinalizaTLB(p) \/ FlushMemory(p)
       PROVE  DatosOK'
  BY <1>0, <1>10, <1>11 DEF Inicializa, FinalizaTLB, FlushMemory, DatosOK
<1>16. ASSUME NEW p \in Pids,
              \/ TomaTabla(p) \/ EmpiezaAQuitar(p)
              \/ \E g \in Paginas : CuentaEntrada(p, g) \/ QuitaEntrada(p, g)
       PROVE  DatosOK'
  <2>1. UNCHANGED <<memoria, swap, version, hilo, caida>>
    BY <1>16 DEF TomaTabla, EmpiezaAQuitar, CuentaEntrada, QuitaEntrada
  <2>2. remarcado' \in BOOLEAN
    BY <1>0, <1>16 DEF TomaTabla, EmpiezaAQuitar, CuentaEntrada, QuitaEntrada, DatosOK
  <2>3. Tiene(p) \subseteq Paginas
    BY DEF Tiene, Presentes
  <2>4. faltan' \subseteq Paginas
    BY <1>0, <1>16, <2>3 DEF TomaTabla, EmpiezaAQuitar, CuentaEntrada, QuitaEntrada, DatosOK
  <2> QED
    BY <1>0, <1>10, <2>1, <2>2, <2>4 DEF DatosOK
<1>12. ASSUME NEW p \in Pids, FinalizaSwap(p)
       PROVE  DatosOK'
  <2>1. /\ UNCHANGED <<memoria, version, hilo, caida, faltan, remarcado>>
        /\ swap' = [swap EXCEPT ![p] = [g \in Paginas |-> BASURA]]
    BY <1>12 DEF FinalizaSwap
  <2>2. BASURA \in Contenidos
    BY DEF Contenidos
  <2> QED
    BY <1>0, <2>1, <2>2 DEF DatosOK, SinMarco, Nueva
<1>13. ASSUME NEW p \in Pids, FinalizaTabla(p)
       PROVE  DatosOK'
  <2>1. /\ UNCHANGED <<memoria, swap, hilo, caida, faltan, remarcado>>
        /\ version' = [version EXCEPT ![p] = [g \in Paginas |-> 0]]
    BY <1>13 DEF FinalizaTabla
  <2> QED
    BY <1>0, <2>1 DEF DatosOK, SinMarco, Nueva
<1>14. ASSUME NEW k \in CPUs, HiloCPU(k)
       PROVE  DatosOK'
  <2>0. UNCHANGED <<faltan, remarcado>>
    BY <1>14 DEF HiloCPU
  <2>1. ASSUME ReemplazaNulo(k) PROVE DatosOK'
    BY <1>0, <1>10, <2>0, <2>1 DEF ReemplazaNulo, DatosOK
  <2>2. ASSUME NEW g \in Paginas, Pide(k, "leer", g) \/ Pide(k, "escribir", g)
        PROVE  DatosOK'
    BY <1>4, <2>0, <2>2
  <2> QED
    BY <1>2, <1>3, <1>5, <1>6, <1>7, <1>8, <1>9, <1>14, <2>0, <2>1, <2>2 DEF HiloCPU, PasoDeCPU
<1>15. ASSUME FlushTLB \/ UNCHANGED vars
       PROVE  DatosOK'
  BY <1>0, <1>10, <1>15 DEF FlushTLB, vars, DatosOK
<1> QED
  BY <1>11, <1>12, <1>13, <1>14, <1>15, <1>16 DEF Next, Hilos, HiloNucleo

LEMMA AusentesDelPaso == IReloj /\ ITipos /\ [Next]_vars => Ausentes'
<1> SUFFICES ASSUME IReloj, ITipos, [Next]_vars PROVE Ausentes'
  OBVIOUS
<1>0. HilosOK /\ TablaOK /\ Ausentes
  BY DEF IReloj, IInv, ITipos
<1>1. ASSUME tabla' = tabla
      PROVE  Ausentes'
  BY <1>0, <1>1 DEF Ausentes, SinMarco, Nueva
<1>2. ASSUME NEW k \in CPUs, Reemplaza(k)
      PROVE  Ausentes'
  <2> DEFINE p == hilo[k].pid
             g == hilo[k].pagina
             e == tabla[p]
             v == Victima(e).pagina
             r == Reemplazo(e, g)
  <2>1. /\ hilo[k].pc = "reemplaza" /\ Presentes(e) # {}
        /\ tabla' = [tabla EXCEPT ![p] = r]
    BY <1>2 DEF Reemplaza, EsDe
  <2>2. p \in Pids /\ g \in Paginas
    BY <1>0, <2>1 DEF IReloj, HiloBien, HilosOK, Registros
  <2>3. g \notin Presentes(e)
    BY <2>1 DEF IReloj, HiloBien, Falta, Entrada, Presentes
  <2>4. EntradasOK(e) /\ Reloj(e)
    BY <2>2 DEF IReloj, RelojBien, TablaOK
  <2>5. /\ v \in Presentes(e) /\ r[g].presencia
        /\ \A h \in Paginas \ {g, v} : r[h].presencia = e[h].presencia /\ r[h].marco = e[h].marco
    <3> HIDE DEF e, g
    <3> QED
      BY <2>1, <2>2, <2>3, <2>4, ReemplazoHace
  <2>6. v \in Paginas /\ v # g
    BY <2>3, <2>5 DEF Presentes
  <2>7. r[v] = Nueva
    <3> HIDE DEF e, g
    <3> QED
      BY <2>6 DEF Reemplazo
  <2>8. ASSUME NEW h \in Paginas, ~r[h].presencia PROVE r[h].marco = SinMarco
    <3>1. ~e[h].presencia => e[h].marco = SinMarco
      BY <1>0, <2>2 DEF Ausentes
    <3> HIDE DEF r, v
    <3> QED
      BY <2>5, <2>7, <2>8, <3>1 DEF SinMarco
  <2> HIDE DEF r
  <2> QED
    BY <1>0, <2>1, <2>2, <2>8, AusentesQuedan
<1>3. ASSUME NEW k \in CPUs, Llena(k) \/ Accede(k)
      PROVE  Ausentes'
  <2> DEFINE p == hilo[k].pid
             g == hilo[k].pagina
             e == tabla[p]
  <2>1. hilo[k].pc \in {"llena", "accede"}
    BY <1>3 DEF Llena, Accede, EsDe
  <2>2. p \in Pids /\ g \in Paginas
    BY <1>0, <2>1 DEF IReloj, HiloBien, HilosOK, Registros
  <2>3. e \in [Paginas -> Registro] /\ e[g] \in Registro
    BY <1>0, <2>2 DEF TablaOK
  <2>4. \E x : /\ tabla' = [tabla EXCEPT ![p] = [e EXCEPT ![g] = x]]
               /\ \/ x.presencia
                  \/ x.presencia = e[g].presencia /\ x.marco = e[g].marco
    <3>1. CASE Llena(k)
      <4> DEFINE x == [e[g] EXCEPT !.presencia = TRUE, !.marco = hilo[k].marco,
                                   !.puntero = Entrada(k).puntero \/ Tiene(p) = {}]
      <4>1. tabla' = [tabla EXCEPT ![p][g] = x]
        BY <3>1 DEF Llena
      <4>2. x.presencia
        BY <2>3 DEF Registro
      <4> HIDE DEF x
      <4> QED
        BY <1>0, <2>2, <4>1, <4>2 DEF TablaOK
    <3>2. CASE Accede(k)
      <4> DEFINE x == [e[g] EXCEPT !.uso = TRUE]
                 y == [e[g] EXCEPT !.uso = TRUE, !.modificado = TRUE]
      <4>1. \/ tabla' = [tabla EXCEPT ![p][g].uso = TRUE]
            \/ tabla' = [tabla EXCEPT ![p][g].uso = TRUE, ![p][g].modificado = TRUE]
        BY <3>2 DEF Accede
      <4>2. \E z \in {x, y} : tabla' = [tabla EXCEPT ![p] = [e EXCEPT ![g] = z]]
        BY <1>0, <2>2, <4>1 DEF TablaOK
      <4>3. \A z \in {x, y} : z.presencia = e[g].presencia /\ z.marco = e[g].marco
        BY <2>3 DEF Registro
      <4> HIDE DEF x, y
      <4> QED
        BY <4>2, <4>3
    <3> QED
      BY <1>3, <3>1, <3>2
  <2>5. PICK x : /\ tabla' = [tabla EXCEPT ![p] = [e EXCEPT ![g] = x]]
                 /\ \/ x.presencia
                    \/ x.presencia = e[g].presencia /\ x.marco = e[g].marco
    BY <2>4
  <2> DEFINE r == [e EXCEPT ![g] = x]
  <2>6. \A h \in Paginas : ~e[h].presencia => e[h].marco = SinMarco
    BY <1>0, <2>2 DEF Ausentes
  <2>7. \A h \in Paginas : r[h] = IF h = g THEN x ELSE e[h]
    BY <2>3
  <2>8. tabla' = [tabla EXCEPT ![p] = r]
    BY <2>5
  <2> HIDE DEF r, e, g
  <2>9. \A h \in Paginas : ~r[h].presencia => r[h].marco = SinMarco
    BY <2>2, <2>5, <2>6, <2>7
  <2> QED
    BY <1>0, <2>2, <2>8, <2>9, AusentesQuedan
<1>4. ASSUME NEW p \in Pids, FinalizaTabla(p)
      PROVE  Ausentes'
  <2> DEFINE nada == [g \in Paginas |-> Nueva]
  <2>1. tabla' = [tabla EXCEPT ![p] = nada]
    BY <1>4 DEF FinalizaTabla
  <2>2. \A g \in Paginas : nada[g].marco = SinMarco
    BY DEF SinMarco
  <2> HIDE DEF nada
  <2> QED
    BY <1>0, <2>1, <2>2, AusentesQuedan
<1>5. ASSUME NEW p \in Pids, FlushMemory(p)
      PROVE  Ausentes'
  <2> DEFINE e == tabla[p]
             r == [g \in Paginas |-> [e[g] EXCEPT !.modificado = TRUE]]
  <2>1. tabla' = [tabla EXCEPT ![p] = r]
    BY <1>5 DEF FlushMemory
  <2>2. \A g \in Paginas : e[g] \in Registro /\ (~e[g].presencia => e[g].marco = SinMarco)
    BY <1>0 DEF TablaOK, Ausentes
  <2>3. \A g \in Paginas : r[g].presencia = e[g].presencia /\ r[g].marco = e[g].marco
    BY <2>2 DEF Registro
  <2> HIDE DEF r
  <2> QED
    BY <1>0, <2>1, <2>2, <2>3, AusentesQuedan
<1>6. ASSUME NEW k \in CPUs, HiloCPU(k)
      PROVE  Ausentes'
  BY <1>1, <1>2, <1>3, <1>6 DEF HiloCPU, PasoDeCPU, CambiarProceso, Pide, Deja, Busca,
     Acierto, Fallo, TomaMarcos, HayMarcos, Revisa, ReemplazaNulo, Elige, Asigna
<1>7. ASSUME NEW p \in Pids, HiloNucleo(p) \/ FlushMemory(p)
      PROVE  Ausentes'
  BY <1>1, <1>4, <1>5, <1>7 DEF HiloNucleo, Inicializa, FinalizaSwap, FinalizaTLB, TomaTabla,
     CuentaEntrada, EmpiezaAQuitar, QuitaEntrada
<1> QED
  BY <1>1, <1>6, <1>7 DEF Next, Hilos, FlushTLB, vars

LEMMA ITiposInicial == Init => ITipos
<1> SUFFICES ASSUME Init PROVE ITipos
  OBVIOUS
<1>1. Ausentes
  BY DEF Init, Ausentes, SinMarco
<1>2. \A k \in CPUs : hilo[k].marco = SinMarco
  BY Vacias DEF Init
<1>3. BASURA \in Contenidos /\ \A p \in Pids, g \in Paginas : <<p, g, 0>> \in Contenidos
  BY DEF Contenidos
<1> QED
  BY <1>1, <1>2, <1>3 DEF Init, ITipos, DatosOK, Codigo

(* The variables have their types, and a page has a frame exactly when it is  *)
(* present, however requests overlap and whoever ends meanwhile.             *)
THEOREM TypeOKSiempre == Spec => []TypeOK
<1>1. IReloj /\ ITLB /\ ITipos => TypeOK
  <2> SUFFICES ASSUME IReloj, ITLB, ITipos PROVE TypeOK
    OBVIOUS
  <2>1. HilosOK /\ TablaOK /\ Ausentes /\ DatosOK
    BY DEF IReloj, IInv, ITipos
  <2>2. SinMarco = -1 /\ -1 \notin Marcos
    BY MarcosAssumption DEF SinMarco, Nueva, Marcos
  <2>3. ASSUME NEW p \in Pids, NEW g \in Paginas
        PROVE  /\ tabla[p][g] \in Registro
               /\ tabla[p][g].marco \in Marcos \cup {SinMarco}
               /\ tabla[p][g].presencia <=> tabla[p][g].marco # SinMarco
    <3>1. /\ tabla[p] \in [Paginas -> Registro] /\ tabla[p][g] \in Registro
          /\ tabla[p][g].presencia => tabla[p][g].marco \in Marcos
      BY <2>1 DEF TablaOK, EntradasOK
    <3> QED
      BY <2>1, <2>2, <3>1 DEF Ausentes
  <2>4. ASSUME NEW x \in Registro, x.marco \in Marcos \cup {SinMarco}
        PROVE  x \in [marco : Marcos \cup {SinMarco}, presencia : BOOLEAN, modificado : BOOLEAN,
                      puntero : BOOLEAN, uso : BOOLEAN]
    BY <2>4 DEF Registro
  <2>5. Entradas = [marco : Marcos \cup {SinMarco}, presencia : BOOLEAN, modificado : BOOLEAN,
                    puntero : BOOLEAN, uso : BOOLEAN]
    BY <2>2 DEF Entradas
  <2>6. tabla \in [Pids -> [Paginas -> Entradas]]
    <3>1. \A p \in Pids, g \in Paginas : tabla[p][g] \in Entradas
      BY <2>3, <2>4, <2>5
    <3> QED
      BY <2>1, <3>1 DEF TablaOK
  <2>7. \A p \in Pids, g \in Paginas : tabla[p][g].presencia <=> tabla[p][g].marco # -1
    BY <2>2, <2>3
  <2>8. ASSUME NEW k \in CPUs
        PROVE  hilo[k] \in [pc : PCs, pid : Pids \cup {NADIE}, op : {"leer", "escribir"},
                            pagina : Paginas, marco : Marcos \cup {SinMarco}]
    <3>1. hilo[k] \in Registros /\ hilo[k].marco \in Marcos \cup {SinMarco}
      BY <2>1 DEF HilosOK, DatosOK
    <3> QED
      BY <3>1 DEF Registros
  <2>9. hilo \in [CPUs -> [pc : PCs, pid : Pids \cup {NADIE}, op : {"leer", "escribir"},
                           pagina : Paginas, marco : Marcos \cup {-1}]]
    BY <2>1, <2>2, <2>8 DEF HilosOK
  <2>10. /\ disponible \in [Marcos -> BOOLEAN]
         /\ proceso \in [Pids -> Etapas]
         /\ mutexMarcos \in CPUs \cup {NADIE}
         /\ tlb \in Seq(Pids \X Paginas)
    BY <2>1 DEF TablaOK, HilosOK, ITLB, TLBBien
  <2> QED
    BY <2>1, <2>6, <2>7, <2>9, <2>10 DEF TypeOK, PCs, Etapas, DatosOK
<1>2. ITipos /\ IReloj /\ [Next]_vars => ITipos'
  BY DatosDelPaso, AusentesDelPaso DEF ITipos
<1> QED
  BY <1>1, <1>2, IRelojInicial, IRelojPaso, ITLBInicial, ITLBPaso, ITiposInicial, PTL DEF Spec

-----------------------------------------------------------------------------
(* The end of a process, one at a time, between FinalizaSwap and            *)
(* FinalizaTabla.                                                           *)

Terminando == {"sinSwap", "sinTLB", "contando", "quitando"}

IFin == /\ \A p, q \in Pids : proceso[p] \in Terminando /\ proceso[q] \in Terminando => p = q
        /\ \A p \in Pids : proceso[p] = "contando" => faltan \subseteq Tiene(p)

(* The pages that are present stay so, at least those of processes that end. *)
LEMMA FinQueda ==
  ASSUME IFin, UNCHANGED <<proceso, faltan>>,
         \A p \in Pids : proceso[p] = "contando" => tabla'[p] = tabla[p]
  PROVE  IFin'
  BY DEF IFin, Tiene, Presentes

LEMMA IFinPaso == IReloj /\ IFin /\ [Next]_vars => IFin'
<1> SUFFICES ASSUME IReloj, IFin, [Next]_vars PROVE IFin'
  OBVIOUS
<1>0. TablaOK
  BY DEF IReloj
<1>1. ASSUME NEW k \in CPUs, HiloCPU(k)
      PROVE  IFin'
  <2>1. UNCHANGED <<proceso, faltan>>
    BY <1>1 DEF HiloCPU, PasoDeCPU, CambiarProceso, Pide, Deja, Busca, Acierto, Fallo, TomaMarcos,
       HayMarcos, Revisa, Reemplaza, ReemplazaNulo, Elige, Asigna, Llena, Accede
  <2>2. ASSUME NEW p \in Pids, proceso[p] = "contando"
        PROVE  tabla'[p] = tabla[p]
    <3>1. hilo[k].pid \in Pids => hilo[k].pid # p
      BY <2>2 DEF IReloj, HiloBien
    <3>2. tabla' = tabla \/ hilo[k].pc \in {"reemplaza", "llena", "accede"}
      BY <1>1 DEF HiloCPU, PasoDeCPU, CambiarProceso, Pide, Deja, Busca, Acierto, Fallo, TomaMarcos,
         HayMarcos, Revisa, Reemplaza, ReemplazaNulo, Elige, Asigna, Llena, Accede, EsDe
    <3>3. hilo[k].pc \in {"reemplaza", "llena", "accede"} => hilo[k].pid \in Pids
      BY DEF IReloj, HiloBien
    <3>4. \/ tabla' = tabla
          \/ Reemplaza(k) \/ Llena(k) \/ Accede(k)
      BY <1>1 DEF HiloCPU, PasoDeCPU, CambiarProceso, Pide, Deja, Busca, Acierto, Fallo, TomaMarcos,
         HayMarcos, Revisa, ReemplazaNulo, Elige, Asigna
    <3>5. \E e : tabla' = tabla \/ tabla' = [tabla EXCEPT ![hilo[k].pid] = e]
      BY <1>0, <3>4 DEF Reemplaza, Llena, Accede
    <3> QED
      BY <1>0, <3>1, <3>2, <3>3, <3>5 DEF TablaOK
  <2> QED
    BY <2>1, <2>2, FinQueda
<1>2. ASSUME NEW p \in Pids, Inicializa(p) \/ FinalizaSwap(p) \/ FinalizaTLB(p)
      PROVE  IFin'
  <2>1. UNCHANGED <<tabla, faltan>>
    BY <1>2 DEF Inicializa, FinalizaSwap, FinalizaTLB
  <2>2. \A q \in Pids : proceso'[q] = "contando" => proceso[q] = "contando"
    BY <1>0, <1>2 DEF Inicializa, FinalizaSwap, FinalizaTLB, TablaOK
  <2>3. CASE FinalizaSwap(p)
    <3>1. \A q \in Pids : proceso[q] \notin Terminando
      BY <2>3 DEF FinalizaSwap, NucleoLibre, Terminando
    <3>2. \A q \in Pids \ {p} : proceso'[q] = proceso[q]
      BY <1>0, <2>3 DEF FinalizaSwap, TablaOK
    <3> QED
      BY <2>1, <2>2, <3>1, <3>2 DEF IFin, Tiene, Presentes
  <2>4. CASE Inicializa(p) \/ FinalizaTLB(p)
    <3>1. \A q \in Pids : proceso'[q] \in Terminando => proceso[q] \in Terminando
      BY <1>0, <2>4 DEF Inicializa, FinalizaTLB, TablaOK, Terminando
    <3> QED
      BY <2>1, <2>2, <3>1 DEF IFin, Tiene, Presentes
  <2> QED
    BY <1>2, <2>3, <2>4
<1>3. ASSUME NEW p \in Pids, TomaTabla(p) \/ EmpiezaAQuitar(p) \/ FinalizaTabla(p)
      PROVE  IFin'
  <2>1. /\ proceso[p] \in Terminando
        /\ \A q \in Pids \ {p} : proceso'[q] = proceso[q]
    BY <1>0, <1>3 DEF TomaTabla, EmpiezaAQuitar, FinalizaTabla, TablaOK, Terminando
  <2>2. \A q \in Pids \ {p} : proceso'[q] \notin Terminando
    BY <2>1 DEF IFin
  <2>3. proceso'[p] = "contando" => faltan' = Tiene(p) /\ tabla' = tabla
    BY <1>0, <1>3 DEF TomaTabla, EmpiezaAQuitar, FinalizaTabla, TablaOK
  <2> QED
    BY <2>2, <2>3 DEF IFin, Tiene, Presentes, Terminando
<1>4. ASSUME NEW p \in Pids, NEW g \in Paginas, CuentaEntrada(p, g) \/ QuitaEntrada(p, g)
      PROVE  IFin'
  BY <1>4 DEF IFin, CuentaEntrada, QuitaEntrada, Tiene, Presentes
<1>5. ASSUME NEW p \in Pids, FlushMemory(p)
      PROVE  IFin'
  <2>1. proceso[p] # "contando" /\ tabla' = [tabla EXCEPT ![p] = tabla'[p]]
    BY <1>0, <1>5 DEF FlushMemory, EnTabla, TablaOK
  <2>2. UNCHANGED <<proceso, faltan>>
    BY <1>5 DEF FlushMemory
  <2>3. \A q \in Pids : proceso[q] = "contando" => tabla'[q] = tabla[q]
    BY <1>0, <1>5, <2>1 DEF FlushMemory, TablaOK
  <2> QED
    BY <2>2, <2>3, FinQueda
<1>6. ASSUME FlushTLB \/ UNCHANGED vars
      PROVE  IFin'
  BY <1>6, FinQueda DEF FlushTLB, vars
<1> QED
  BY <1>1, <1>2, <1>3, <1>4, <1>5, <1>6 DEF Next, Hilos, HiloNucleo

-----------------------------------------------------------------------------
(* When write faults are served alone, and until an end makes available a    *)
(* frame that is another page's by then, control_de_marcos tells the truth    *)
(* and what is written is read back, for any number of CPUs, processes, pages *)
(* and frames.                                                              *)

Seccion == {"hayMarcos", "revisa", "elige", "asigna"}

(* A read that looks at control_de_marcos has semaforo_mutex_marcos.         *)
ConMutex(k) == hilo[k].pc \in Seccion /\ hilo[k].op = "leer" => mutexMarcos = k

(* Nobody else has a request while a write fault is served.                  *)
Aparte(k) ==
  hilo[k].pc # "espera" /\ FallaDeEscritura(hilo[k].op, hilo[k].pid, hilo[k].pagina) =>
    \A j \in CPUs \ {k} : hilo[j].pc = "espera"

(* The frame that was chosen is still available when it is taken: an end may  *)
(* make frames available meanwhile, and nobody else takes one.               *)
MarcoLibre(k) == hilo[k].pc = "asigna" /\ ~caida => disponible[hilo[k].marco]

(* The frame m is of the page g of p: see Duenios.                           *)
EnTablaDe(p, g, m) == tabla[p][g].presencia /\ tabla[p][g].marco = m /\ ~Devuelta(p, g)
Tomado(p, g, m) == \E k \in CPUs : /\ hilo[k].pc = "llena" /\ hilo[k].marco = m
                                   /\ hilo[k].pid = p /\ hilo[k].pagina = g
De(p, g, m) == EnTablaDe(p, g, m) \/ Tomado(p, g, m)

(* A frame is of one page at most, and available when it is of none.         *)
MarcosBien ==
  ~remarcado =>
  /\ \A m \in Marcos : \A p, q \in Pids : \A g, h \in Paginas :
       De(p, g, m) /\ De(q, h, m) => p = q /\ g = h
  /\ \A m \in Marcos : \A p \in Pids, g \in Paginas : De(p, g, m) => ~disponible[m]
  /\ \A m \in Marcos : ~disponible[m] => \E p \in Pids, g \in Paginas : De(p, g, m)

IMarcos == /\ IReloj
           /\ IFin
           /\ \A k \in CPUs : ConMutex(k)
           /\ \A k \in CPUs : Aparte(k)
           /\ \A k \in CPUs : MarcoLibre(k)
           /\ MarcosBien

(* Two threads are never both between the test of marco_nuevo and its end.   *)
LEMMA UnoSolo ==
  ASSUME IMarcos, NEW j \in CPUs, NEW k \in CPUs,
         hilo[j].pc \in Seccion, hilo[k].pc \in Seccion
  PROVE  j = k
<1>1. \A i \in {j, k} : /\ hilo[i].op \in {"leer", "escribir"}
                        /\ hilo[i].pc # "espera" /\ ~Entrada(i).presencia
  BY DEF IMarcos, IReloj, IInv, HilosOK, Registros, HiloBien, Falta, Seccion
<1>2. CASE hilo[j].op = "escribir"
  BY <1>1, <1>2 DEF IMarcos, Aparte, FallaDeEscritura, Entrada
<1>3. CASE hilo[k].op = "escribir"
  BY <1>1, <1>3 DEF IMarcos, Aparte, FallaDeEscritura, Entrada
<1>4. CASE hilo[j].op = "leer" /\ hilo[k].op = "leer"
  BY <1>4 DEF IMarcos, ConMutex
<1> QED
  BY <1>1, <1>2, <1>3, <1>4

(* The frames keep their owners.                                            *)
LEMMA DuenosQuedan ==
  ASSUME MarcosBien, remarcado' = remarcado, disponible' = disponible,
         \A p \in Pids, g \in Paginas, m \in Marcos : De(p, g, m)' <=> De(p, g, m)
  PROVE  MarcosBien'
  BY DEF MarcosBien

(* A step of thread k that does not take a frame nor moves a page.           *)
LEMMA MarcosQuedan ==
  ASSUME MarcosBien, NEW k \in CPUs, UNCHANGED <<disponible, proceso, faltan, remarcado>>,
         hilo[k].pc # "llena", hilo'[k].pc # "llena",
         \A j \in CPUs \ {k} : hilo'[j] = hilo[j],
         \A p \in Pids, g \in Paginas : /\ tabla'[p][g].marco = tabla[p][g].marco
                                        /\ tabla'[p][g].presencia = tabla[p][g].presencia
  PROVE  MarcosBien'
<1>1. \A p \in Pids, g \in Paginas, m \in Marcos : EnTablaDe(p, g, m)' <=> EnTablaDe(p, g, m)
  BY DEF EnTablaDe, Devuelta
<1>2. \A p \in Pids, g \in Paginas, m \in Marcos : Tomado(p, g, m)' <=> Tomado(p, g, m)
  BY DEF Tomado
<1> QED
  BY <1>1, <1>2, DuenosQuedan DEF De

(* A step of nobody's thread that does not move a page either.               *)
LEMMA MarcosQuietos ==
  ASSUME MarcosBien, UNCHANGED <<disponible, remarcado, hilo>>,
         \A p \in Pids, g \in Paginas : /\ tabla'[p][g].marco = tabla[p][g].marco
                                        /\ tabla'[p][g].presencia = tabla[p][g].presencia
                                        /\ tabla[p][g].presencia => (Devuelta(p, g)' <=> Devuelta(p, g))
  PROVE  MarcosBien'
<1>1. \A p \in Pids, g \in Paginas, m \in Marcos : EnTablaDe(p, g, m)' <=> EnTablaDe(p, g, m)
  BY DEF EnTablaDe
<1>2. \A p \in Pids, g \in Paginas, m \in Marcos : Tomado(p, g, m)' <=> Tomado(p, g, m)
  BY DEF Tomado
<1> QED
  BY <1>1, <1>2, DuenosQuedan DEF De

(* Requests that go on, of pages that do not lose their frame.               *)
LEMMA SiguenAparte ==
  ASSUME IMarcos,
         \A j \in CPUs : hilo'[j].pc # "espera" =>
           /\ hilo[j].pc # "espera"
           /\ hilo'[j].op = hilo[j].op /\ hilo'[j].pid = hilo[j].pid
           /\ hilo'[j].pagina = hilo[j].pagina
           /\ Entrada(j).presencia => Entrada(j)'.presencia
  PROVE  \A k \in CPUs : Aparte(k)'
  BY DEF IMarcos, Aparte, FallaDeEscritura, Entrada

(* A step of thread k that keeps its request and touches its process's       *)
(* entries only.                                                            *)
LEMMA SigueAparte ==
  ASSUME IMarcos, NEW k \in CPUs, hilo[k].pc # "espera",
         \A j \in CPUs \ {k} : hilo'[j] = hilo[j],
         hilo'[k].pc # "espera" =>
           /\ hilo'[k].op = hilo[k].op /\ hilo'[k].pid = hilo[k].pid
           /\ hilo'[k].pagina = hilo[k].pagina
           /\ Entrada(k).presencia => Entrada(k)'.presencia,
         \A p \in Pids : p # hilo[k].pid => tabla'[p] = tabla[p]
  PROVE  \A j \in CPUs : Aparte(j)'
<1>1. \A j \in CPUs \ {k} : hilo[j].pc # "espera" => Entrada(j)' = Entrada(j)
  BY DEF IMarcos, IReloj, HiloBien, Distintos, Entrada
<1> QED
  BY <1>1, SiguenAparte

(* The frames and the mutex stay, and nobody enters the section reading.     *)
LEMMA SinMarcos ==
  ASSUME IMarcos, NEW k \in CPUs, mutexMarcos' = mutexMarcos, disponible' = disponible,
         ~caida,
         \A j \in CPUs \ {k} : hilo'[j] = hilo[j],
         hilo'[k].pc # "asigna",
         hilo'[k].pc \in Seccion =>
           hilo'[k].op = "escribir" \/ (hilo[k].pc \in Seccion /\ hilo'[k].op = hilo[k].op)
  PROVE  \A j \in CPUs : ConMutex(j)' /\ MarcoLibre(j)'
  BY DEF IMarcos, ConMutex, MarcoLibre

(* The mutex is unlocked by the thread that leaves the section.              *)
LEMMA SaleUno ==
  ASSUME IMarcos, NEW k \in CPUs, hilo[k].pc \in Seccion, hilo'[k].pc \notin Seccion,
         ~caida,
         \A j \in CPUs \ {k} : hilo'[j] = hilo[j]
  PROVE  \A j \in CPUs : ConMutex(j)' /\ MarcoLibre(j)'
<1>1. \A j \in CPUs \ {k} : hilo[j].pc \notin Seccion
  BY UnoSolo
<1>2. "asigna" \in Seccion
  BY DEF Seccion
<1> QED
  BY <1>1, <1>2 DEF ConMutex, MarcoLibre

(* A step that changes nothing of this.                                     *)
LEMMA NadaDeMarcos ==
  ASSUME IMarcos, IReloj', IFin', UNCHANGED <<hilo, mutexMarcos, disponible, tabla, remarcado>>,
         caida => caida',
         \A p \in Pids, g \in Paginas :
           tabla[p][g].presencia => (Devuelta(p, g)' <=> Devuelta(p, g))
  PROVE  IMarcos'
<1>1. MarcosBien'
  BY MarcosQuietos DEF IMarcos
<1>2. \A j \in CPUs : ConMutex(j)' /\ Aparte(j)' /\ MarcoLibre(j)'
  BY DEF IMarcos, ConMutex, Aparte, MarcoLibre, FallaDeEscritura
<1> QED
  BY <1>1, <1>2 DEF IMarcos

(* The pc alone changes.                                                    *)
LEMMA PasaCampos ==
  ASSUME HilosOK, NEW k \in CPUs, NEW pc \in PCs, Pasa(k, pc)
  PROVE  /\ hilo'[k].pc = pc /\ hilo'[k].pid = hilo[k].pid /\ hilo'[k].op = hilo[k].op
         /\ hilo'[k].pagina = hilo[k].pagina
         /\ \A j \in CPUs \ {k} : hilo'[j] = hilo[j]
  BY DEF HilosOK, Registros, Pasa

LEMMA IMarcosPaso ==
  ASSUME ~FallasSolapadas, IMarcos, [Next]_vars
  PROVE  IMarcos'
<1>0. IReloj' /\ IReloj /\ IFin' /\ HilosOK /\ TablaOK
  BY IRelojPaso, IFinPaso DEF IMarcos, IReloj, IInv
<1>1. ASSUME NEW k \in CPUs, NEW p \in Pids, CambiarProceso(k, p),
             UNCHANGED <<faltan, remarcado>>
      PROVE  IMarcos'
  <2>1. /\ ~caida /\ hilo[k].pc = "espera"
        /\ hilo' = [hilo EXCEPT ![k].pid = p]
        /\ UNCHANGED <<tabla, disponible, mutexMarcos, proceso>>
    BY <1>1 DEF CambiarProceso, EsDe
  <2>2. hilo'[k].pc = "espera" /\ \A j \in CPUs \ {k} : hilo'[j] = hilo[j]
    BY <1>0, <2>1 DEF HilosOK, Registros
  <2>3. \A j \in CPUs : ConMutex(j)' /\ MarcoLibre(j)'
    BY <2>1, <2>2, SinMarcos DEF Seccion
  <2>4. \A j \in CPUs : Aparte(j)'
    BY <2>1, <2>2, SiguenAparte DEF Entrada
  <2> QED
    BY <1>0, <1>1, <2>1, <2>2, <2>3, <2>4, MarcosQuedan DEF IMarcos
<1>2. ASSUME NEW k \in CPUs, Deja(k),
             UNCHANGED <<faltan, remarcado>>
      PROVE  IMarcos'
  <2>1. /\ ~caida /\ hilo[k].pc = "espera"
        /\ hilo' = [hilo EXCEPT ![k] = Ocioso]
        /\ UNCHANGED <<tabla, disponible, mutexMarcos, proceso>>
    BY <1>2 DEF Deja, EsDe
  <2>2. hilo'[k].pc = "espera" /\ \A j \in CPUs \ {k} : hilo'[j] = hilo[j]
    BY <1>0, <2>1 DEF HilosOK, Ocioso
  <2>3. \A j \in CPUs : ConMutex(j)' /\ MarcoLibre(j)'
    BY <2>1, <2>2, SinMarcos DEF Seccion
  <2>4. \A j \in CPUs : Aparte(j)'
    BY <2>1, <2>2, SiguenAparte DEF Entrada
  <2> QED
    BY <1>0, <1>2, <2>1, <2>2, <2>3, <2>4, MarcosQuedan DEF IMarcos
<1>3. ASSUME NEW k \in CPUs, NEW op \in {"leer", "escribir"}, NEW g \in Paginas, Pide(k, op, g),
             UNCHANGED <<faltan, remarcado>>
      PROVE  IMarcos'
  <2>1. /\ ~caida /\ hilo[k].pc = "espera"
        /\ hilo' = [hilo EXCEPT ![k].pc = "busca", ![k].op = op, ![k].pagina = g]
        /\ UNCHANGED <<tabla, disponible, mutexMarcos, proceso>>
        /\ \A j \in CPUs \ {k} :
             hilo[j].pc # "espera" =>
               /\ ~FallaDeEscritura(op, hilo[k].pid, g)
               /\ ~FallaDeEscritura(hilo[j].op, hilo[j].pid, hilo[j].pagina)
    BY <1>3 DEF Pide, EsDe
  <2> DEFINE r == [hilo[k] EXCEPT !.pc = "busca", !.op = op, !.pagina = g]
  <2>2. hilo' = [hilo EXCEPT ![k] = r]
    BY <1>0, <2>1 DEF HilosOK
  <2>3. r.pc = "busca" /\ r.op = op /\ r.pagina = g /\ r.pid = hilo[k].pid
    BY <1>0 DEF HilosOK, Registros
  <2> HIDE DEF r
  <2>4. /\ hilo'[k].pc = "busca" /\ hilo'[k].op = op /\ hilo'[k].pagina = g
        /\ hilo'[k].pid = hilo[k].pid
        /\ \A j \in CPUs \ {k} : hilo'[j] = hilo[j]
    BY <1>0, <2>2, <2>3 DEF HilosOK
  <2>5. \A j \in CPUs : ConMutex(j)' /\ MarcoLibre(j)'
    BY <2>1, <2>4, SinMarcos DEF Seccion
  <2>6. \A o, q, h : FallaDeEscritura(o, q, h)' <=> FallaDeEscritura(o, q, h)
    BY <2>1 DEF FallaDeEscritura
  <2>7. Aparte(k)'
    BY <2>1, <2>4 DEF Aparte, FallaDeEscritura
  <2>8. \A j \in CPUs \ {k} : Aparte(j)'
    BY <2>1, <2>4 DEF IMarcos, Aparte, FallaDeEscritura
  <2> QED
    BY <1>0, <1>3, <2>1, <2>4, <2>5, <2>7, <2>8, MarcosQuedan DEF IMarcos
<1>4. ASSUME NEW k \in CPUs, Busca(k) \/ Acierto(k) \/ Fallo(k),
             UNCHANGED <<faltan, remarcado>>
      PROVE  IMarcos'
  <2>1. PICK pc \in PCs : /\ Pasa(k, pc) /\ pc \notin {"hayMarcos", "elige", "asigna", "llena"}
                          /\ pc = "revisa" => hilo[k].op # "leer"
    BY <1>4 DEF Busca, Acierto, Fallo, Encontrada, PCs
  <2>2. /\ ~caida /\ hilo[k].pc \notin {"espera", "llena"}
        /\ UNCHANGED <<tabla, disponible, mutexMarcos, proceso>>
    BY <1>4 DEF Busca, Acierto, Fallo, EsDe
  <2>3. /\ hilo'[k].pc = pc /\ hilo'[k].pid = hilo[k].pid /\ hilo'[k].op = hilo[k].op
        /\ hilo'[k].pagina = hilo[k].pagina
        /\ \A j \in CPUs \ {k} : hilo'[j] = hilo[j]
    BY <1>0, <2>1, PasaCampos
  <2>4. hilo[k].op \in {"leer", "escribir"}
    BY <1>0 DEF HilosOK, Registros
  <2>5. \A j \in CPUs : ConMutex(j)' /\ MarcoLibre(j)'
    BY <2>1, <2>2, <2>3, <2>4, SinMarcos DEF Seccion
  <2>6. \A j \in CPUs : Aparte(j)'
    BY <2>2, <2>3, SigueAparte DEF Entrada
  <2> QED
    BY <1>0, <1>4, <2>1, <2>2, <2>3, <2>5, <2>6, MarcosQuedan DEF IMarcos
<1>5. ASSUME NEW k \in CPUs, TomaMarcos(k),
             UNCHANGED <<faltan, remarcado>>
      PROVE  IMarcos'
  <2>1. PICK pc \in {"hayMarcos", "revisa"} : Pasa(k, pc)
    BY <1>5 DEF TomaMarcos
  <2>2. /\ ~caida /\ hilo[k].pc = "marcos" /\ mutexMarcos = NADIE /\ mutexMarcos' = k
        /\ UNCHANGED <<tabla, disponible, proceso>>
    BY <1>5 DEF TomaMarcos, EsDe
  <2>3. /\ hilo'[k].pc = pc /\ hilo'[k].pid = hilo[k].pid /\ hilo'[k].op = hilo[k].op
        /\ hilo'[k].pagina = hilo[k].pagina
        /\ \A j \in CPUs \ {k} : hilo'[j] = hilo[j]
    BY <1>0, <2>1, PasaCampos DEF PCs
  <2>4. \A j \in CPUs \ {k} : ConMutex(j)' /\ MarcoLibre(j)'
    BY <2>2, <2>3, NadieAssumption DEF IMarcos, ConMutex, MarcoLibre
  <2>5. ConMutex(k)' /\ MarcoLibre(k)'
    BY <2>1, <2>2, <2>3 DEF ConMutex, MarcoLibre, Seccion
  <2>6. \A j \in CPUs : Aparte(j)'
    BY <2>2, <2>3, SigueAparte DEF Entrada
  <2> QED
    BY <1>0, <1>5, <2>1, <2>2, <2>3, <2>4, <2>5, <2>6, MarcosQuedan DEF IMarcos
<1>18. ASSUME NEW k \in CPUs, HayMarcos(k), UNCHANGED <<faltan, remarcado>>
       PROVE  IMarcos'
  <2>1. PICK pc \in {"espera", "revisa"} :
          Pasa(k, pc) /\ mutexMarcos' = IF pc = "revisa" THEN mutexMarcos ELSE NADIE
    BY <1>18 DEF HayMarcos
  <2>2. /\ ~caida /\ hilo[k].pc = "hayMarcos"
        /\ UNCHANGED <<tabla, disponible, proceso>>
    BY <1>18 DEF HayMarcos, EsDe
  <2>3. /\ hilo'[k].pc = pc /\ hilo'[k].pid = hilo[k].pid /\ hilo'[k].op = hilo[k].op
        /\ hilo'[k].pagina = hilo[k].pagina
        /\ \A j \in CPUs \ {k} : hilo'[j] = hilo[j]
    BY <1>0, <2>1, PasaCampos DEF PCs
  <2>4. \A j \in CPUs : ConMutex(j)' /\ MarcoLibre(j)'
    <3>1. CASE pc = "espera"
      BY <2>2, <2>3, <3>1, SaleUno DEF Seccion
    <3>2. CASE pc = "revisa"
      BY <2>1, <2>2, <2>3, <3>2, SinMarcos DEF Seccion
    <3> QED
      BY <3>1, <3>2
  <2>5. \A j \in CPUs : Aparte(j)'
    BY <2>2, <2>3, SigueAparte DEF Entrada
  <2> QED
    BY <1>0, <1>18, <2>1, <2>2, <2>3, <2>4, <2>5, MarcosQuedan DEF IMarcos
<1>6. ASSUME NEW k \in CPUs, Revisa(k),
             UNCHANGED <<faltan, remarcado>>
      PROVE  IMarcos'
  <2>1. PICK pc \in {"reemplaza", "elige"} :
          Pasa(k, pc) /\ mutexMarcos' = IF pc = "elige" THEN mutexMarcos ELSE NADIE
    BY <1>6 DEF Revisa
  <2>2. /\ ~caida /\ hilo[k].pc = "revisa"
        /\ UNCHANGED <<tabla, disponible, proceso>>
    BY <1>6 DEF Revisa, EsDe
  <2>3. /\ hilo'[k].pc = pc /\ hilo'[k].pid = hilo[k].pid /\ hilo'[k].op = hilo[k].op
        /\ hilo'[k].pagina = hilo[k].pagina
        /\ \A j \in CPUs \ {k} : hilo'[j] = hilo[j]
    BY <1>0, <2>1, PasaCampos DEF PCs
  <2>4. \A j \in CPUs : ConMutex(j)' /\ MarcoLibre(j)'
    <3>1. CASE pc = "reemplaza"
      BY <2>2, <2>3, <3>1, SaleUno DEF Seccion
    <3>2. CASE pc = "elige"
      BY <2>1, <2>2, <2>3, <3>2, SinMarcos DEF Seccion
    <3> QED
      BY <3>1, <3>2
  <2>5. \A j \in CPUs : Aparte(j)'
    BY <2>2, <2>3, SigueAparte DEF Entrada
  <2> QED
    BY <1>0, <1>6, <2>1, <2>2, <2>3, <2>4, <2>5, MarcosQuedan DEF IMarcos
<1>7. ASSUME NEW k \in CPUs, ReemplazaNulo(k),
             UNCHANGED <<faltan, remarcado>>
      PROVE  IMarcos'
  BY <1>0, <1>7, NadaDeMarcos DEF ReemplazaNulo, Devuelta
<1>8. ASSUME NEW k \in CPUs, Elige(k),
             UNCHANGED <<faltan, remarcado>>
      PROVE  IMarcos'
  <2> DEFINE m == IF Libres = {} THEN -1
                  ELSE CHOOSE x \in Libres : \A n \in Libres : x <= n
             r == [hilo[k] EXCEPT !.pc = "asigna", !.marco = m]
  <2>1. /\ ~caida /\ hilo[k].pc = "elige" /\ caida' = (Libres = {})
        /\ hilo' = [hilo EXCEPT ![k].pc = "asigna", ![k].marco = m]
        /\ UNCHANGED <<tabla, disponible, mutexMarcos, proceso>>
    BY <1>8 DEF Elige, EsDe
  <2>2. ~caida' => disponible[m]
    <3>1. Libres # {} => m \in Libres
      BY MarcoElegido
    <3> QED
      BY <2>1, <3>1 DEF Libres
  <2> HIDE DEF m
  <2>3. hilo' = [hilo EXCEPT ![k] = r]
    BY <1>0, <2>1 DEF HilosOK
  <2>4. r.pc = "asigna" /\ r.pid = hilo[k].pid /\ r.marco = m /\ r.pagina = hilo[k].pagina
        /\ r.op = hilo[k].op
    BY <1>0 DEF HilosOK, Registros
  <2> HIDE DEF r
  <2>5. /\ hilo'[k].pc = "asigna" /\ hilo'[k].pid = hilo[k].pid /\ hilo'[k].marco = m
        /\ hilo'[k].pagina = hilo[k].pagina /\ hilo'[k].op = hilo[k].op
        /\ \A j \in CPUs \ {k} : hilo'[j] = hilo[j]
    BY <1>0, <2>3, <2>4 DEF HilosOK
  <2>6. \A j \in CPUs : ConMutex(j)' /\ MarcoLibre(j)'
    <3>1. ConMutex(k)' /\ MarcoLibre(k)'
      BY <2>1, <2>2, <2>5 DEF IMarcos, ConMutex, MarcoLibre, Seccion
    <3>2. \A j \in CPUs \ {k} : ConMutex(j)' /\ MarcoLibre(j)'
      BY <2>1, <2>5 DEF IMarcos, ConMutex, MarcoLibre
    <3> QED
      BY <3>1, <3>2
  <2>7. \A j \in CPUs : Aparte(j)'
    BY <2>1, <2>5, SigueAparte DEF Entrada
  <2> QED
    BY <1>0, <1>8, <2>1, <2>5, <2>6, <2>7, MarcosQuedan DEF IMarcos
<1>9. ASSUME NEW k \in CPUs, Asigna(k), UNCHANGED <<faltan, remarcado>>
      PROVE  IMarcos'
  <2> DEFINE p == hilo[k].pid
             g == hilo[k].pagina
             m == hilo[k].marco
  <2>1. /\ ~caida /\ hilo[k].pc = "asigna" /\ Pasa(k, "llena")
        /\ disponible' = [disponible EXCEPT ![m] = FALSE]
        /\ UNCHANGED <<tabla, proceso>>
    BY <1>9 DEF Asigna, EsDe
  <2>2. p \in Pids /\ g \in Paginas /\ m \in Marcos /\ ~tabla[p][g].presencia
    BY <1>0, <2>1 DEF IReloj, HiloBien, HilosOK, Registros, Falta, Entrada
  <2>3. /\ hilo'[k].pc = "llena" /\ hilo'[k].pid = p /\ hilo'[k].op = hilo[k].op
        /\ hilo'[k].pagina = g /\ hilo'[k].marco = m
        /\ \A j \in CPUs \ {k} : hilo'[j] = hilo[j]
    BY <1>0, <2>1 DEF HilosOK, Registros, Pasa
  <2>4. disponible[m] /\ \A i \in Marcos : disponible'[i] <=> disponible[i] /\ i # m
    BY <1>0, <2>1, <2>2 DEF IMarcos, MarcoLibre, TablaOK
  <2> HIDE DEF p, g, m
  <2>5. ASSUME NEW q \in Pids, NEW h \in Paginas, NEW i \in Marcos
        PROVE  De(q, h, i)' <=> De(q, h, i) \/ (q = p /\ h = g /\ i = m)
    <3>1. EnTablaDe(q, h, i)' <=> EnTablaDe(q, h, i)
      BY <1>9, <2>1 DEF EnTablaDe, Devuelta
    <3>2. Tomado(q, h, i)' <=> Tomado(q, h, i) \/ (q = p /\ h = g /\ i = m)
      BY <2>1, <2>3 DEF Tomado
    <3> QED
      BY <3>1, <3>2 DEF De
  <2>6. MarcosBien'
    BY <1>9, <2>2, <2>4, <2>5 DEF IMarcos, MarcosBien
  <2>7. \A j \in CPUs : ConMutex(j)' /\ MarcoLibre(j)'
    BY <2>1, <2>3, SaleUno DEF Seccion
  <2>8. \A j \in CPUs : Aparte(j)'
    BY <2>1, <2>3, SigueAparte DEF Entrada, p, g
  <2> QED
    BY <1>0, <2>6, <2>7, <2>8 DEF IMarcos
<1>19. ASSUME NEW k \in CPUs, Llena(k), UNCHANGED <<faltan, remarcado>>
       PROVE  IMarcos'
  <2> DEFINE p == hilo[k].pid
             g == hilo[k].pagina
             m == hilo[k].marco
             x == [tabla[p][g] EXCEPT !.presencia = TRUE, !.marco = m,
                                      !.puntero = Entrada(k).puntero \/ Tiene(p) = {}]
             n == -1
  <2>1. /\ ~caida /\ hilo[k].pc = "llena"
        /\ UNCHANGED <<disponible, mutexMarcos, proceso>>
        /\ tabla' = [tabla EXCEPT ![p][g] = x]
        /\ hilo' = [hilo EXCEPT ![k].pc = "accede", ![k].marco = n]
    BY <1>19 DEF Llena, EsDe
  <2>2. /\ p \in Pids /\ g \in Paginas /\ m \in Marcos /\ ~tabla[p][g].presencia
        /\ proceso[p] = "vivo"
    BY <1>0, <2>1 DEF IReloj, HiloBien, HilosOK, Registros, Falta, Entrada
  <2>3. /\ hilo'[k].pc = "accede" /\ hilo'[k].pid = p
        /\ hilo'[k].pagina = g /\ hilo'[k].op = hilo[k].op
        /\ \A j \in CPUs \ {k} : hilo'[j] = hilo[j]
    <3> HIDE DEF n, x
    <3> QED
      BY <1>0, <2>1 DEF HilosOK, Registros
  <2>4. x.presencia /\ x.marco = m
    BY <1>0, <2>2 DEF TablaOK, Registro
  <2> HIDE DEF x
  <2>5. /\ tabla'[p][g].presencia /\ tabla'[p][g].marco = m
        /\ \A q \in Pids, h \in Paginas : (q # p \/ h # g) => tabla'[q][h] = tabla[q][h]
        /\ \A q \in Pids : q # p => tabla'[q] = tabla[q]
    BY <1>0, <2>1, <2>2, <2>4 DEF TablaOK
  <2>6. \A j \in CPUs : hilo[j].pid = p => j = k
    BY <1>0, <2>2 DEF IReloj, Distintos
  <2> HIDE DEF p, g, m
  <2>7. ASSUME NEW q \in Pids, NEW h \in Paginas, NEW i \in Marcos
        PROVE  De(q, h, i)' <=> De(q, h, i)
    <3>1. (Devuelta(q, h)' <=> Devuelta(q, h)) /\ (q = p => ~Devuelta(q, h))
      BY <1>19, <2>1, <2>2 DEF Devuelta
    <3>2. CASE q = p /\ h = g
      <4>1. ~EnTablaDe(q, h, i) /\ (EnTablaDe(q, h, i)' <=> i = m)
        BY <2>2, <2>5, <3>1, <3>2 DEF EnTablaDe
      <4>2. ~Tomado(q, h, i)' /\ (Tomado(q, h, i) <=> i = m)
        BY <2>1, <2>3, <2>6, <3>2 DEF Tomado, p, g, m
      <4> QED
        BY <4>1, <4>2 DEF De
    <3>3. CASE q # p \/ h # g
      <4>1. EnTablaDe(q, h, i)' <=> EnTablaDe(q, h, i)
        BY <2>5, <3>1, <3>3 DEF EnTablaDe
      <4>2. Tomado(q, h, i)' <=> Tomado(q, h, i)
        BY <2>1, <2>3, <3>3 DEF Tomado, p, g
      <4> QED
        BY <4>1, <4>2 DEF De
    <3> QED
      BY <3>2, <3>3
  <2>8. MarcosBien'
    BY <1>19, <2>1, <2>7, DuenosQuedan DEF IMarcos
  <2>9. \A j \in CPUs : ConMutex(j)' /\ MarcoLibre(j)'
    BY <2>1, <2>3, SinMarcos DEF Seccion
  <2>10. \A j \in CPUs : Aparte(j)'
    <3>1. Entrada(k)'.presencia
      BY <2>3, <2>5 DEF Entrada
    <3> QED
      BY <2>1, <2>3, <2>5, <3>1, SigueAparte DEF p, g
  <2> QED
    BY <1>0, <2>8, <2>9, <2>10 DEF IMarcos
<1>10. ASSUME NEW k \in CPUs, Reemplaza(k),
              UNCHANGED <<faltan, remarcado>>
       PROVE  IMarcos'
  <2> DEFINE p == hilo[k].pid
             g == hilo[k].pagina
             e == tabla[p]
             r == Reemplazo(e, g)
  <2>1. /\ ~caida /\ hilo[k].pc = "reemplaza" /\ Presentes(e) # {}
        /\ tabla' = [tabla EXCEPT ![p] = r]
        /\ Pasa(k, "accede") /\ UNCHANGED <<disponible, mutexMarcos, proceso>>
    BY <1>10 DEF Reemplaza, EsDe
  <2>2. p \in Pids /\ g \in Paginas /\ proceso[p] = "vivo"
    BY <1>0, <2>1 DEF IReloj, HiloBien, HilosOK, Registros
  <2>3. g \notin Presentes(e)
    BY <1>0, <2>1 DEF IReloj, HiloBien, Falta, Entrada, Presentes
  <2>4. EntradasOK(e) /\ Reloj(e)
    BY <1>0, <2>2 DEF IReloj, RelojBien, TablaOK
  <2>5. \E v \in Presentes(e) :
          /\ r[g].presencia /\ r[g].marco = e[v].marco /\ ~r[v].presencia
          /\ \A h \in Paginas \ {g, v} : r[h].presencia = e[h].presencia /\ r[h].marco = e[h].marco
    <3> HIDE DEF e, g
    <3>1. PICK v \in Presentes(e) : \E np \in (Presentes(e) \ {v}) \cup {g} :
            /\ r[g].presencia /\ r[g].marco = e[v].marco /\ ~r[v].presencia
            /\ \A h \in Paginas \ {g, v} :
                 r[h].presencia = e[h].presencia /\ r[h].marco = e[h].marco
      BY <2>1, <2>2, <2>3, <2>4, ReemplazoHace
    <3> QED
      BY <3>1
  <2> HIDE DEF r
  <2>6. PICK v \in Paginas :
          /\ tabla[p][v].presencia /\ ~tabla'[p][v].presencia
          /\ tabla'[p][g].presencia /\ tabla'[p][g].marco = tabla[p][v].marco
          /\ \A h \in Paginas \ {g, v} : /\ tabla'[p][h].presencia = tabla[p][h].presencia
                                         /\ tabla'[p][h].marco = tabla[p][h].marco
    BY <1>0, <2>1, <2>2, <2>5 DEF TablaOK, Presentes
  <2>7. \A q \in Pids : q # p => tabla'[q] = tabla[q]
    BY <1>0, <2>1 DEF TablaOK
  <2>8. ~tabla[p][g].presencia /\ v # g
    BY <2>2, <2>3, <2>6 DEF Presentes
  <2>13. /\ \A j \in CPUs : hilo[j].pid = p => hilo[j].pc # "llena"
         /\ hilo'[k].pc # "llena" /\ \A j \in CPUs \ {k} : hilo'[j] = hilo[j]
    <3>1. \A j \in CPUs : hilo[j].pid = p => j = k
      BY <1>0, <2>2 DEF IReloj, Distintos
    <3> QED
      BY <1>0, <2>1, <3>1, PasaCampos DEF PCs
  <2> HIDE DEF p, g, e
  <2>14. ASSUME NEW q \in Pids, NEW h \in Paginas, NEW i \in Marcos
         PROVE  /\ Devuelta(q, h)' <=> Devuelta(q, h)
                /\ Tomado(q, h, i)' <=> Tomado(q, h, i)
                /\ q = p => ~Tomado(q, h, i) /\ ~Devuelta(q, h)
    <3>1. /\ Devuelta(q, h)' <=> Devuelta(q, h)
          /\ q = p => ~Devuelta(q, h)
      BY <1>10, <2>1, <2>2 DEF Devuelta
    <3>2. q = p => ~Tomado(q, h, i)
      BY <2>13 DEF Tomado
    <3>3. Tomado(q, h, i)' <=> Tomado(q, h, i)
      BY <2>1, <2>13 DEF Tomado
    <3> QED
      BY <3>1, <3>2, <3>3
  <2>15. ASSUME NEW q \in Pids, NEW h \in Paginas, NEW i \in Marcos
         PROVE  /\ q = p /\ h = g => ~De(q, h, i) /\ (De(q, h, i)' <=> De(p, v, i))
                /\ q = p /\ h = v => ~De(q, h, i)'
                /\ ~(q = p /\ h \in {g, v}) => (De(q, h, i)' <=> De(q, h, i))
    <3>1. CASE q = p
      <4>1. ~Tomado(q, h, i) /\ ~Tomado(q, h, i)' /\ ~Tomado(q, v, i)
        BY <2>14, <3>1
      <4>2. ~Devuelta(q, h) /\ ~Devuelta(q, h)' /\ ~Devuelta(q, v)
        BY <2>14, <3>1
      <4>3. /\ De(q, h, i) <=> tabla[q][h].presencia /\ tabla[q][h].marco = i
            /\ De(q, h, i)' <=> tabla'[q][h].presencia /\ tabla'[q][h].marco = i
            /\ De(q, v, i) <=> tabla[q][v].presencia /\ tabla[q][v].marco = i
        BY <4>1, <4>2 DEF De, EnTablaDe
      <4> QED
        BY <2>6, <2>8, <3>1, <4>3
    <3>2. CASE q # p
      <4>1. tabla'[q] = tabla[q]
        BY <2>7, <3>2
      <4> QED
        BY <2>14, <3>2, <4>1 DEF De, EnTablaDe
    <3> QED
      BY <3>1, <3>2
  <2>9. MarcosBien'
    <3> SUFFICES ASSUME ~remarcado'
                 PROVE  MarcosBien'
      BY DEF MarcosBien
    <3>0. ~remarcado /\ MarcosBien
      BY <1>10 DEF IMarcos
    <3>1. ASSUME NEW i \in Marcos, NEW q \in Pids, NEW h \in Paginas, De(q, h, i)'
          PROVE  \/ q = p /\ h = g /\ De(p, v, i)
                 \/ ~(q = p /\ h \in {g, v}) /\ De(q, h, i)
      BY <2>15, <3>1
    <3>2. ASSUME NEW i \in Marcos, NEW q \in Pids, NEW q2 \in Pids, NEW h \in Paginas,
                 NEW h2 \in Paginas, De(q, h, i)', De(q2, h2, i)'
          PROVE  q = q2 /\ h = h2
      <4>1. CASE q = p /\ h = g
        BY <2>2, <3>0, <3>1, <3>2, <4>1 DEF MarcosBien
      <4>2. CASE ~(q = p /\ h = g) /\ ~(q2 = p /\ h2 = g)
        BY <3>0, <3>1, <3>2, <4>2 DEF MarcosBien
      <4>3. CASE ~(q = p /\ h = g) /\ (q2 = p /\ h2 = g)
        BY <2>2, <3>0, <3>1, <3>2, <4>3 DEF MarcosBien
      <4> QED
        BY <4>1, <4>2, <4>3
    <3>3. ASSUME NEW i \in Marcos, NEW q \in Pids, NEW h \in Paginas, De(q, h, i)'
          PROVE  ~disponible'[i]
      BY <2>1, <2>2, <3>0, <3>1, <3>3 DEF MarcosBien
    <3>4. ASSUME NEW i \in Marcos, ~disponible'[i]
          PROVE  \E q \in Pids, h \in Paginas : De(q, h, i)'
      <4>1. PICK q \in Pids, h \in Paginas : De(q, h, i)
        BY <2>1, <3>0, <3>4 DEF MarcosBien
      <4>2. CASE q = p /\ h = v
        BY <2>2, <2>15, <4>1, <4>2
      <4>3. CASE ~(q = p /\ h = v)
        BY <2>15, <4>1, <4>3
      <4> QED
        BY <4>2, <4>3
    <3> QED
      BY <3>2, <3>3, <3>4 DEF MarcosBien
  <2>10. /\ hilo'[k].pc = "accede" /\ hilo'[k].pid = hilo[k].pid /\ hilo'[k].op = hilo[k].op
         /\ hilo'[k].pagina = hilo[k].pagina
         /\ \A j \in CPUs \ {k} : hilo'[j] = hilo[j]
    BY <1>0, <2>1, PasaCampos DEF PCs
  <2>11. \A j \in CPUs : ConMutex(j)' /\ MarcoLibre(j)'
    BY <2>1, <2>10, SinMarcos DEF Seccion
  <2>12. \A j \in CPUs : Aparte(j)'
    <3>1. Entrada(k)'.presencia
      BY <2>6, <2>10 DEF Entrada, p, g
    <3> QED
      BY <2>1, <2>7, <2>10, <3>1, SigueAparte DEF p
  <2> QED
    BY <1>0, <2>9, <2>11, <2>12 DEF IMarcos
<1>11. ASSUME NEW k \in CPUs, Accede(k),
              UNCHANGED <<faltan, remarcado>>
       PROVE  IMarcos'
  <2> DEFINE p == hilo[k].pid
             g == hilo[k].pagina
             e == tabla[p]
  <2>1. /\ ~caida /\ hilo[k].pc = "accede"
        /\ UNCHANGED <<disponible, mutexMarcos, proceso>>
        /\ hilo' = [hilo EXCEPT ![k] = [Ocioso EXCEPT !.pid = p]]
    BY <1>11 DEF Accede, EsDe
  <2>2. \/ tabla' = [tabla EXCEPT ![p][g].uso = TRUE]
        \/ tabla' = [tabla EXCEPT ![p][g].uso = TRUE, ![p][g].modificado = TRUE]
    BY <1>11 DEF Accede
  <2>3. p \in Pids /\ g \in Paginas
    BY <1>0, <2>1 DEF IReloj, HiloBien, HilosOK, Registros
  <2>4. hilo'[k].pc = "espera" /\ \A j \in CPUs \ {k} : hilo'[j] = hilo[j]
    BY <1>0, <2>1 DEF HilosOK, Ocioso
  <2>5. PICK x \in {[e[g] EXCEPT !.uso = TRUE],
                    [e[g] EXCEPT !.uso = TRUE, !.modificado = TRUE]} :
          tabla' = [tabla EXCEPT ![p] = [e EXCEPT ![g] = x]]
    BY <1>0, <2>2, <2>3 DEF TablaOK
  <2>6. e \in [Paginas -> Registro] /\ e[g] \in Registro
    BY <1>0, <2>3 DEF TablaOK
  <2>7. x.marco = e[g].marco /\ x.presencia = e[g].presencia
    BY <2>5, <2>6 DEF Registro
  <2>8. \A q \in Pids, h \in Paginas : /\ tabla'[q][h].marco = tabla[q][h].marco
                                       /\ tabla'[q][h].presencia = tabla[q][h].presencia
    BY <1>0, <2>3, <2>5, <2>6, <2>7 DEF TablaOK
  <2>9. \A q \in Pids : q # p => tabla'[q] = tabla[q]
    BY <1>0, <2>5 DEF TablaOK
  <2>10. \A j \in CPUs : ConMutex(j)' /\ MarcoLibre(j)'
    BY <2>1, <2>4, SinMarcos DEF Seccion
  <2>11. \A j \in CPUs : Aparte(j)'
    BY <2>1, <2>4, <2>9, SigueAparte
  <2>12. MarcosBien'
    BY <1>11, <2>1, <2>4, <2>8, MarcosQuedan DEF IMarcos
  <2> QED
    BY <1>0, <2>10, <2>11, <2>12 DEF IMarcos
<1>12. ASSUME NEW p \in Pids, Inicializa(p) \/ FinalizaSwap(p) \/ FinalizaTLB(p)
       PROVE  IMarcos'
  <2>1. /\ UNCHANGED <<hilo, mutexMarcos, disponible, tabla, remarcado, caida, faltan>>
        /\ \A q \in Pids : /\ proceso'[q] = "contando" <=> proceso[q] = "contando"
                           /\ proceso'[q] = "quitando" <=> proceso[q] = "quitando"
    BY <1>0, <1>12 DEF Inicializa, FinalizaSwap, FinalizaTLB, TablaOK
  <2>2. \A q \in Pids, g \in Paginas : Devuelta(q, g)' <=> Devuelta(q, g)
    BY <2>1 DEF Devuelta
  <2> QED
    BY <1>0, <2>1, <2>2, NadaDeMarcos
<1>20. ASSUME NEW p \in Pids, TomaTabla(p) \/ EmpiezaAQuitar(p)
       PROVE  IMarcos'
  <2>1. /\ UNCHANGED <<hilo, mutexMarcos, disponible, tabla, remarcado, caida>>
        /\ proceso[p] \in Terminando
        /\ \A q \in Pids \ {p} : proceso'[q] = proceso[q]
    BY <1>0, <1>20 DEF TomaTabla, EmpiezaAQuitar, TablaOK, Terminando
  <2>2. \A q \in Pids \ {p} : proceso[q] \notin {"contando", "quitando"}
    BY <2>1 DEF IMarcos, IFin, Terminando
  <2>3. \A q \in Pids \ {p}, g \in Paginas : ~Devuelta(q, g) /\ ~Devuelta(q, g)'
    BY <2>1, <2>2 DEF Devuelta
  <2>4. CASE TomaTabla(p)
    <3>1. proceso[p] = "sinTLB" /\ proceso'[p] = "contando" /\ faltan' = Tiene(p)
      BY <1>0, <2>4 DEF TomaTabla, TablaOK
    <3>2. \A g \in Paginas : tabla[p][g].presencia => ~Devuelta(p, g) /\ ~Devuelta(p, g)'
      BY <3>1 DEF Devuelta, Tiene, Presentes
    <3> QED
      BY <1>0, <2>1, <2>3, <3>2, NadaDeMarcos
  <2>5. CASE EmpiezaAQuitar(p)
    <3>1. proceso[p] = "contando" /\ faltan = {} /\ proceso'[p] = "quitando"
      BY <1>0, <2>5 DEF EmpiezaAQuitar, TablaOK
    <3>2. \A g \in Paginas : Devuelta(p, g) /\ Devuelta(p, g)'
      BY <3>1 DEF Devuelta
    <3> QED
      BY <1>0, <2>1, <2>3, <3>2, NadaDeMarcos
  <2> QED
    BY <1>20, <2>4, <2>5
<1>21. ASSUME NEW p \in Pids, NEW g \in Paginas, CuentaEntrada(p, g) \/ QuitaEntrada(p, g)
       PROVE  IMarcos'
  <2> DEFINE m == tabla[p][g].marco
  <2>1. /\ UNCHANGED <<tabla, hilo, proceso, mutexMarcos, caida>>
        /\ proceso[p] \in {"contando", "quitando"}
        /\ disponible' = [disponible EXCEPT ![m] = TRUE]
        /\ g \in faltan /\ faltan' = faltan \ {g}
    BY <1>21 DEF CuentaEntrada, QuitaEntrada, Sigue
  <2>2. /\ \A i \in Marcos : disponible'[i] <=> disponible[i] \/ i = m
        /\ disponible' \in [Marcos -> BOOLEAN]
    BY <1>0, <2>1 DEF TablaOK
  <2>3. \A q \in Pids \ {p} : proceso[q] \notin {"contando", "quitando"}
    BY <2>1 DEF IMarcos, IFin, Terminando
  <2>4. \A k \in CPUs : ConMutex(k)' /\ Aparte(k)'
    BY <2>1 DEF IMarcos, ConMutex, Aparte, FallaDeEscritura
  <2>5. \A k \in CPUs : MarcoLibre(k)'
    <3> TAKE k \in CPUs
    <3>1. hilo[k].pc = "asigna" /\ ~caida => hilo[k].marco \in Marcos
      BY <1>0 DEF IReloj, HiloBien
    <3> QED
      BY <2>1, <2>2, <3>1 DEF IMarcos, MarcoLibre
  <2> HIDE DEF m
  <2>6. \A q \in Pids, h \in Paginas, i \in Marcos : Tomado(q, h, i)' <=> Tomado(q, h, i)
    BY <2>1 DEF Tomado
  <2>7. CASE CuentaEntrada(p, g)
    <3>1. proceso[p] = "contando" /\ remarcado' = remarcado
      BY <2>7 DEF CuentaEntrada
    <3>2. g \in Tiene(p)
      BY <2>1, <3>1 DEF IMarcos, IFin
    <3>3. EnTablaDe(p, g, m) /\ m \in Marcos
      BY <1>0, <2>1, <3>1, <3>2 DEF EnTablaDe, Devuelta, Tiene, Presentes, TablaOK, EntradasOK, m
    <3>4. \A h \in Paginas, i \in Marcos : ~Tomado(p, h, i)
      BY <1>0, <3>1 DEF IReloj, HiloBien, Tomado
    <3>5. \A q \in Pids, h \in Paginas : Devuelta(q, h)' <=> Devuelta(q, h) \/ (q = p /\ h = g)
      BY <2>1, <2>3, <3>1 DEF Devuelta
    <3>6. \A q \in Pids, h \in Paginas, i \in Marcos :
            De(q, h, i)' <=> De(q, h, i) /\ ~(q = p /\ h = g)
      BY <2>1, <2>6, <3>4, <3>5 DEF De, EnTablaDe
    <3>7. MarcosBien'
      <4> SUFFICES ASSUME ~remarcado'
                   PROVE  MarcosBien'
        BY DEF MarcosBien
      <4>0. ~remarcado /\ MarcosBien /\ De(p, g, m)
        BY <3>1, <3>3 DEF IMarcos, De
      <4>1. \A i \in Marcos : De(p, g, i) => i = m
        BY <3>4 DEF De, EnTablaDe, m
      <4>2. \A q \in Pids, h \in Paginas : De(q, h, m) => q = p /\ h = g
        BY <3>3, <4>0 DEF MarcosBien
      <4>3. \A i \in Marcos : \A q \in Pids, h \in Paginas : De(q, h, i)' => ~disponible'[i]
        BY <2>2, <3>6, <4>0, <4>2 DEF MarcosBien
      <4>4. ASSUME NEW i \in Marcos, ~disponible'[i]
            PROVE  \E q \in Pids, h \in Paginas : De(q, h, i)'
        <5>1. i # m /\ ~disponible[i]
          BY <2>2, <4>4
        <5>2. PICK q \in Pids, h \in Paginas : De(q, h, i)
          BY <4>0, <5>1 DEF MarcosBien
        <5> QED
          BY <3>6, <4>1, <5>1, <5>2
      <4>5. \A i \in Marcos : \A q, q2 \in Pids : \A h, h2 \in Paginas :
              De(q, h, i)' /\ De(q2, h2, i)' => q = q2 /\ h = h2
        BY <3>6, <4>0 DEF MarcosBien
      <4> QED
        BY <4>3, <4>4, <4>5 DEF MarcosBien
    <3> QED
      BY <1>0, <2>4, <2>5, <3>7 DEF IMarcos
  <2>8. CASE QuitaEntrada(p, g)
    <3>1. proceso[p] = "quitando" /\ (remarcado' <=> (remarcado \/ ~disponible[m]))
      BY <2>8 DEF QuitaEntrada, m
    <3>2. \A q \in Pids, h \in Paginas : Devuelta(q, h)' <=> Devuelta(q, h)
      BY <2>1, <2>3, <3>1 DEF Devuelta
    <3>3. \A q \in Pids, h \in Paginas, i \in Marcos : De(q, h, i)' <=> De(q, h, i)
      BY <2>1, <2>6, <3>2 DEF De, EnTablaDe
    <3>4. ASSUME ~remarcado' PROVE ~remarcado /\ \A i \in Marcos : disponible'[i] <=> disponible[i]
      BY <2>2, <3>1, <3>4
    <3>5. MarcosBien'
      BY <3>3, <3>4 DEF IMarcos, MarcosBien
    <3> QED
      BY <1>0, <2>4, <2>5, <3>5 DEF IMarcos
  <2> QED
    BY <1>21, <2>7, <2>8
<1>13. ASSUME NEW p \in Pids, FinalizaTabla(p)
       PROVE  IMarcos'
  <2>1. /\ UNCHANGED <<hilo, caida, mutexMarcos, disponible, faltan, remarcado>>
        /\ proceso[p] = "quitando"
        /\ proceso' = [proceso EXCEPT ![p] = "terminado"]
        /\ tabla' = [tabla EXCEPT ![p] = [g \in Paginas |-> Nueva]]
    BY <1>13 DEF FinalizaTabla
  <2>2. \A k \in CPUs : hilo[k].pid # p
    BY <1>0, <2>1 DEF IReloj, HiloBien
  <2>3. ~Nueva.presencia
    BY DEF Nueva
  <2>4. \A q \in Pids, g \in Paginas :
          /\ q # p => tabla'[q][g] = tabla[q][g]
          /\ q = p => ~tabla'[q][g].presencia
    BY <1>0, <2>1, <2>3 DEF TablaOK
  <2>5. \A g \in Paginas : Devuelta(p, g)
    BY <2>1 DEF Devuelta
  <2>6. \A q \in Pids \ {p}, g \in Paginas : Devuelta(q, g)' <=> Devuelta(q, g)
    BY <1>0, <2>1 DEF Devuelta, TablaOK
  <2>7. MarcosBien'
    <3>1. \A q \in Pids, g \in Paginas, m \in Marcos : EnTablaDe(q, g, m)' <=> EnTablaDe(q, g, m)
      BY <2>4, <2>5, <2>6 DEF EnTablaDe
    <3>2. \A q \in Pids, g \in Paginas, m \in Marcos : Tomado(q, g, m)' <=> Tomado(q, g, m)
      BY <2>1 DEF Tomado
    <3> QED
      BY <2>1, <3>1, <3>2, DuenosQuedan DEF IMarcos, De
  <2>8. \A k \in CPUs : ConMutex(k)' /\ MarcoLibre(k)'
    BY <2>1 DEF IMarcos, ConMutex, MarcoLibre
  <2>10. \A k \in CPUs : Aparte(k)'
    <3>1. \A k \in CPUs : hilo[k].pc # "espera" => hilo[k].pid \in Pids /\ hilo[k].pagina \in Paginas
      BY <1>0 DEF IReloj, HiloBien, HilosOK, Registros
    <3>2. \A k \in CPUs : hilo[k].pc # "espera" => Entrada(k)' = Entrada(k)
      BY <2>1, <2>2, <2>4, <3>1 DEF Entrada
    <3> QED
      BY <2>1, <3>2, SiguenAparte
  <2> QED
    BY <1>0, <2>7, <2>8, <2>10 DEF IMarcos
<1>14. ASSUME NEW p \in Pids, FlushMemory(p)
       PROVE  IMarcos'
  <2>1. /\ UNCHANGED <<disponible, hilo, mutexMarcos, caida, proceso, faltan, remarcado>>
        /\ tabla' = [tabla EXCEPT ![p] =
                       [g \in Paginas |-> [tabla[p][g] EXCEPT !.modificado = TRUE]]]
    BY <1>14 DEF FlushMemory
  <2>2. \A g \in Paginas : tabla[p][g] \in Registro
    BY <1>0 DEF TablaOK
  <2>3. \A g \in Paginas : /\ [tabla[p][g] EXCEPT !.modificado = TRUE].marco = tabla[p][g].marco
                           /\ [tabla[p][g] EXCEPT !.modificado = TRUE].presencia
                                = tabla[p][g].presencia
    BY <2>2 DEF Registro
  <2>4. \A q \in Pids, g \in Paginas : /\ tabla'[q][g].marco = tabla[q][g].marco
                                       /\ tabla'[q][g].presencia = tabla[q][g].presencia
    BY <1>0, <2>1, <2>3 DEF TablaOK
  <2>5. MarcosBien'
    BY <2>1, <2>4, MarcosQuietos DEF IMarcos, Devuelta
  <2>6. \A k \in CPUs : ConMutex(k)' /\ MarcoLibre(k)'
    BY <2>1 DEF IMarcos, ConMutex, MarcoLibre
  <2>7. \A k \in CPUs : Aparte(k)'
    <3>1. \A k \in CPUs : hilo[k].pc # "espera" => hilo[k].pid \in Pids /\ hilo[k].pagina \in Paginas
      BY <1>0 DEF IReloj, HiloBien, HilosOK, Registros
    <3>2. \A k \in CPUs : hilo[k].pc # "espera" => Entrada(k)'.presencia = Entrada(k).presencia
      BY <2>1, <2>4, <3>1 DEF Entrada
    <3> QED
      BY <2>1, <3>2, SiguenAparte
  <2> QED
    BY <1>0, <2>5, <2>6, <2>7 DEF IMarcos
<1>15. ASSUME FlushTLB \/ UNCHANGED vars
       PROVE  IMarcos'
  BY <1>0, <1>15, NadaDeMarcos DEF FlushTLB, vars, Devuelta
<1>16. ASSUME NEW k \in CPUs, HiloCPU(k)
       PROVE  IMarcos'
  <2>0. UNCHANGED <<faltan, remarcado>>
    BY <1>16 DEF HiloCPU
  <2>1. ASSUME NEW g \in Paginas, Pide(k, "leer", g) \/ Pide(k, "escribir", g)
        PROVE  IMarcos'
    BY <2>0, <2>1, <1>3
  <2> QED
    BY <1>16, <2>0, <2>1, <1>1, <1>2, <1>4, <1>5, <1>6, <1>7, <1>8, <1>9, <1>10, <1>11, <1>18, <1>19
       DEF HiloCPU, PasoDeCPU
<1>17. ASSUME NEW p \in Pids, HiloNucleo(p) \/ FlushMemory(p)
       PROVE  IMarcos'
  BY <1>17, <1>12, <1>13, <1>14, <1>20, <1>21 DEF HiloNucleo
<1> QED
  BY <1>15, <1>16, <1>17 DEF Next, Hilos

LEMMA IMarcosInicial == Init => IMarcos
<1> SUFFICES ASSUME Init PROVE IMarcos
  OBVIOUS
<1>1. \A k \in CPUs : hilo[k].pc = "espera"
  BY DEF Init, Ocioso
<1>2. \A p \in Pids, g \in Paginas : ~tabla[p][g].presencia
  BY DEF Init, Nueva
<1>3. \A m \in Marcos : disponible[m]
  BY DEF Init
<1>4. MarcosBien
  BY <1>1, <1>2, <1>3 DEF MarcosBien, De, EnTablaDe, Tomado
<1>5. IFin
  BY DEF Init, IFin, Terminando
<1> QED
  BY <1>1, <1>4, <1>5, IRelojInicial DEF IMarcos, ConMutex, Aparte, MarcoLibre, Seccion

(* With write faults served alone, marco_nuevo, algoritmo_remplazo and the    *)
(* counting pass of eliminar_proceso_tabla_de_paginas keep control_de_marcos  *)
(* true: a frame is available or of exactly one page, whatever else overlaps,  *)
(* until the removing pass makes available a frame taken since the count.    *)
THEOREM UnaPaginaPorMarcoSiempre ==
  ASSUME ~FallasSolapadas
  PROVE  Spec => []UnaPaginaPorMarco
<1>1. Init => IMarcos
  BY IMarcosInicial
<1>2. IMarcos /\ [Next]_vars => IMarcos'
  BY IMarcosPaso
<1>3. IMarcos => UnaPaginaPorMarco
  <2> SUFFICES ASSUME IMarcos, ~remarcado, NEW m \in Marcos
               PROVE  Cardinality(Duenios(m)) = IF disponible[m] THEN 0 ELSE 1
    BY DEF UnaPaginaPorMarco
  <2>1. \A x \in Duenios(m) : \E p \in Pids, g \in Paginas : x = <<p, g>> /\ De(p, g, m)
    <3> TAKE x \in Duenios(m)
    <3>1. CASE /\ x \in Pids \X Paginas
               /\ tabla[x[1]][x[2]].presencia /\ tabla[x[1]][x[2]].marco = m
               /\ ~Devuelta(x[1], x[2])
      <4>1. x[1] \in Pids /\ x[2] \in Paginas /\ x = <<x[1], x[2]>>
        BY <3>1
      <4> QED
        BY <3>1, <4>1 DEF De, EnTablaDe
    <3>2. CASE \E k \in CPUs : hilo[k].pc = "llena" /\ hilo[k].marco = m /\ x = Refe(k)
      <4>1. PICK k \in CPUs : hilo[k].pc = "llena" /\ hilo[k].marco = m /\ x = Refe(k)
        BY <3>2
      <4>2. hilo[k].pid \in Pids /\ hilo[k].pagina \in Paginas
        BY <4>1 DEF IMarcos, IReloj, IInv, HiloBien, HilosOK, Registros
      <4> QED
        BY <4>1, <4>2 DEF De, Tomado, Refe
    <3> QED
      BY <3>1, <3>2 DEF Duenios
  <2>2. \A p \in Pids, g \in Paginas : De(p, g, m) => <<p, g>> \in Duenios(m)
    <3> TAKE p \in Pids, g \in Paginas
    <3>1. EnTablaDe(p, g, m) => <<p, g>> \in Duenios(m)
      BY DEF EnTablaDe, Duenios
    <3>2. Tomado(p, g, m) => <<p, g>> \in Duenios(m)
      BY DEF Tomado, Duenios, Refe
    <3> QED
      BY <3>1, <3>2 DEF De
  <2>3. CASE disponible[m]
    <3>1. Duenios(m) = {}
      BY <2>1, <2>3 DEF IMarcos, MarcosBien
    <3> QED
      BY <2>3, <3>1, FS_EmptySet
  <2>4. CASE ~disponible[m]
    <3>1. PICK p \in Pids, g \in Paginas : De(p, g, m)
      BY <2>4 DEF IMarcos, MarcosBien
    <3>2. \A x \in Duenios(m) : x = <<p, g>>
      BY <2>1, <3>1 DEF IMarcos, MarcosBien
    <3>3. Duenios(m) = {<<p, g>>}
      BY <2>2, <3>1, <3>2
    <3>4. Cardinality({<<p, g>>}) = 1
      BY FS_Singleton
    <3> QED
      BY <2>4, <3>3, <3>4
  <2> QED
    BY <2>3, <2>4
<1> QED
  BY <1>1, <1>2, <1>3, PTL DEF Spec

-----------------------------------------------------------------------------
(* The bytes.                                                                *)

(* memoria, swap and version are arrays.                                     *)
Arreglos == /\ memoria = [m \in Marcos |-> memoria[m]]
            /\ swap = [p \in Pids |-> [g \in Paginas |-> swap[p][g]]]
            /\ version = [p \in Pids |-> [g \in Paginas |-> version[p][g]]]

(* A page that nobody marked as modified is in the SWAP as it is in memory,   *)
(* so algoritmo_remplazo may drop it.                                        *)
Limpia(p, g) == tabla[p][g].presencia /\ ~tabla[p][g].modificado =>
                  memoria[tabla[p][g].marco] = swap[p][g]

Bien(p, g) == Valor(p, g) = <<p, g, version[p][g]>>

(* A thread accesses a page that is present.                                 *)
AccedePresente(k) == hilo[k].pc = "accede" => Entrada(k).presencia

Vigentes == \A p \in Pids, g \in Paginas \ {0} :
              ~remarcado /\ proceso[p] \in {"nuevo", "vivo"} => Limpia(p, g) /\ Bien(p, g)

IValores == /\ IMarcos
            /\ Arreglos
            /\ \A k \in CPUs : AccedePresente(k)
            /\ Vigentes

(* A step that writes no bytes, takes no page out and cleans no mark.        *)
LEMMA SinEscribir ==
  ASSUME IValores, UNCHANGED <<memoria, swap, version>>, ~remarcado' => ~remarcado,
         \A p \in Pids : proceso'[p] \in {"nuevo", "vivo"} => proceso[p] \in {"nuevo", "vivo"},
         \A p \in Pids, g \in Paginas :
           /\ tabla'[p][g].presencia = tabla[p][g].presencia
           /\ tabla'[p][g].marco = tabla[p][g].marco
           /\ tabla[p][g].modificado => tabla'[p][g].modificado
  PROVE  Arreglos' /\ Vigentes'
<1>1. Arreglos'
  BY DEF IValores, Arreglos
<1>2. \A p \in Pids, g \in Paginas \ {0} :
        ~remarcado' /\ proceso'[p] \in {"nuevo", "vivo"} => Limpia(p, g)' /\ Bien(p, g)'
  BY DEF IValores, Vigentes, Limpia, Bien, Valor
<1> QED
  BY <1>1, <1>2 DEF Vigentes

(* What a step of thread k leaves of the others' entries.                    *)
LEMMA OtrosAcceden ==
  ASSUME IValores, NEW k \in CPUs,
         \A j \in CPUs \ {k} : hilo'[j] = hilo[j],
         \A p \in Pids : p # hilo[k].pid => tabla'[p] = tabla[p]
  PROVE  \A j \in CPUs \ {k} : AccedePresente(j)'
<1>1. \A j \in CPUs \ {k} : hilo[j].pc = "accede" => Entrada(j)' = Entrada(j)
  BY DEF IValores, IMarcos, IReloj, HiloBien, Distintos, Entrada
<1> QED
  BY <1>1 DEF IValores, AccedePresente

(* A step of thread k that changes no entry and no bytes.                    *)
LEMMA SoloElHilo ==
  ASSUME IValores, IMarcos', NEW k \in CPUs,
         \A j \in CPUs \ {k} : hilo'[j] = hilo[j],
         hilo'[k].pc # "accede",
         UNCHANGED <<tabla, proceso, memoria, swap, version, remarcado>>
  PROVE  IValores'
<1>1. Arreglos' /\ Vigentes'
  BY SinEscribir
<1>2. \A j \in CPUs : AccedePresente(j)'
  BY OtrosAcceden DEF AccedePresente
<1> QED
  BY <1>1, <1>2 DEF IValores

(* A step of the other threads of the UMC that writes no bytes.              *)
LEMMA SinHilo ==
  ASSUME IValores, IMarcos', UNCHANGED <<hilo, tabla, memoria, version>>,
         ~remarcado' => ~remarcado,
         \A p \in Pids : proceso'[p] \in {"nuevo", "vivo"} =>
           proceso[p] \in {"nuevo", "vivo"} /\ swap'[p] = swap[p],
         swap' = [p \in Pids |-> [g \in Paginas |-> swap'[p][g]]]
  PROVE  IValores'
<1>1. Arreglos'
  BY DEF IValores, Arreglos
<1>2. \A p \in Pids, g \in Paginas \ {0} :
        ~remarcado' /\ proceso'[p] \in {"nuevo", "vivo"} => Limpia(p, g)' /\ Bien(p, g)'
  BY DEF IValores, Vigentes, Limpia, Bien, Valor
<1>3. \A j \in CPUs : AccedePresente(j)'
  BY DEF IValores, AccedePresente, Entrada
<1> QED
  BY <1>1, <1>2, <1>3 DEF IValores, Vigentes

(* No other page that may be read is in the frame of such a page, nor in one  *)
(* that a thread has taken.                                                  *)
LEMMA OtroMarco ==
  ASSUME IMarcos, ~remarcado, NEW p \in Pids, NEW g \in Paginas, NEW m \in Marcos, De(p, g, m),
         NEW q \in Pids, NEW h \in Paginas, q # p \/ h # g, proceso[q] \in {"nuevo", "vivo"},
         tabla[q][h].presencia
  PROVE  tabla[q][h].marco \in Marcos \ {m}
<1>1. tabla[q][h].marco \in Marcos
  BY DEF IMarcos, IReloj, TablaOK, EntradasOK
<1>2. De(q, h, tabla[q][h].marco)
  BY DEF De, EnTablaDe, Devuelta
<1> QED
  BY <1>1, <1>2 DEF IMarcos, MarcosBien

LEMMA IValoresPaso ==
  ASSUME ~FallasSolapadas, IValores, [Next]_vars
  PROVE  IValores'
<1>0. IMarcos' /\ IMarcos /\ HilosOK /\ TablaOK
  BY IMarcosPaso DEF IValores, IMarcos, IReloj, IInv
<1>1. ASSUME NEW k \in CPUs, NEW p \in Pids, CambiarProceso(k, p), remarcado' = remarcado
      PROVE  IValores'
  <2>1. hilo'[k].pc = "espera" /\ \A j \in CPUs \ {k} : hilo'[j] = hilo[j]
    BY <1>0, <1>1 DEF CambiarProceso, EsDe, HilosOK, Registros
  <2> QED
    BY <1>0, <1>1, <2>1, SoloElHilo DEF CambiarProceso
<1>2. ASSUME NEW k \in CPUs, Deja(k), remarcado' = remarcado
      PROVE  IValores'
  <2>1. hilo'[k].pc = "espera" /\ \A j \in CPUs \ {k} : hilo'[j] = hilo[j]
    BY <1>0, <1>2 DEF Deja, HilosOK, Ocioso
  <2> QED
    BY <1>0, <1>2, <2>1, SoloElHilo DEF Deja
<1>3. ASSUME NEW k \in CPUs, NEW op \in {"leer", "escribir"}, NEW g \in Paginas, Pide(k, op, g), remarcado' = remarcado
      PROVE  IValores'
  <2> DEFINE r == [hilo[k] EXCEPT !.pc = "busca", !.op = op, !.pagina = g]
  <2>1. hilo' = [hilo EXCEPT ![k].pc = "busca", ![k].op = op, ![k].pagina = g]
    BY <1>3 DEF Pide
  <2>2. hilo' = [hilo EXCEPT ![k] = r]
    BY <1>0, <2>1 DEF HilosOK
  <2>3. r.pc = "busca"
    BY <1>0 DEF HilosOK, Registros
  <2> HIDE DEF r
  <2>4. hilo'[k].pc = "busca" /\ \A j \in CPUs \ {k} : hilo'[j] = hilo[j]
    BY <1>0, <2>2, <2>3 DEF HilosOK
  <2> QED
    BY <1>0, <1>3, <2>4, SoloElHilo DEF Pide
<1>4. ASSUME NEW k \in CPUs, Busca(k) \/ Acierto(k) \/ Fallo(k), remarcado' = remarcado
      PROVE  IValores'
  <2>1. PICK pc \in PCs : Pasa(k, pc) /\ (pc = "accede" => Entrada(k).presencia)
    BY <1>4 DEF Busca, Acierto, Fallo, Encontrada, PCs
  <2>2. UNCHANGED <<tabla, proceso, memoria, swap, version>>
    BY <1>4 DEF Busca, Acierto, Fallo
  <2>3. /\ hilo'[k].pc = pc /\ hilo'[k].pid = hilo[k].pid /\ hilo'[k].pagina = hilo[k].pagina
        /\ \A j \in CPUs \ {k} : hilo'[j] = hilo[j]
    BY <1>0, <2>1, PasaCampos
  <2>4. \A j \in CPUs \ {k} : AccedePresente(j)'
    BY <2>2, <2>3, OtrosAcceden
  <2>5. AccedePresente(k)'
    BY <2>1, <2>2, <2>3 DEF AccedePresente, Entrada
  <2>6. Arreglos' /\ Vigentes'
    BY <1>4, <2>2, SinEscribir
  <2> QED
    BY <1>0, <2>4, <2>5, <2>6 DEF IValores
<1>5. ASSUME NEW k \in CPUs, remarcado' = remarcado,
             TomaMarcos(k) \/ HayMarcos(k) \/ Revisa(k) \/ Asigna(k)
      PROVE  IValores'
  <2>1. PICK pc \in PCs : Pasa(k, pc) /\ pc # "accede"
    BY <1>5 DEF TomaMarcos, HayMarcos, Revisa, Asigna, PCs
  <2>2. hilo'[k].pc = pc /\ \A j \in CPUs \ {k} : hilo'[j] = hilo[j]
    BY <1>0, <2>1, PasaCampos
  <2> QED
    BY <1>0, <1>5, <2>1, <2>2, SoloElHilo DEF TomaMarcos, HayMarcos, Revisa, Asigna
<1>6. ASSUME NEW k \in CPUs, ReemplazaNulo(k), remarcado' = remarcado
      PROVE  IValores'
  BY <1>0, <1>6, SinHilo DEF ReemplazaNulo, IValores, Arreglos
<1>7. ASSUME NEW k \in CPUs, Elige(k), remarcado' = remarcado
      PROVE  IValores'
  <2> DEFINE m == IF Libres = {} THEN -1
                  ELSE CHOOSE x \in Libres : \A n \in Libres : x <= n
             r == [hilo[k] EXCEPT !.pc = "asigna", !.marco = m]
  <2>1. hilo' = [hilo EXCEPT ![k].pc = "asigna", ![k].marco = m]
    BY <1>7 DEF Elige
  <2> HIDE DEF m
  <2>2. hilo' = [hilo EXCEPT ![k] = r]
    BY <1>0, <2>1 DEF HilosOK
  <2>3. r.pc = "asigna"
    BY <1>0 DEF HilosOK, Registros
  <2> HIDE DEF r
  <2>4. hilo'[k].pc = "asigna" /\ \A j \in CPUs \ {k} : hilo'[j] = hilo[j]
    BY <1>0, <2>2, <2>3 DEF HilosOK
  <2> QED
    BY <1>0, <1>7, <2>4, SoloElHilo DEF Elige
<1>8. ASSUME NEW p \in Pids,
             \/ Inicializa(p) \/ FinalizaTLB(p) \/ TomaTabla(p) \/ EmpiezaAQuitar(p)
             \/ \E g \in Paginas : CuentaEntrada(p, g) \/ QuitaEntrada(p, g)
      PROVE  IValores'
  <2>1. \A q \in Pids : proceso'[q] \in {"nuevo", "vivo"} => proceso[q] \in {"nuevo", "vivo"}
    BY <1>0, <1>8 DEF Inicializa, FinalizaTLB, TomaTabla, EmpiezaAQuitar, CuentaEntrada, QuitaEntrada,
                      TablaOK
  <2>2. UNCHANGED <<hilo, tabla, memoria, swap, version>>
    BY <1>8 DEF Inicializa, FinalizaTLB, TomaTabla, EmpiezaAQuitar, CuentaEntrada, QuitaEntrada
  <2>3. ~remarcado' => ~remarcado
    BY <1>8 DEF Inicializa, FinalizaTLB, TomaTabla, EmpiezaAQuitar, CuentaEntrada, QuitaEntrada
  <2> QED
    BY <1>0, <2>1, <2>2, <2>3, SinHilo DEF IValores, Arreglos
<1>9. ASSUME NEW p \in Pids, FinalizaSwap(p)
      PROVE  IValores'
  <2> DEFINE nada == [g \in Paginas |-> BASURA]
  <2>1. /\ proceso' = [proceso EXCEPT ![p] = "sinSwap"]
        /\ swap' = [swap EXCEPT ![p] = nada]
        /\ UNCHANGED <<hilo, tabla, memoria, version, remarcado>>
    BY <1>9 DEF FinalizaSwap
  <2>2. nada = [g \in Paginas |-> nada[g]]
    OBVIOUS
  <2> HIDE DEF nada
  <2>3. swap = [q \in Pids |-> [g \in Paginas |-> swap[q][g]]]
    BY DEF IValores, Arreglos
  <2>4. /\ DOMAIN swap' = Pids /\ swap' = [q \in Pids |-> swap'[q]]
        /\ \A q \in Pids : swap'[q] = [g \in Paginas |-> swap'[q][g]]
    BY <2>1, <2>2, <2>3
  <2>5. swap' = [q \in Pids |-> [g \in Paginas |-> swap'[q][g]]]
    BY <2>4
  <2>6. \A q \in Pids : proceso'[q] \in {"nuevo", "vivo"} =>
          proceso[q] \in {"nuevo", "vivo"} /\ swap'[q] = swap[q]
    BY <1>0, <2>1, <2>3 DEF TablaOK
  <2> QED
    BY <1>0, <2>1, <2>5, <2>6, SinHilo
<1>10. ASSUME NEW p \in Pids, FinalizaTabla(p)
       PROVE  IValores'
  <2> DEFINE ceros == [g \in Paginas |-> 0]
             nada == [g \in Paginas |-> Nueva]
  <2>1. /\ proceso[p] = "quitando" /\ proceso' = [proceso EXCEPT ![p] = "terminado"]
        /\ tabla' = [tabla EXCEPT ![p] = nada]
        /\ version' = [version EXCEPT ![p] = ceros]
        /\ UNCHANGED <<hilo, memoria, swap, remarcado>>
    BY <1>10 DEF FinalizaTabla
  <2>2. ceros = [g \in Paginas |-> ceros[g]]
    OBVIOUS
  <2> HIDE DEF ceros, nada
  <2>3. version = [q \in Pids |-> [g \in Paginas |-> version[q][g]]]
    BY DEF IValores, Arreglos
  <2>4. /\ DOMAIN version' = Pids /\ version' = [q \in Pids |-> version'[q]]
        /\ \A q \in Pids : version'[q] = [g \in Paginas |-> version'[q][g]]
    BY <2>1, <2>2, <2>3
  <2>5. version' = [q \in Pids |-> [g \in Paginas |-> version'[q][g]]]
    BY <2>4
  <2>6. Arreglos'
    BY <2>1, <2>5 DEF IValores, Arreglos
  <2>7. \A q \in Pids : proceso'[q] \in {"nuevo", "vivo"} =>
          /\ proceso[q] \in {"nuevo", "vivo"}
          /\ tabla'[q] = tabla[q] /\ version'[q] = version[q]
    BY <1>0, <2>1, <2>3 DEF TablaOK
  <2>8. \A q \in Pids, g \in Paginas \ {0} :
          ~remarcado' /\ proceso'[q] \in {"nuevo", "vivo"} => Limpia(q, g)' /\ Bien(q, g)'
    BY <2>1, <2>7 DEF IValores, Vigentes, Limpia, Bien, Valor
  <2>9. \A k \in CPUs : AccedePresente(k)'
    <3>1. \A k \in CPUs : hilo[k].pc = "accede" => hilo[k].pid \in Pids /\ hilo[k].pid # p
      BY <1>0, <2>1 DEF IMarcos, IReloj, HiloBien
    <3>2. \A k \in CPUs : hilo[k].pc = "accede" => Entrada(k)' = Entrada(k)
      BY <1>0, <2>1, <3>1 DEF Entrada, TablaOK
    <3> QED
      BY <2>1, <3>2 DEF IValores, AccedePresente
  <2> QED
    BY <1>0, <2>6, <2>8, <2>9 DEF IValores, Vigentes
<1>11. ASSUME NEW p \in Pids, FlushMemory(p)
       PROVE  IValores'
  <2>1. /\ UNCHANGED <<hilo, proceso, memoria, swap, version, remarcado>>
        /\ tabla' = [tabla EXCEPT ![p] =
                       [g \in Paginas |-> [tabla[p][g] EXCEPT !.modificado = TRUE]]]
    BY <1>11 DEF FlushMemory
  <2>2. \A g \in Paginas : tabla[p][g] \in Registro
    BY <1>0 DEF TablaOK
  <2>3. \A g \in Paginas : /\ [tabla[p][g] EXCEPT !.modificado = TRUE].marco = tabla[p][g].marco
                           /\ [tabla[p][g] EXCEPT !.modificado = TRUE].presencia
                                = tabla[p][g].presencia
                           /\ [tabla[p][g] EXCEPT !.modificado = TRUE].modificado
    BY <2>2 DEF Registro
  <2>4. \A q \in Pids, g \in Paginas : /\ tabla'[q][g].marco = tabla[q][g].marco
                                       /\ tabla'[q][g].presencia = tabla[q][g].presencia
                                       /\ tabla[q][g].modificado => tabla'[q][g].modificado
    BY <1>0, <2>1, <2>3 DEF TablaOK
  <2>5. Arreglos' /\ Vigentes'
    BY <2>1, <2>4, SinEscribir
  <2>6. \A k \in CPUs : AccedePresente(k)'
    <3>1. \A k \in CPUs : hilo[k].pc = "accede" => hilo[k].pid \in Pids /\ hilo[k].pagina \in Paginas
      BY <1>0 DEF IMarcos, IReloj, HiloBien, HilosOK, Registros
    <3> QED
      BY <2>1, <2>4, <3>1 DEF IValores, AccedePresente, Entrada
  <2> QED
    BY <1>0, <2>5, <2>6 DEF IValores
<1>12. ASSUME FlushTLB \/ UNCHANGED vars
       PROVE  IValores'
  BY <1>0, <1>12, SinHilo DEF FlushTLB, vars, IValores, Arreglos
<1>13. ASSUME NEW k \in CPUs, Llena(k), remarcado' = remarcado
       PROVE  IValores'
  <2> DEFINE p == hilo[k].pid
             g == hilo[k].pagina
             m == hilo[k].marco
             b == Entrada(k).puntero \/ Tiene(p) = {}
             x == [tabla[p][g] EXCEPT !.presencia = TRUE, !.marco = m, !.puntero = b]
             n == -1
  <2>1. /\ ~caida /\ hilo[k].pc = "llena"
        /\ memoria' = [memoria EXCEPT ![m] = swap[p][g]]
        /\ UNCHANGED <<proceso, swap, version>>
        /\ hilo' = [hilo EXCEPT ![k].pc = "accede", ![k].marco = n]
    BY <1>13 DEF Llena, EsDe
  <2>2. tabla' = [tabla EXCEPT ![p][g] = x]
    BY <1>13 DEF Llena
  <2>3. /\ p \in Pids /\ g \in Paginas /\ m \in Marcos /\ ~tabla[p][g].presencia
        /\ De(p, g, m)
    BY <1>0, <2>1 DEF IMarcos, IReloj, HiloBien, HilosOK, Registros, Falta, Entrada, De, Tomado
  <2>4. /\ hilo'[k].pid = p /\ hilo'[k].pagina = g
        /\ \A j \in CPUs \ {k} : hilo'[j] = hilo[j]
    <3> HIDE DEF n
    <3> QED
      BY <1>0, <2>1 DEF HilosOK, Registros
  <2>5. b \in BOOLEAN
    BY DEF Entrada
  <2> HIDE DEF b
  <2>6. x.presencia /\ x.marco = m
    BY <1>0, <2>3, <2>5 DEF TablaOK, Registro
  <2> HIDE DEF x
  <2>7. /\ tabla'[p][g] = x
        /\ \A q \in Pids, h \in Paginas : (q # p \/ h # g) => tabla'[q][h] = tabla[q][h]
        /\ \A q \in Pids : q # p => tabla'[q] = tabla[q]
    BY <1>0, <2>2, <2>3 DEF TablaOK
  <2>8. /\ memoria'[m] = swap[p][g]
        /\ \A i \in Marcos : i # m => memoria'[i] = memoria[i]
        /\ memoria' = [i \in Marcos |-> memoria'[i]]
    BY <2>1, <2>3 DEF IValores, Arreglos
  <2>9. Arreglos'
    BY <2>1, <2>8 DEF IValores, Arreglos
  <2>10. \A q \in Pids, h \in Paginas :
           /\ ~remarcado /\ proceso[q] \in {"nuevo", "vivo"}
           /\ q # p \/ h # g
           /\ tabla[q][h].presencia
           => tabla[q][h].marco \in Marcos \ {m}
    <3> HIDE DEF p, g, m
    <3> QED
      BY <1>0, <2>3, OtroMarco
  <2>11. \A q \in Pids, h \in Paginas \ {0} :
           ~remarcado' /\ proceso'[q] \in {"nuevo", "vivo"} => Limpia(q, h)' /\ Bien(q, h)'
    <3> TAKE q \in Pids, h \in Paginas \ {0}
    <3> HAVE ~remarcado' /\ proceso'[q] \in {"nuevo", "vivo"}
    <3>0. ~remarcado /\ proceso[q] \in {"nuevo", "vivo"}
      BY <1>13, <2>1
    <3>1. Limpia(q, h) /\ Bien(q, h)
      BY <3>0 DEF IValores, Vigentes
    <3>2. CASE q = p /\ h = g
      BY <2>1, <2>3, <2>6, <2>7, <2>8, <3>1, <3>2 DEF Limpia, Bien, Valor
    <3>3. CASE q # p \/ h # g
      BY <2>1, <2>7, <2>8, <2>10, <3>0, <3>1, <3>3 DEF Limpia, Bien, Valor
    <3> QED
      BY <3>2, <3>3
  <2>12. AccedePresente(k)'
    BY <2>4, <2>6, <2>7 DEF AccedePresente, Entrada
  <2>13. \A j \in CPUs \ {k} : AccedePresente(j)'
    BY <2>4, <2>7, OtrosAcceden
  <2> QED
    BY <1>0, <2>9, <2>11, <2>12, <2>13 DEF IValores, Vigentes
<1>14. ASSUME NEW k \in CPUs, Reemplaza(k), remarcado' = remarcado
       PROVE  IValores'
  <2> DEFINE p == hilo[k].pid
             g == hilo[k].pagina
             e == tabla[p]
             r == Reemplazo(e, g)
  <2>1. /\ ~caida /\ hilo[k].pc = "reemplaza" /\ Presentes(e) # {}
        /\ tabla' = [tabla EXCEPT ![p] = r]
        /\ Pasa(k, "accede") /\ UNCHANGED <<proceso, version>>
    BY <1>14 DEF Reemplaza, EsDe
  <2>2. p \in Pids /\ g \in Paginas /\ proceso[p] = "vivo"
    BY <1>0, <2>1 DEF IMarcos, IReloj, HiloBien, HilosOK, Registros
  <2>3. g \notin Presentes(e) /\ ~tabla[p][g].presencia
    BY <1>0, <2>1, <2>2 DEF IMarcos, IReloj, HiloBien, Falta, Entrada, Presentes
  <2>4. EntradasOK(e) /\ Reloj(e)
    BY <1>0, <2>2 DEF IMarcos, IReloj, RelojBien, TablaOK
  <2>5. \E v \in Presentes(e) :
          /\ v = Victima(e).pagina
          /\ r[g].presencia /\ r[g].marco = e[v].marco /\ ~r[v].presencia
          /\ \A h \in Paginas \ {g, v} : /\ r[h].presencia = e[h].presencia
                                         /\ r[h].marco = e[h].marco
                                         /\ r[h].modificado = e[h].modificado
    <3> HIDE DEF e, g
    <3>1. PICK v \in Presentes(e) : \E np \in (Presentes(e) \ {v}) \cup {g} :
            /\ v = Victima(e).pagina
            /\ r[g].presencia /\ r[g].marco = e[v].marco /\ ~r[v].presencia
            /\ \A h \in Paginas \ {g, v} : /\ r[h].presencia = e[h].presencia
                                           /\ r[h].marco = e[h].marco
                                           /\ r[h].modificado = e[h].modificado
      BY <2>1, <2>2, <2>3, <2>4, ReemplazoHace
    <3> QED
      BY <3>1
  <2>6. PICK v \in Presentes(e) :
          /\ v = Victima(e).pagina
          /\ r[g].presencia /\ r[g].marco = e[v].marco /\ ~r[v].presencia
          /\ \A h \in Paginas \ {g, v} : /\ r[h].presencia = e[h].presencia
                                         /\ r[h].marco = e[h].marco
                                         /\ r[h].modificado = e[h].modificado
    BY <2>5
  <2> DEFINE m == e[v].marco
  <2>7. /\ swap' = IF e[v].modificado THEN [swap EXCEPT ![p][v] = Guardado(v, memoria[m])] ELSE swap
        /\ memoria' = [memoria EXCEPT ![m] = swap[p][g]]
    BY <1>14, <2>6 DEF Reemplaza
  <2>8. v \in Paginas /\ v # g /\ e[v].presencia /\ m \in Marcos
    BY <2>3, <2>4, <2>6 DEF Presentes, EntradasOK
  <2> HIDE DEF r
  <2>9. /\ tabla'[p] = r /\ \A q \in Pids : q # p => tabla'[q] = tabla[q]
    BY <1>0, <2>1, <2>2 DEF TablaOK
  <2>10. /\ memoria'[m] = swap[p][g]
         /\ \A i \in Marcos : i # m => memoria'[i] = memoria[i]
         /\ memoria' = [i \in Marcos |-> memoria'[i]]
    BY <2>7, <2>8 DEF IValores, Arreglos
  <2>11. /\ swap' = [q \in Pids |-> [h \in Paginas |-> swap'[q][h]]]
         /\ \A q \in Pids, h \in Paginas : (q # p \/ h # v) => swap'[q][h] = swap[q][h]
         /\ swap'[p][v] = IF e[v].modificado THEN Guardado(v, memoria[m]) ELSE swap[p][v]
    <3>1. swap = [q \in Pids |-> [h \in Paginas |-> swap[q][h]]]
      BY DEF IValores, Arreglos
    <3>2. CASE ~e[v].modificado
      BY <2>7, <3>1, <3>2
    <3>3. CASE e[v].modificado
      <4> DEFINE c == Guardado(v, memoria[m])
      <4>1. swap' = [swap EXCEPT ![p][v] = c]
        BY <2>7, <3>3
      <4> HIDE DEF c, m
      <4>2. swap' = [q \in Pids |-> [h \in Paginas |-> IF q = p /\ h = v THEN c ELSE swap[q][h]]]
        BY <2>2, <2>8, <3>1, <4>1
      <4>3. /\ swap' = [q \in Pids |-> [h \in Paginas |-> swap'[q][h]]]
            /\ \A q \in Pids, h \in Paginas : (q # p \/ h # v) => swap'[q][h] = swap[q][h]
            /\ swap'[p][v] = c
        BY <2>2, <2>8, <4>2
      <4> QED
        BY <3>3, <4>3 DEF c
    <3> QED
      BY <3>2, <3>3
  <2>12. Arreglos'
    BY <2>1, <2>10, <2>11 DEF IValores, Arreglos
  <2>18. De(p, v, m)
    BY <2>2, <2>8 DEF De, EnTablaDe, Devuelta
  <2>13. \A q \in Pids, h \in Paginas :
           /\ ~remarcado /\ proceso[q] \in {"nuevo", "vivo"}
           /\ q # p \/ h # v
           /\ tabla[q][h].presencia
           => tabla[q][h].marco \in Marcos \ {m}
    <3> HIDE DEF p, m
    <3> QED
      BY <1>0, <2>2, <2>8, <2>18, OtroMarco
  <2>14. \A q \in Pids, h \in Paginas \ {0} :
           ~remarcado' /\ proceso'[q] \in {"nuevo", "vivo"} => Limpia(q, h)' /\ Bien(q, h)'
    <3> TAKE q \in Pids, h \in Paginas \ {0}
    <3> HAVE ~remarcado' /\ proceso'[q] \in {"nuevo", "vivo"}
    <3>0. ~remarcado /\ proceso[q] \in {"nuevo", "vivo"}
      BY <1>14, <2>1
    <3>1. Limpia(q, h) /\ Bien(q, h)
      BY <3>0 DEF IValores, Vigentes
    <3>2. CASE q = p /\ h = g
      <4>1. swap'[p][g] = swap[p][g]
        BY <2>2, <2>8, <2>11
      <4>2. tabla'[p][g].presencia /\ tabla'[p][g].marco = m
        BY <2>6, <2>9
      <4>3. swap[p][g] = <<p, g, version[p][g]>>
        BY <2>3, <3>1, <3>2 DEF Bien, Valor
      <4> QED
        BY <2>1, <2>10, <3>2, <4>1, <4>2, <4>3 DEF Limpia, Bien, Valor
    <3>3. CASE q = p /\ h = v
      <4>1. ~tabla'[p][v].presencia
        BY <2>6, <2>9
      <4>2. memoria[m] = <<p, v, version[p][v]>>
        BY <2>8, <3>1, <3>3 DEF Bien, Valor
      <4>3. swap'[p][v] = memoria[m]
        BY <2>8, <2>11, <3>1, <3>3 DEF Limpia, Guardado
      <4> QED
        BY <2>1, <3>3, <4>1, <4>2, <4>3 DEF Limpia, Bien, Valor
    <3>4. CASE q = p /\ h # g /\ h # v
      <4>1. /\ tabla'[p][h].presencia = tabla[p][h].presencia
            /\ tabla'[p][h].marco = tabla[p][h].marco
            /\ tabla'[p][h].modificado = tabla[p][h].modificado
        BY <2>6, <2>9, <3>4
      <4>2. swap'[p][h] = swap[p][h]
        BY <2>2, <2>11, <3>4
      <4>3. tabla[p][h].presencia => memoria'[tabla[p][h].marco] = memoria[tabla[p][h].marco]
        BY <2>2, <2>10, <2>13, <3>0, <3>4
      <4> QED
        BY <2>1, <3>1, <3>4, <4>1, <4>2, <4>3 DEF Limpia, Bien, Valor
    <3>5. CASE q # p
      <4>1. tabla'[q] = tabla[q] /\ swap'[q][h] = swap[q][h]
        BY <2>9, <2>11, <3>5
      <4>2. tabla[q][h].presencia => memoria'[tabla[q][h].marco] = memoria[tabla[q][h].marco]
        BY <2>10, <2>13, <3>0, <3>5
      <4> QED
        BY <2>1, <3>1, <4>1, <4>2 DEF Limpia, Bien, Valor
    <3> QED
      BY <3>2, <3>3, <3>4, <3>5
  <2>15. /\ hilo'[k].pc = "accede" /\ hilo'[k].pid = p /\ hilo'[k].pagina = g
         /\ \A j \in CPUs \ {k} : hilo'[j] = hilo[j]
    BY <1>0, <2>1, PasaCampos DEF PCs
  <2>16. AccedePresente(k)'
    BY <2>6, <2>9, <2>15 DEF AccedePresente, Entrada
  <2>17. \A j \in CPUs \ {k} : AccedePresente(j)'
    BY <2>9, <2>15, OtrosAcceden
  <2> QED
    BY <1>0, <2>12, <2>14, <2>16, <2>17 DEF IValores, Vigentes
<1>15. ASSUME NEW k \in CPUs, Accede(k), remarcado' = remarcado
       PROVE  IValores'
  <2> DEFINE p == hilo[k].pid
             g == hilo[k].pagina
             e == tabla[p]
             m == Entrada(k).marco
             nueva == 1 - version[p][g]
  <2>1. /\ hilo[k].pc = "accede" /\ UNCHANGED <<proceso, swap>>
        /\ hilo' = [hilo EXCEPT ![k] = [Ocioso EXCEPT !.pid = p]]
    BY <1>15 DEF Accede, EsDe
  <2>2. p \in Pids /\ g \in Paginas /\ Entrada(k) = tabla[p][g] /\ tabla[p][g].presencia
    BY <1>0, <2>1 DEF IMarcos, IReloj, HiloBien, HilosOK, Registros, IValores, AccedePresente, Entrada
  <2>3. hilo'[k].pc = "espera" /\ \A j \in CPUs \ {k} : hilo'[j] = hilo[j]
    BY <1>0, <2>1 DEF HilosOK, Ocioso
  <2>4. e \in [Paginas -> Registro] /\ e[g] \in Registro /\ m \in Marcos
    BY <1>0, <2>2 DEF TablaOK, EntradasOK
  <2>5. CASE /\ tabla' = [tabla EXCEPT ![p][g].uso = TRUE]
             /\ UNCHANGED <<memoria, version>>
    <3>1. \A q \in Pids, h \in Paginas :
            /\ tabla'[q][h].presencia = tabla[q][h].presencia
            /\ tabla'[q][h].marco = tabla[q][h].marco
            /\ tabla[q][h].modificado => tabla'[q][h].modificado
      <4> DEFINE x == [e[g] EXCEPT !.uso = TRUE]
      <4>1. tabla' = [tabla EXCEPT ![p][g] = x]
        BY <1>0, <2>2, <2>5 DEF TablaOK
      <4>2. x.marco = e[g].marco /\ x.presencia = e[g].presencia /\ x.modificado = e[g].modificado
        BY <2>4 DEF Registro
      <4> HIDE DEF x
      <4> QED
        BY <1>0, <2>2, <4>1, <4>2 DEF TablaOK
    <3>2. \A q \in Pids : q # p => tabla'[q] = tabla[q]
      BY <1>0, <2>2, <2>5 DEF TablaOK
    <3>3. Arreglos' /\ Vigentes'
      BY <1>15, <2>1, <2>5, <3>1, SinEscribir
    <3>4. \A j \in CPUs : AccedePresente(j)'
      BY <2>3, <3>2, OtrosAcceden DEF AccedePresente
    <3> QED
      BY <1>0, <3>3, <3>4 DEF IValores
  <2>6. CASE /\ memoria' = [memoria EXCEPT ![m] = <<p, g, nueva>>]
             /\ version' = [version EXCEPT ![p][g] = nueva]
             /\ tabla' = [tabla EXCEPT ![p][g].uso = TRUE, ![p][g].modificado = TRUE]
    <3> DEFINE x == [e[g] EXCEPT !.uso = TRUE, !.modificado = TRUE]
    <3>1. tabla' = [tabla EXCEPT ![p][g] = x]
      BY <1>0, <2>2, <2>6 DEF TablaOK
    <3>2. x.marco = m /\ x.presencia /\ x.modificado
      BY <2>2, <2>4 DEF Registro
    <3> HIDE DEF x, nueva, m
    <3>3. /\ tabla'[p][g] = x
          /\ \A q \in Pids, h \in Paginas : (q # p \/ h # g) => tabla'[q][h] = tabla[q][h]
          /\ \A q \in Pids : q # p => tabla'[q] = tabla[q]
      BY <1>0, <2>2, <3>1 DEF TablaOK
    <3>4. /\ memoria'[m] = <<p, g, nueva>>
          /\ \A i \in Marcos : i # m => memoria'[i] = memoria[i]
          /\ memoria' = [i \in Marcos |-> memoria'[i]]
      BY <2>4, <2>6 DEF IValores, Arreglos
    <3>5. version = [q \in Pids |-> [h \in Paginas |-> version[q][h]]]
      BY DEF IValores, Arreglos
    <3>6. version' = [q \in Pids |-> [h \in Paginas |->
                       IF q = p /\ h = g THEN nueva ELSE version[q][h]]]
      BY <2>2, <2>6, <3>5
    <3>7. Arreglos'
      BY <2>1, <3>4, <3>6 DEF IValores, Arreglos
    <3>11. De(p, g, m)
      <4>1. proceso[p] = "vivo"
        BY <1>0, <2>2 DEF IMarcos, IReloj, HiloBien
      <4> QED
        BY <2>2, <4>1 DEF De, EnTablaDe, Devuelta, m
    <3>8. \A q \in Pids, h \in Paginas :
            /\ ~remarcado /\ proceso[q] \in {"nuevo", "vivo"}
            /\ q # p \/ h # g
            /\ tabla[q][h].presencia
            => tabla[q][h].marco \in Marcos \ {m}
      <4> HIDE DEF p, g
      <4> QED
        BY <1>0, <2>2, <2>4, <3>11, OtroMarco
    <3>9. \A q \in Pids, h \in Paginas \ {0} :
            ~remarcado' /\ proceso'[q] \in {"nuevo", "vivo"} => Limpia(q, h)' /\ Bien(q, h)'
      <4> TAKE q \in Pids, h \in Paginas \ {0}
      <4> HAVE ~remarcado' /\ proceso'[q] \in {"nuevo", "vivo"}
      <4>0. ~remarcado /\ proceso[q] \in {"nuevo", "vivo"}
        BY <1>15, <2>1
      <4>1. Limpia(q, h) /\ Bien(q, h)
        BY <4>0 DEF IValores, Vigentes
      <4>2. CASE q = p /\ h = g
        BY <2>2, <3>2, <3>3, <3>4, <3>6, <4>2 DEF Limpia, Bien, Valor
      <4>3. CASE q # p \/ h # g
        <5>1. version'[q][h] = version[q][h] /\ tabla'[q][h] = tabla[q][h]
          BY <3>3, <3>6, <4>3
        <5>2. tabla[q][h].presencia => memoria'[tabla[q][h].marco] = memoria[tabla[q][h].marco]
          BY <3>4, <3>8, <4>0, <4>3
        <5> QED
          BY <2>1, <4>1, <5>1, <5>2 DEF Limpia, Bien, Valor
      <4> QED
        BY <4>2, <4>3
    <3>10. \A j \in CPUs : AccedePresente(j)'
      BY <2>3, <3>3, OtrosAcceden DEF AccedePresente
    <3> QED
      BY <1>0, <3>7, <3>9, <3>10 DEF IValores, Vigentes
  <2> QED
    BY <1>15, <2>5, <2>6 DEF Accede
<1>16. ASSUME NEW k \in CPUs, HiloCPU(k)
       PROVE  IValores'
  <2>0. remarcado' = remarcado
    BY <1>16 DEF HiloCPU
  <2>1. ASSUME NEW g \in Paginas, Pide(k, "leer", g) \/ Pide(k, "escribir", g)
        PROVE  IValores'
    BY <2>0, <2>1, <1>3
  <2> QED
    BY <1>16, <2>0, <2>1, <1>1, <1>2, <1>4, <1>5, <1>6, <1>7, <1>13, <1>14, <1>15
       DEF HiloCPU, PasoDeCPU
<1>17. ASSUME NEW p \in Pids, HiloNucleo(p) \/ FlushMemory(p)
       PROVE  IValores'
  BY <1>17, <1>8, <1>9, <1>10, <1>11 DEF HiloNucleo
<1> QED
  BY <1>12, <1>16, <1>17 DEF Next, Hilos

LEMMA IValoresInicial == Init => IValores
<1> SUFFICES ASSUME Init PROVE IValores
  OBVIOUS
<1>1. /\ \A k \in CPUs : hilo[k].pc = "espera"
      /\ \A p \in Pids, g \in Paginas : ~tabla[p][g].presencia
      /\ \A p \in Pids, g \in Paginas : swap[p][g] = <<p, g, 0>> /\ version[p][g] = 0
  BY DEF Init, Ocioso, Nueva, Codigo
<1>2. Arreglos
  BY DEF Init, Arreglos, Codigo
<1>3. Vigentes
  BY <1>1 DEF Vigentes, Limpia, Bien, Valor
<1> QED
  BY <1>1, <1>2, <1>3, IMarcosInicial DEF IValores, AccedePresente

(* With write faults served alone, what escribir_una_pagina wrote to a page is *)
(* what leer_una_pagina returns, however often algoritmo_remplazo took the     *)
(* page out and brought it back, whatever the other processes, their ends and  *)
(* the operator's flushes do meanwhile, until the removing pass of an end      *)
(* makes available a frame that was taken since the count.                    *)
THEOREM NadaSePierdeSiempre ==
  ASSUME ~FallasSolapadas
  PROVE  Spec => []NadaSePierde
<1>1. Init => IValores
  BY IValoresInicial
<1>2. IValores /\ [Next]_vars => IValores'
  BY IValoresPaso
<1>3. IValores => NadaSePierde
  BY DEF IValores, Vigentes, Bien, NadaSePierde
<1> QED
  BY <1>1, <1>2, <1>3, PTL DEF Spec
=============================================================================
