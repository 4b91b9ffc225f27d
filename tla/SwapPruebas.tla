---------------------------- MODULE SwapPruebas ----------------------------
(***************************************************************************)
(* Theorems about Swap for any number of processes and pages.  The pages   *)
(* of a process are together whenever a request is taken (Contiguos).      *)
(* That is not inductive: while the file is compacted a process may be     *)
(* split in two by the hole.  What holds all the time is that nobody       *)
(* else's page comes between two of its own (SinIntrusos).  Second part:   *)
(* Swap implements Almacen.                                                *)
(***************************************************************************)
EXTENDS SwapRefina, Minimos, FiniteSetTheorems, TLAPS

SinIntrusos ==
  \A i, j, m \in Paginas : /\ i < j /\ j < m
                           /\ Duenio(i) = Duenio(m)
                           /\ Duenio(i) # NADIE
                           => Duenio(j) \in {Duenio(i), NADIE}

\* The process being admitted has no pages yet.
PedidoNuevo == pedido # NADIE => PaginasDe(pedido.pid) = {}

IInv == TypeOK /\ SinIntrusos /\ Contiguos /\ PedidoNuevo

-----------------------------------------------------------------------------
(* Facts about sets of pages.                                               *)

\* A set of numbers with an element has a least one, and Minimo is that one.
LEMMA MinimoExiste ==
  ASSUME NEW S \in SUBSET Nat, S # {}
  PROVE  Minimo(S) \in S /\ \A j \in S : Minimo(S) <= j
<1>1. \E x \in S : \A j \in S : x <= j
  BY MenorExiste
<1> QED
  BY <1>1 DEF Minimo

\* A bounded one has a greatest element too.
LEMMA MaximoExiste ==
  ASSUME NEW S \in SUBSET Nat, S # {}, NEW n \in Nat, \A i \in S : i <= n
  PROVE  \E x \in S : \A i \in S : i <= x
<1> DEFINE T == {c \in Nat : \A i \in S : i <= c}
<1>1. T \in SUBSET Nat /\ n \in T
  OBVIOUS
<1>2. Minimo(T) \in T /\ \A c \in T : Minimo(T) <= c
  BY <1>1, MinimoExiste
<1>3. ASSUME \A x \in S : x < Minimo(T)
      PROVE  FALSE
  <2>1. PICK x \in S : TRUE
    OBVIOUS
  <2>2. Minimo(T) - 1 \in T
    BY <1>2, <1>3, <2>1
  <2> QED
    BY <1>2, <2>2
<1>4. PICK x \in S : ~ (x < Minimo(T))
  BY <1>3
<1>5. \A i \in S : i <= x
  BY <1>2, <1>4
<1> QED
  BY <1>5

\* A free page before an occupied one: there is a border between them, an
\* occupied page whose predecessor is free.
LEMMA HayBorde ==
  ASSUME TypeOK, NEW j \in Paginas, NEW m \in Paginas, j < m,
         ~paginasSWAP[j].ocupada, paginasSWAP[m].ocupada
  PROVE  \E i \in Paginas : /\ j < i /\ i <= m
                            /\ ~paginasSWAP[i - 1].ocupada
                            /\ paginasSWAP[i].ocupada
<1> DEFINE O == {i \in Paginas : j < i /\ i <= m /\ paginasSWAP[i].ocupada}
           i0 == Minimo(O)
<1>1. O \in SUBSET Nat /\ m \in O
  BY DEF Paginas
<1>2. i0 \in O /\ \A i \in O : i0 <= i
  BY <1>1, MinimoExiste
<1> HIDE DEF i0
<1>3. i0 - 1 \in Paginas /\ i0 - 1 \notin O
  BY <1>2, PaginasAssumption DEF Paginas
<1>4. ~paginasSWAP[i0 - 1].ocupada
  <2>1. CASE i0 - 1 = j
    BY <2>1
  <2>2. CASE i0 - 1 # j
    BY <1>2, <1>3, <2>2 DEF Paginas
  <2> QED
    BY <2>1, <2>2
<1> QED
  BY <1>2, <1>4

\* The page that compaction moves and the one it moves it to: all the pages
\* before the second are occupied, all those between them are free.
LEMMA LugaresDeMueve ==
  ASSUME TypeOK, primerPaginaOcupadaLuegoDeUnaLibre # -1
  PROVE  LET l == ultimaPagLibre
             o == primerPaginaOcupadaLuegoDeUnaLibre
         IN  /\ l \in Paginas /\ o \in Paginas /\ l < o
             /\ paginasSWAP[o].ocupada
             /\ \A i \in Paginas : i < l => paginasSWAP[i].ocupada
             /\ \A i \in Paginas : l <= i /\ i < o => ~paginasSWAP[i].ocupada
<1> DEFINE l == ultimaPagLibre
           o == primerPaginaOcupadaLuegoDeUnaLibre
           B == {i \in Paginas : /\ i # 0
                                 /\ ~paginasSWAP[i - 1].ocupada
                                 /\ paginasSWAP[i].ocupada}
           L == {i \in Paginas : ~paginasSWAP[i].ocupada}
<1>1. B # {} /\ o = Minimo(B)
  BY DEF primerPaginaOcupadaLuegoDeUnaLibre
<1>2. B \in SUBSET Nat /\ L \in SUBSET Nat
  BY DEF Paginas
<1>3. o \in B /\ \A i \in B : o <= i
  BY <1>1, <1>2, MinimoExiste
<1>4. o - 1 \in L
  <2> HIDE DEF o
  <2> QED
    BY <1>3, PaginasAssumption DEF Paginas
<1>5. l = Minimo(L)
  BY <1>4 DEF ultimaPagLibre
<1>6. l \in L /\ \A i \in L : l <= i
  BY <1>2, <1>4, <1>5, MinimoExiste
<1> HIDE DEF l, o
<1>7. l < o
  BY <1>3, <1>4, <1>6 DEF Paginas
<1>8. ASSUME NEW i \in Paginas, i < l
      PROVE  paginasSWAP[i].ocupada
  BY <1>6, <1>8 DEF Paginas, TypeOK
<1>9. ASSUME NEW i \in Paginas, l <= i, i < o, paginasSWAP[i].ocupada
      PROVE  FALSE
  <2>1. l \in Paginas /\ ~paginasSWAP[l].ocupada /\ l < i
    BY <1>6, <1>9 DEF Paginas
  <2>2. PICK b \in Paginas : /\ l < b /\ b <= i
                             /\ ~paginasSWAP[b - 1].ocupada
                             /\ paginasSWAP[b].ocupada
    BY <1>9, <2>1, HayBorde
  <2>3. b \in B
    BY <2>1, <2>2 DEF Paginas
  <2> QED
    BY <1>3, <1>9, <2>2, <2>3 DEF Paginas
<1>10. \A i \in Paginas : l <= i /\ i < o => ~paginasSWAP[i].ocupada
  BY <1>9
<1>11. \A i \in Paginas : i < l => paginasSWAP[i].ocupada
  BY <1>8
<1>12. l \in Paginas /\ o \in Paginas /\ paginasSWAP[o].ocupada
  BY <1>3, <1>6
<1> QED
  BY <1>7, <1>10, <1>11, <1>12 DEF l, o

\* The pages of a process that are together are an interval, the one that
\* liberarProceso frees.
LEMMA PaginasSonIntervalo ==
  ASSUME TypeOK, Contiguos, pedido = NADIE, NEW p \in Pids
  PROVE  LET desde == getPrimerPagProc(p)
         IN  /\ desde \in Int
             /\ PaginasDe(p) = desde .. desde + Cardinality(PaginasDe(p)) - 1
<1> DEFINE S == PaginasDe(p)
           desde == getPrimerPagProc(p)
<1>1. S \in SUBSET Nat /\ (\A i \in S : i <= CANTIDAD_PAGINAS) /\ S \subseteq Paginas
  BY PaginasAssumption DEF Paginas, PaginasDe
<1>2. CASE S = {}
  <2>1. Cardinality(S) = 0
    BY <1>2, FS_EmptySet
  <2>2. desde = -1
    BY <1>2 DEF getPrimerPagProc
  <2> HIDE DEF desde, S
  <2>3. desde \in Int /\ desde .. desde + Cardinality(S) - 1 = {}
    BY <2>1, <2>2
  <2> QED
    BY <1>2, <2>3 DEF desde, S
<1>3. CASE S # {}
  <2>1. desde \in S /\ \A i \in S : desde <= i
    BY <1>1, <1>3, MinimoExiste DEF getPrimerPagProc
  <2>2. PICK m \in S : \A i \in S : i <= m
    BY <1>1, <1>3, MaximoExiste, PaginasAssumption
  <2>3. desde \in Nat /\ m \in Nat /\ desde <= m
    BY <1>1, <2>1, <2>2
  <2>4. ASSUME NEW i \in Paginas, desde <= i, i <= m
        PROVE  i \in S
    <3>1. desde \in Paginas /\ m \in Paginas /\ Duenio(desde) = p /\ Duenio(m) = p
      BY <2>1, <2>2 DEF PaginasDe, Duenio
    <3>2. CASE i = desde \/ i = m
      BY <2>1, <2>2, <3>2
    <3>3. CASE desde < i /\ i < m
      <4>1. Duenio(i) = p
        BY <3>1, <3>3, NadieAssumption DEF Contiguos
      <4> QED
        BY <4>1 DEF PaginasDe, Duenio
    <3> QED
      BY <2>3, <2>4, <3>2, <3>3 DEF Paginas
  <2> HIDE DEF S, desde
  <2>5. S = desde .. m
    <3>1. m <= CANTIDAD_PAGINAS - 1
      BY <1>1, <2>2, PaginasAssumption DEF Paginas
    <3>2. \A i \in desde .. m : i \in Paginas
      BY <2>3, <3>1, PaginasAssumption DEF Paginas
    <3>3. \A i \in desde .. m : i \in S
      BY <2>3, <2>4, <3>2
    <3>4. \A i \in S : i \in desde .. m
      BY <1>1, <2>1, <2>2, <2>3
    <3> QED
      BY <3>3, <3>4
  <2>6. Cardinality(S) = m - desde + 1
    BY <2>3, <2>5, FS_Interval
  <2>7. desde + Cardinality(S) - 1 = m
    BY <2>3, <2>6
  <2> QED
    BY <2>3, <2>5, <2>7 DEF S, desde
<1> QED
  BY <1>2, <1>3

-----------------------------------------------------------------------------
(* Each step keeps IInv.                                                    *)

LEMMA InstalaContiguos ==
  ASSUME TypeOK, NEW p \in Pids, NEW codigo \in Codigos, NEW desde,
         desde = hayLugarParaNuevoProceso(Len(codigo)), desde # -1,
         PaginasDe(p) = {},
         \A i, j, m \in Paginas : /\ i < j /\ j < m
                                  /\ Duenio(i) = Duenio(m) /\ Duenio(i) # NADIE
                                  => Duenio(j) = Duenio(i),
         Instala(p, codigo, desde), pedido' = NADIE
  PROVE  IInv'
<1> DEFINE n == Len(codigo)
           suyas == desde .. desde + n - 1
           caben == {i \in Paginas : /\ i + n <= CANTIDAD_PAGINAS
                                     /\ \A j \in i .. i + n - 1 : ~paginasSWAP[j].ocupada}
<1>1. n \in Nat /\ n > 0 /\ codigo \in Seq(Valores \cup {BASURA})
  BY CodigosAssumption
<1>2. desde \in caben
  <2>1. caben # {} /\ desde = Minimo(caben)
    BY DEF hayLugarParaNuevoProceso
  <2>2. caben \in SUBSET Nat
    BY DEF Paginas
  <2> QED
    BY <2>1, <2>2, MinimoExiste
<1>3. desde \in Nat /\ \A i \in suyas : i \in Paginas /\ ~paginasSWAP[i].ocupada
  BY <1>1, <1>2, PaginasAssumption DEF Paginas
<1>4. \A i \in suyas : Duenio(i) = NADIE
  BY <1>3 DEF TypeOK, Duenio
<1>5. \A i \in Paginas : paginasSWAP'[i] = IF i \in suyas
                                           THEN [ocupada |-> TRUE, idProcesoQueLoOcupa |-> p]
                                           ELSE paginasSWAP[i]
  BY DEF Instala
<1>6. \A i \in Paginas : Duenio(i)' = IF i \in suyas THEN p ELSE Duenio(i)
  BY <1>5 DEF Duenio
<1>7. \A i \in Paginas : Duenio(i) # p
  BY DEF PaginasDe, Duenio
<1>8. TypeOK'
  <2>1. paginasSWAP' \in [Paginas -> [ocupada : BOOLEAN,
                                     idProcesoQueLoOcupa : Pids \cup {NADIE}]]
    BY DEF Instala, TypeOK
  <2>2. \A i \in Paginas : paginasSWAP'[i].ocupada
                             <=> paginasSWAP'[i].idProcesoQueLoOcupa # NADIE
    BY <1>5, NadieAssumption DEF TypeOK
  <2>3. \A i \in suyas : codigo[i - desde + 1] \in Valores \cup {BASURA}
    <3>1. \A i \in suyas : i - desde + 1 \in 1 .. Len(codigo)
      BY <1>1, <1>3
    <3> QED
      BY <1>1, <3>1
  <2>4. disco' \in [Paginas -> Valores \cup {BASURA}]
    BY <2>3 DEF Instala, TypeOK
  <2> QED
    BY <2>1, <2>2, <2>4 DEF TypeOK
<1> HIDE DEF suyas
<1>9. ASSUME NEW i \in Paginas, NEW j \in Paginas, NEW m \in Paginas, i < j, j < m,
             Duenio(i)' = Duenio(m)', Duenio(i)' # NADIE
      PROVE  Duenio(j)' = Duenio(i)'
  <2>1. CASE i \in suyas
    <3>1. m \in suyas
      BY <1>6, <1>7, <1>9, <2>1
    <3>2. j \in suyas
      BY <1>1, <1>3, <1>9, <2>1, <3>1 DEF suyas, Paginas
    <3> QED
      BY <1>6, <2>1, <3>2
  <2>2. CASE i \notin suyas
    <3>1. m \notin suyas /\ Duenio(i)' = Duenio(i) /\ Duenio(m)' = Duenio(m)
      BY <1>6, <1>7, <1>9, <2>2
    <3>2. Duenio(j) = Duenio(i)
      BY <1>9, <3>1
    <3>3. j \notin suyas
      BY <1>4, <1>9, <3>1, <3>2
    <3> QED
      BY <1>6, <3>1, <3>2, <3>3
  <2> QED
    BY <2>1, <2>2
<1>10. SinIntrusos' /\ Contiguos'
  BY <1>9 DEF SinIntrusos, Contiguos, Paginas
<1> QED
  BY <1>8, <1>10 DEF IInv, PedidoNuevo

LEMMA MueveSinIntrusos ==
  ASSUME IInv, compactacion
  PROVE  IInv'
<1> DEFINE l == ultimaPagLibre
           o == primerPaginaOcupadaLuegoDeUnaLibre
<1> USE DEF IInv
<1>1. /\ l \in Paginas /\ o \in Paginas /\ l < o
      /\ paginasSWAP[o].ocupada
      /\ \A i \in Paginas : i < l => paginasSWAP[i].ocupada
      /\ \A i \in Paginas : l <= i /\ i < o => ~paginasSWAP[i].ocupada
  BY LugaresDeMueve DEF compactacion
<1>2. Mueve(l, o) /\ pedido' = pedido /\ pedido # NADIE
  BY DEF compactacion
<1> HIDE DEF l, o
<1>3. \A i \in Paginas : paginasSWAP'[i] =
         IF i = o THEN Libre
         ELSE IF i = l THEN [ocupada |-> TRUE, idProcesoQueLoOcupa |-> Duenio(o)]
         ELSE paginasSWAP[i]
  BY <1>1, <1>2 DEF Mueve, TypeOK, Paginas, Duenio
<1>4. \A i \in Paginas : Duenio(i)' = IF i = o THEN NADIE
                                      ELSE IF i = l THEN Duenio(o) ELSE Duenio(i)
  BY <1>3 DEF Duenio, Libre
<1>5. /\ Duenio(o) \in Pids /\ Duenio(o) # NADIE
      /\ \A i \in Paginas : l <= i /\ i < o => Duenio(i) = NADIE
      /\ \A i \in Paginas : Duenio(i) \in Pids \cup {NADIE}
  BY <1>1 DEF TypeOK, Duenio
<1>6. TypeOK'
  <2>1. \A i \in Paginas : paginasSWAP'[i] \in [ocupada : BOOLEAN,
                                               idProcesoQueLoOcupa : Pids \cup {NADIE}]
    <3> SUFFICES ASSUME NEW i \in Paginas
                 PROVE  paginasSWAP'[i] \in [ocupada : BOOLEAN,
                                            idProcesoQueLoOcupa : Pids \cup {NADIE}]
      OBVIOUS
    <3>1. CASE i = o
      <4>1. Libre \in [ocupada : BOOLEAN, idProcesoQueLoOcupa : Pids \cup {NADIE}]
        BY DEF Libre
      <4>2. paginasSWAP'[i] = Libre
        BY <1>3, <3>1
      <4> QED
        BY <4>1, <4>2
    <3>2. CASE i = l
      <4>1. l # o
        BY <1>1 DEF Paginas
      <4>2. paginasSWAP'[i] = [ocupada |-> TRUE, idProcesoQueLoOcupa |-> Duenio(o)]
        BY <1>3, <3>2, <4>1, Zenon
      <4>3. [ocupada |-> TRUE, idProcesoQueLoOcupa |-> Duenio(o)]
              \in [ocupada : BOOLEAN, idProcesoQueLoOcupa : Pids \cup {NADIE}]
        BY <1>5
      <4> QED
        BY <4>2, <4>3, Zenon
    <3>3. CASE i # o /\ i # l
      BY <1>3, <3>3 DEF TypeOK
    <3> QED
      BY <3>1, <3>2, <3>3
  <2>2. \A i \in Paginas : paginasSWAP'[i].ocupada
                             <=> paginasSWAP'[i].idProcesoQueLoOcupa # NADIE
    BY <1>3, <1>5 DEF TypeOK, Libre
  <2>3. paginasSWAP' = [i \in Paginas |-> paginasSWAP'[i]]
    BY <1>2 DEF Mueve, TypeOK
  <2>4. disco' \in [Paginas -> Valores \cup {BASURA}]
    BY <1>1, <1>2 DEF Mueve, TypeOK
  <2>5. paginasSWAP' \in [Paginas -> [ocupada : BOOLEAN,
                                     idProcesoQueLoOcupa : Pids \cup {NADIE}]]
    BY <2>1, <2>3
  <2> QED
    BY <1>2, <2>2, <2>4, <2>5 DEF TypeOK
<1>7. SinIntrusos'
  <2> SUFFICES ASSUME NEW i \in Paginas, NEW j \in Paginas, NEW m \in Paginas,
                      i < j, j < m,
                      Duenio(i)' = Duenio(m)', Duenio(i)' # NADIE,
                      Duenio(j)' # NADIE
               PROVE  Duenio(j)' = Duenio(i)'
    BY DEF SinIntrusos, Paginas
  <2> DEFINE Antes(x) == IF x = l THEN o ELSE x
  <2>1. i # o /\ j # o /\ m # o
    BY <1>4
  <2>2. /\ Duenio(Antes(i)) = Duenio(i)'
        /\ Duenio(Antes(j)) = Duenio(j)'
        /\ Duenio(Antes(m)) = Duenio(m)'
    BY <1>4, <2>1
  <2>3. \A x \in Paginas : Duenio(x)' # NADIE => x <= l \/ o <= x
    BY <1>1, <1>4, <1>5 DEF Paginas
  <2>4. Antes(i) < Antes(j) /\ Antes(j) < Antes(m)
    BY <1>1, <2>1, <2>3 DEF Paginas
  <2>5. Antes(i) \in Paginas /\ Antes(j) \in Paginas /\ Antes(m) \in Paginas
    BY <1>1
  <2> HIDE DEF Antes
  <2> QED
    BY <2>2, <2>4, <2>5 DEF SinIntrusos
<1>8. PedidoNuevo'
  <2>1. pedido.pid \in Pids /\ \A i \in Paginas : Duenio(i) # pedido.pid
    BY <1>2 DEF PedidoNuevo, PaginasDe, Duenio, TypeOK
  <2>2. \A i \in Paginas : Duenio(i)' # pedido.pid
    BY <1>1, <1>4, <2>1, NadieAssumption
  <2> QED
    BY <1>2, <2>2 DEF PedidoNuevo, PaginasDe, Duenio
<1>9. Contiguos'
  BY <1>2 DEF Contiguos
<1> QED
  BY <1>6, <1>7, <1>8, <1>9

\* When compaction has nothing left to move, the file has one hole, at its end.
LEMMA SinBordesContiguos ==
  ASSUME TypeOK, SinIntrusos, primerPaginaOcupadaLuegoDeUnaLibre = -1
  PROVE  \A i, j, m \in Paginas : /\ i < j /\ j < m
                                  /\ Duenio(i) = Duenio(m) /\ Duenio(i) # NADIE
                                  => Duenio(j) = Duenio(i)
<1> SUFFICES ASSUME NEW i \in Paginas, NEW j \in Paginas, NEW m \in Paginas,
                    i < j, j < m, Duenio(i) = Duenio(m), Duenio(i) # NADIE,
                    Duenio(j) = NADIE
             PROVE  FALSE
  BY DEF SinIntrusos
<1> DEFINE B == {b \in Paginas : /\ b # 0
                                 /\ ~paginasSWAP[b - 1].ocupada
                                 /\ paginasSWAP[b].ocupada}
<1>1. ~paginasSWAP[j].ocupada /\ paginasSWAP[m].ocupada
  BY DEF TypeOK, Duenio
<1>2. B # {}
  BY <1>1, HayBorde DEF Paginas
<1>3. Minimo(B) \in B
  BY <1>2, MinimoExiste DEF Paginas
<1>4. Minimo(B) = -1
  BY <1>2 DEF primerPaginaOcupadaLuegoDeUnaLibre
<1> QED
  BY <1>3, <1>4 DEF Paginas

\* Init and every step of Next.
LEMMA IInvInicial == Init => IInv
  BY NadieAssumption DEF Init, IInv, TypeOK, SinIntrusos, Contiguos, PedidoNuevo, Duenio, Libre

LEMMA IInvPaso == IInv /\ [Next]_vars => IInv'
<1> SUFFICES ASSUME IInv, [Next]_vars PROVE IInv'
  OBVIOUS
<1> USE DEF IInv
<1>1. ASSUME NEW p \in Pids, NEW c \in Codigos, Inicializar(p, c)
      PROVE  IInv'
  <2> DEFINE desde == hayLugarParaNuevoProceso(Len(c))
  <2>1. pedido = NADIE /\ PaginasDe(p) = {}
    BY <1>1 DEF Inicializar
  <2>2. CASE desde # -1
    <3>1. Instala(p, c, desde) /\ pedido' = NADIE
      BY <1>1, <2>2 DEF Inicializar
    <3> QED
      BY <2>1, <2>2, <3>1, InstalaContiguos DEF Contiguos
  <2>3. CASE desde = -1
    <3>1. /\ pedido' = [pid |-> p, codigo |-> c]
          /\ paginasSWAP' = paginasSWAP /\ disco' = disco
      BY <1>1, <2>3 DEF Inicializar
    <3>2. pedido' \in [pid : Pids, codigo : Codigos] /\ pedido'.pid = p
      BY <3>1
    <3>3. TypeOK'
      BY <3>1, <3>2 DEF TypeOK
    <3>4. PaginasDe(p)' = {}
      BY <2>1, <3>1 DEF PaginasDe
    <3>5. SinIntrusos'
      BY <3>1 DEF SinIntrusos, Duenio
    <3>6. Contiguos'
      BY <2>1, <3>1 DEF Contiguos, Duenio
    <3> QED
      BY <3>2, <3>3, <3>4, <3>5, <3>6 DEF PedidoNuevo, PaginasDe
  <2> QED
    BY <2>2, <2>3
<1>2. ASSUME NEW p \in Pids, Finalizar(p)
      PROVE  IInv'
  <2> DEFINE F == getPrimerPagProc(p) ..
                    getPrimerPagProc(p) + Cardinality(PaginasDe(p)) - 1
  <2>1. pedido = NADIE /\ pedido' = NADIE /\ disco' = disco
    BY <1>2 DEF Finalizar
  <2>2. \A i \in Paginas : i \in F <=> i \in PaginasDe(p)
    BY <2>1, PaginasSonIntervalo
  <2>3. paginasSWAP' = [i \in Paginas |-> IF i \in F THEN Libre ELSE paginasSWAP[i]]
    BY <1>2 DEF Finalizar, liberarProceso
  <2> HIDE DEF F
  <2>4. paginasSWAP' = [i \in Paginas |-> IF Duenio(i) = p THEN Libre ELSE paginasSWAP[i]]
    BY <2>2, <2>3 DEF PaginasDe, Duenio
  <2>5. \A i \in Paginas : Duenio(i)' = IF Duenio(i) = p THEN NADIE ELSE Duenio(i)
    BY <2>4 DEF Duenio, Libre
  <2>6. TypeOK'
    BY <2>1, <2>4 DEF TypeOK, Libre
  <2>7. \A i, j, m \in Paginas : /\ i < j /\ j < m
                                 /\ Duenio(i)' = Duenio(m)' /\ Duenio(i)' # NADIE
                                 => Duenio(j)' = Duenio(i)'
    BY <2>1, <2>5 DEF Contiguos
  <2> QED
    BY <2>1, <2>6, <2>7 DEF SinIntrusos, Contiguos, PedidoNuevo, Paginas
<1>3. ASSUME NEW p \in Pids, NEW n \in Paginas, NEW v \in Valores, Escribir(p, n, v)
      PROVE  IInv'
  <2>1. /\ paginasSWAP' = paginasSWAP /\ pedido' = pedido
        /\ disco' \in [Paginas -> Valores \cup {BASURA}]
    BY <1>3 DEF Escribir, TypeOK
  <2> QED
    BY <2>1 DEF TypeOK, SinIntrusos, Contiguos, PedidoNuevo, PaginasDe, Duenio
<1>4. ASSUME NEW p \in Pids, NEW n \in Paginas, Leer(p, n)
      PROVE  IInv'
  BY <1>4 DEF Leer, TypeOK, SinIntrusos, Contiguos, PedidoNuevo, PaginasDe, Duenio
<1>5. CASE compactacion
  BY <1>5, MueveSinIntrusos
<1>6. CASE Reintenta
  <2> DEFINE desde == hayLugarParaNuevoProceso(Len(pedido.codigo))
  <2>1. /\ pedido.pid \in Pids /\ pedido.codigo \in Codigos /\ pedido' = NADIE
        /\ PaginasDe(pedido.pid) = {}
        /\ primerPaginaOcupadaLuegoDeUnaLibre = -1
    BY <1>6 DEF Reintenta, TypeOK, PedidoNuevo
  <2>2. \A i, j, m \in Paginas : /\ i < j /\ j < m
                                 /\ Duenio(i) = Duenio(m) /\ Duenio(i) # NADIE
                                 => Duenio(j) = Duenio(i)
    BY <2>1, SinBordesContiguos
  <2>3. CASE desde # -1
    <3>1. Instala(pedido.pid, pedido.codigo, desde)
      BY <1>6, <2>3 DEF Reintenta
    <3> QED
      BY <2>1, <2>2, <2>3, <3>1, InstalaContiguos
  <2>4. CASE desde = -1
    <3>1. paginasSWAP' = paginasSWAP /\ disco' = disco
      BY <1>6, <2>4 DEF Reintenta
    <3> QED
      BY <2>1, <2>2, <3>1 DEF TypeOK, SinIntrusos, Contiguos, PedidoNuevo, Duenio
  <2> QED
    BY <2>3, <2>4
<1>7. CASE UNCHANGED vars
  BY <1>7 DEF vars, TypeOK, SinIntrusos, Contiguos, PedidoNuevo, PaginasDe, Duenio
<1> QED
  BY <1>1, <1>2, <1>3, <1>4, <1>5, <1>6, <1>7 DEF Next, Compactando, Pedidos

-----------------------------------------------------------------------------
(* The strengthened invariant, of which the next two theorems are parts.    *)
THEOREM IInvSiempre == Spec => []IInv
  BY IInvInicial, IInvPaso, PTL DEF Spec

(* The tables of swap.c keep their types, and a page is marked occupied      *)
(* exactly when it has an owner, through compactions, ends and writes.       *)
THEOREM TypeOKSiempre == Spec => []TypeOK
<1>1. IInv => TypeOK
  BY DEF IInv
<1> QED
  BY <1>1, IInvSiempre, PTL

(* Whatever the order of arrivals, ends and compactions, the pages of every *)
(* process are together when swap.c takes a request, as                     *)
(* escribirPaginaProceso, leerPaginaProceso and liberarProceso assume.      *)
THEOREM ContiguosSiempre == Spec => []Contiguos
<1>1. IInv => Contiguos
  BY DEF IInv
<1> QED
  BY <1>1, IInvSiempre, PTL
-----------------------------------------------------------------------------
(* The place of a page among those of a set.                                *)

Rango(S, i) == Cardinality({j \in S : j < i})
Elemento(S, n) == CHOOSE i \in S : Rango(S, i) = n - 1

LEMMA SonFinitas ==
  ASSUME NEW S \in SUBSET Paginas
  PROVE  /\ IsFiniteSet(S) /\ Cardinality(S) \in Nat /\ S \in SUBSET Nat
         /\ Cardinality(S) <= CANTIDAD_PAGINAS
<1>1. IsFiniteSet(Paginas) /\ Cardinality(Paginas) = CANTIDAD_PAGINAS
  BY FS_Interval, PaginasAssumption DEF Paginas
<1>2. IsFiniteSet(S) /\ Cardinality(S) <= Cardinality(Paginas)
  BY <1>1, FS_Subset
<1>3. Cardinality(S) \in Nat
  BY <1>2, FS_CardinalityType
<1> QED
  BY <1>1, <1>2, <1>3 DEF Paginas

LEMMA RangoCrece ==
  ASSUME NEW S \in SUBSET Paginas, NEW i \in S, NEW j \in S, i < j
  PROVE  Rango(S, i) < Rango(S, j)
<1> DEFINE A1 == {x \in S : x < i}
           B == {x \in S : x < j}
<1>1. IsFiniteSet(A1) /\ IsFiniteSet(B) /\ Cardinality(A1) \in Nat /\ Cardinality(B) \in Nat
  BY SonFinitas
<1>2. i \notin A1
  BY DEF Paginas
<1>3. A1 \cup {i} \in SUBSET B
  <2>1. \A x \in S : x \in Int
    BY DEF Paginas
  <2>2. \A x \in A1 : x < j
    BY <2>1
  <2> QED
    BY <2>2
<1>4. Cardinality(A1 \cup {i}) = Cardinality(A1) + 1
  BY <1>1, <1>2, FS_AddElement
<1>5. Cardinality(A1 \cup {i}) <= Cardinality(B)
  BY <1>1, <1>3, FS_Subset
<1> HIDE DEF A1, B
<1>6. Cardinality(A1) < Cardinality(B)
  BY <1>1, <1>4, <1>5
<1> QED
  BY <1>6 DEF Rango, A1, B

LEMMA RangoUnico ==
  ASSUME NEW S \in SUBSET Paginas, NEW i \in S, NEW j \in S, Rango(S, i) = Rango(S, j)
  PROVE  i = j
<1>1. i \in Nat /\ j \in Nat /\ Rango(S, i) \in Nat /\ Rango(S, j) \in Nat
  BY SonFinitas DEF Rango
<1>2. ~(i < j) /\ ~(j < i)
  BY <1>1, RangoCrece
<1> QED
  BY <1>1, <1>2

LEMMA RangoAcotado ==
  ASSUME NEW S \in SUBSET Paginas, NEW i \in S
  PROVE  Rango(S, i) \in 0 .. Cardinality(S) - 1
<1> DEFINE A1 == {x \in S : x < i}
<1>1. IsFiniteSet(A1) /\ Cardinality(A1) \in Nat /\ Cardinality(S) \in Nat /\ IsFiniteSet(S)
  BY SonFinitas
<1>2. i \notin A1 /\ A1 \cup {i} \in SUBSET S
  BY DEF Paginas
<1>3. Cardinality(A1 \cup {i}) = Cardinality(A1) + 1 /\ Cardinality(A1 \cup {i}) <= Cardinality(S)
  BY <1>1, <1>2, FS_AddElement, FS_Subset
<1> HIDE DEF A1
<1>4. Cardinality(A1) \in 0 .. Cardinality(S) - 1
  BY <1>1, <1>3
<1> QED
  BY <1>4 DEF Rango, A1

(* Every place is taken.                                                    *)
LEMMA ElementoExiste ==
  ASSUME NEW S \in SUBSET Paginas, NEW n \in 1 .. Cardinality(S)
  PROVE  Elemento(S, n) \in S /\ Rango(S, Elemento(S, n)) = n - 1
<1>1. Cardinality(S) \in Nat /\ S \in SUBSET Nat /\ IsFiniteSet(S) /\ \A i \in S : i <= CANTIDAD_PAGINAS
  BY SonFinitas, PaginasAssumption DEF Paginas
<1>2. \A i \in S : Rango(S, i) \in Nat
  BY RangoAcotado, <1>1
<1> DEFINE T == {i \in S : Rango(S, i) >= n - 1}
<1>3. T # {}
  <2>1. S # {}
    BY <1>1, FS_EmptySet
  <2>2. PICK m \in S : \A i \in S : i <= m
    BY <1>1, <2>1, MaximoExiste, PaginasAssumption
  <2> DEFINE A1 == {x \in S : x < m}
  <2>3. S = A1 \cup {m} /\ m \notin A1
    <3>1. m \in Int /\ \A x \in S : x \in Int /\ x <= m
      BY <1>1, <2>2
    <3>2. \A x \in S : x < m \/ x = m
      BY <3>1
    <3>3. ~(m < m)
      BY <3>1
    <3> QED
      BY <3>2, <3>3
  <2>4. IsFiniteSet(A1) /\ Cardinality(A1) \in Nat
    BY SonFinitas
  <2>5. Cardinality(A1 \cup {m}) = Cardinality(A1) + 1
    BY <2>3, <2>4, FS_AddElement
  <2> HIDE DEF A1
  <2>6. Cardinality(A1) >= n - 1
    BY <2>3, <2>4, <2>5
  <2> QED
    BY <2>6 DEF Rango, A1
<1> DEFINE i0 == Minimo(T)
<1>4. i0 \in T /\ \A j \in T : i0 <= j
  BY <1>1, <1>3, MinimoExiste
<1> HIDE DEF i0
<1>5. ASSUME Rango(S, i0) > n - 1
      PROVE  FALSE
  <2> DEFINE A1 == {x \in S : x < i0}
  <2>1. IsFiniteSet(A1) /\ Cardinality(A1) \in Nat /\ A1 \in SUBSET Nat
    BY SonFinitas
  <2>2. Rango(S, i0) = Cardinality(A1)
    BY DEF Rango
  <2>3. A1 # {}
    BY <1>5, <2>2, FS_EmptySet
  <2>4. PICK m \in A1 : \A i \in A1 : i <= m
    <3> HIDE DEF A1
    <3>1. \A i \in A1 : i <= CANTIDAD_PAGINAS
      BY <1>1 DEF A1
    <3> QED
      BY <2>1, <2>3, <3>1, MaximoExiste, PaginasAssumption
  <2> DEFINE B == {x \in S : x < m}
  <2>5. A1 = B \cup {m} /\ m \notin B
    <3>1. i0 \in Int /\ m \in S /\ m < i0 /\ \A x \in S : x \in Int
      BY <1>1, <1>4, <2>4
    <3>2. \A x \in S : x < i0 => x <= m
      BY <2>4
    <3>3. \A x \in S : x < i0 <=> x < m \/ x = m
      BY <3>1, <3>2
    <3>4. ~(m < m)
      BY <3>1
    <3> QED
      BY <3>1, <3>3, <3>4
  <2>6. IsFiniteSet(B) /\ Cardinality(B) \in Nat
    BY SonFinitas
  <2>7. Cardinality(B \cup {m}) = Cardinality(B) + 1
    BY <2>5, <2>6, FS_AddElement
  <2>8. Rango(S, m) = Cardinality(B)
    BY DEF Rango
  <2> HIDE DEF B
  <2>9. Rango(S, m) >= n - 1
    BY <1>5, <2>2, <2>5, <2>6, <2>7, <2>8
  <2>10. m \in T /\ m < i0
    BY <2>4, <2>9
  <2> QED
    BY <1>1, <1>4, <2>10
<1>6. i0 \in S /\ Rango(S, i0) = n - 1
  BY <1>2, <1>4, <1>5
<1> QED
  BY <1>6 DEF Elemento

(* A set with one element for each of 1 .. n has n elements.                *)
LEMMA Contada ==
  ASSUME NEW n \in Nat, NEW T, NEW f \in [1 .. n -> T],
         \A x, y \in 1 .. n : f[x] = f[y] => x = y,
         \A t \in T : \E x \in 1 .. n : f[x] = t
  PROVE  Cardinality(T) = n
<1>1. f \in Bijection(1 .. n, T)
  BY DEF Bijection, Injection, Surjection, IsInjective
<1> QED
  BY <1>1, FS_CountingElements DEF ExistsBijection

(* An increasing list of all the elements of a set is its enumeration.      *)
LEMMA Enumera ==
  ASSUME NEW S \in SUBSET Paginas, NEW k \in Nat, NEW f \in [1 .. k -> S],
         \A x, y \in 1 .. k : x < y => f[x] < f[y],
         \A i \in S : \E x \in 1 .. k : f[x] = i
  PROVE  Cardinality(S) = k /\ \A n \in 1 .. k : Elemento(S, n) = f[n]
<1>0. \A i \in S : i \in Int
  BY DEF Paginas
<1>1. \A x, y \in 1 .. k : f[x] = f[y] => x = y
  <2> SUFFICES ASSUME NEW x \in 1 .. k, NEW y \in 1 .. k, x < y
               PROVE  f[x] # f[y]
    OBVIOUS
  <2> QED
    BY <1>0
<1>2. Cardinality(S) = k
  BY <1>1, Contada
<1>3. ASSUME NEW n \in 1 .. k
      PROVE  Rango(S, f[n]) = n - 1
  <2> DEFINE T == {j \in S : j < f[n]}
             g == [x \in 1 .. n - 1 |-> f[x]]
  <2>1. g \in [1 .. n - 1 -> T]
    OBVIOUS
  <2>2. \A x, y \in 1 .. n - 1 : g[x] = g[y] => x = y
    BY <1>1
  <2>3. \A t \in T : \E x \in 1 .. n - 1 : g[x] = t
    <3> SUFFICES ASSUME NEW t \in T
                 PROVE  \E x \in 1 .. n - 1 : g[x] = t
      OBVIOUS
    <3>1. PICK x \in 1 .. k : f[x] = t
      OBVIOUS
    <3>2. ~(n < x) /\ n # x
      BY <1>0, <3>1
    <3>3. x \in 1 .. n - 1
      BY <3>2
    <3> QED
      BY <3>1, <3>3
  <2>4. n - 1 \in Nat
    OBVIOUS
  <2> HIDE DEF T, g
  <2>5. Cardinality(T) = n - 1
    BY <2>1, <2>2, <2>3, <2>4, Contada
  <2> QED
    BY <2>5 DEF Rango, T
<1>4. ASSUME NEW n \in 1 .. k
      PROVE  Elemento(S, n) = f[n]
  <2>1. f[n] \in S /\ Rango(S, f[n]) = n - 1
    BY <1>3
  <2>2. \A i \in S : Rango(S, i) = n - 1 => i = f[n]
    BY <2>1, RangoUnico
  <2> QED
    BY <2>1, <2>2 DEF Elemento
<1> QED
  BY <1>2, <1>4

(* The elements are in order.                                               *)
LEMMA ElementoCrece ==
  ASSUME NEW S \in SUBSET Paginas, NEW x \in 1 .. Cardinality(S),
         NEW y \in 1 .. Cardinality(S), x < y
  PROVE  Elemento(S, x) < Elemento(S, y)
<1>1. /\ Elemento(S, x) \in S /\ Rango(S, Elemento(S, x)) = x - 1
      /\ Elemento(S, y) \in S /\ Rango(S, Elemento(S, y)) = y - 1
  BY ElementoExiste
<1>2. Cardinality(S) \in Nat /\ x \in Nat /\ y \in Nat
  BY SonFinitas
<1>3. Elemento(S, x) # Elemento(S, y)
  BY <1>1, <1>2
<1>4. ~(Elemento(S, y) < Elemento(S, x))
  <2> SUFFICES ASSUME Elemento(S, y) < Elemento(S, x) PROVE FALSE
    OBVIOUS
  <2>1. Rango(S, Elemento(S, y)) < Rango(S, Elemento(S, x))
    BY <1>1, RangoCrece
  <2> QED
    BY <1>1, <1>2, <2>1
<1>5. Elemento(S, x) \in Int /\ Elemento(S, y) \in Int
  <2>1. \A i \in S : i \in Int
    BY DEF Paginas
  <2> QED
    BY <1>1, <2>1
<1> QED
  BY <1>3, <1>4, <1>5

(* The pages of an interval.                                                *)
LEMMA EnumeraIntervalo ==
  ASSUME NEW S \in SUBSET Paginas, NEW d \in Int, NEW k \in Nat,
         \A i \in Int : i \in S <=> i \in d .. d + k - 1
  PROVE  Cardinality(S) = k /\ \A n \in 1 .. k : Elemento(S, n) = d + n - 1
<1> DEFINE f == [n \in 1 .. k |-> d + n - 1]
<1>1. f \in [1 .. k -> S]
  OBVIOUS
<1>2. \A x, y \in 1 .. k : x < y => f[x] < f[y]
  OBVIOUS
<1>3. \A i \in S : \E x \in 1 .. k : f[x] = i
  <2> SUFFICES ASSUME NEW i \in S PROVE \E x \in 1 .. k : f[x] = i
    OBVIOUS
  <2>1. i \in Int /\ i - d + 1 \in 1 .. k
    BY DEF Paginas
  <2>2. f[i - d + 1] = i
    BY <2>1
  <2> QED
    BY <2>1, <2>2
<1>4. \A n \in 1 .. k : f[n] = d + n - 1
  OBVIOUS
<1> HIDE DEF f
<1> QED
  BY <1>1, <1>2, <1>3, <1>4, Enumera

(* ------------------------------------------------------------------------ *)
(* The list of a process's pages.                                           *)

LEMMA ListaEs ==
  ASSUME NEW p
  PROVE  EnOrden(p) = [n \in 1 .. Cardinality(PaginasDe(p)) |->
                         disco[Elemento(PaginasDe(p), n)]]
  BY DEF EnOrden, Elemento, Rango

LEMMA ListaEsLuego ==
  ASSUME NEW p
  PROVE  EnOrden(p)' = [n \in 1 .. Cardinality(PaginasDe(p)') |->
                          disco'[Elemento(PaginasDe(p)', n)]]
  BY DEF EnOrden, Elemento, Rango

LEMMA SonPaginas ==
  ASSUME NEW p
  PROVE  /\ PaginasDe(p) \in SUBSET Paginas
         /\ PaginasDe(p)' \in SUBSET Paginas
         /\ Cardinality(PaginasDe(p)) \in Nat
         /\ \A i \in Paginas : i \in PaginasDe(p) <=> Duenio(i) = p
         /\ \A i \in Paginas : i \in PaginasDe(p)' <=> Duenio(i)' = p
<1>1. PaginasDe(p) \in SUBSET Paginas /\ PaginasDe(p)' \in SUBSET Paginas
  BY DEF PaginasDe
<1>2. Cardinality(PaginasDe(p)) \in Nat
  BY <1>1, SonFinitas
<1> QED
  BY <1>1, <1>2 DEF PaginasDe, Duenio

\* A process whose pages stay its own and unwritten keeps its list.
LEMMA MismaLista ==
  ASSUME NEW p, PaginasDe(p)' = PaginasDe(p),
         \A i \in PaginasDe(p) : disco'[i] = disco[i]
  PROVE  EnOrden(p)' = EnOrden(p)
<1>1. \A n \in 1 .. Cardinality(PaginasDe(p)) : Elemento(PaginasDe(p), n) \in PaginasDe(p)
  BY SonPaginas, ElementoExiste
<1> QED
  BY <1>1, ListaEs, ListaEsLuego

\* One without pages has the empty list, and only one without pages.
LEMMA ListaVacia ==
  ASSUME NEW p
  PROVE  /\ PaginasDe(p) = {} <=> EnOrden(p) = <<>>
         /\ DOMAIN EnOrden(p) = 1 .. Cardinality(PaginasDe(p))
<1>1. Cardinality(PaginasDe(p)) \in Nat /\ IsFiniteSet(PaginasDe(p))
  BY SonPaginas, SonFinitas
<1>2. DOMAIN EnOrden(p) = 1 .. Cardinality(PaginasDe(p))
  BY ListaEs
<1>3. ASSUME PaginasDe(p) = {} PROVE EnOrden(p) = <<>>
  <2>1. Cardinality(PaginasDe(p)) = 0
    BY <1>3, FS_EmptySet
  <2> QED
    BY <2>1, ListaEs
<1>4. ASSUME EnOrden(p) = <<>> PROVE PaginasDe(p) = {}
  <2>1. 1 .. Cardinality(PaginasDe(p)) = {}
    BY <1>2, <1>4
  <2>2. Cardinality(PaginasDe(p)) = 0
    BY <1>1, <2>1
  <2> QED
    BY <1>1, <2>2, FS_EmptySet
<1> QED
  BY <1>2, <1>3, <1>4

LEMMA ListaVaciaLuego ==
  ASSUME NEW p, PaginasDe(p)' = {}
  PROVE  EnOrden(p)' = <<>>
<1>1. Cardinality(PaginasDe(p)') = 0
  BY FS_EmptySet
<1> QED
  BY <1>1, ListaEsLuego

\* Whenever a request is taken, page n of a process is n after its first one.
LEMMA ListaSeguida ==
  ASSUME IInv, pedido = NADIE, NEW p \in Pids
  PROVE  \A n \in 1 .. Cardinality(PaginasDe(p)) :
           /\ getPrimerPagProc(p) \in Int
           /\ Elemento(PaginasDe(p), n) = getPrimerPagProc(p) + n - 1
           /\ Elemento(PaginasDe(p), n) \in PaginasDe(p)
<1> DEFINE S == PaginasDe(p)
           d == getPrimerPagProc(p)
<1>1. S \in SUBSET Paginas /\ Cardinality(S) \in Nat
  BY SonPaginas
<1>2. d \in Int /\ S = d .. d + Cardinality(S) - 1
  BY PaginasSonIntervalo DEF IInv
<1> HIDE DEF S, d
<1> DEFINE k == Cardinality(S)
<1>3. k \in Nat /\ \A i \in Int : i \in S <=> i \in d .. d + k - 1
  BY <1>1, <1>2
<1> HIDE DEF k
<1>4. \A n \in 1 .. k : Elemento(S, n) = d + n - 1
  BY <1>1, <1>2, <1>3, EnumeraIntervalo
<1>5. \A n \in 1 .. k : Elemento(S, n) \in S
  BY <1>1, ElementoExiste DEF k
<1> QED
  BY <1>2, <1>4, <1>5 DEF S, d, k

(* ------------------------------------------------------------------------ *)
(* The free pages, counted on both sides.                                   *)

Ocupadas == {i \in Paginas : Duenio(i) # NADIE}
Huecos == {i \in Paginas : ~paginasSWAP[i].ocupada}

LEMMA LibresSonHuecos ==
  ASSUME IInv
  PROVE  A!Libres = Cardinality(Huecos)
<1> DEFINE G == [p \in Pids |-> EnOrden(p)]
           E == {x \in Pids \X (1 .. CANTIDAD_PAGINAS) : x[2] \in DOMAIN G[x[1]]}
           h == [i \in Ocupadas |-> <<Duenio(i), Rango(PaginasDe(Duenio(i)), i) + 1>>]
<1>1. A!Libres = CANTIDAD_PAGINAS - Cardinality(E)
  BY DEF A!Libres, A!Entregadas, A!Cardinality, Cardinality
<1>2. \A p \in Pids : DOMAIN G[p] = 1 .. Cardinality(PaginasDe(p))
  BY ListaVacia
<1>3. \A i \in Ocupadas : Duenio(i) \in Pids /\ i \in PaginasDe(Duenio(i))
  BY DEF Ocupadas, IInv, TypeOK, Duenio, PaginasDe
<1>4. ASSUME NEW i \in Ocupadas
      PROVE  <<Duenio(i), Rango(PaginasDe(Duenio(i)), i) + 1>> \in E
  <2> DEFINE S == PaginasDe(Duenio(i))
  <2>1. S \in SUBSET Paginas /\ i \in S /\ Duenio(i) \in Pids
    BY <1>3, SonPaginas
  <2>2. Cardinality(S) \in Nat /\ Cardinality(S) <= CANTIDAD_PAGINAS
    BY <2>1, SonFinitas
  <2>3. Rango(S, i) \in 0 .. Cardinality(S) - 1
    BY <2>1, RangoAcotado
  <2>4. DOMAIN G[Duenio(i)] = 1 .. Cardinality(S)
    BY <1>2, <2>1
  <2> HIDE DEF S, G
  <2>5. Rango(S, i) + 1 \in 1 .. Cardinality(S) /\ Rango(S, i) + 1 \in 1 .. CANTIDAD_PAGINAS
    BY <2>2, <2>3, PaginasAssumption
  <2> QED
    BY <2>1, <2>4, <2>5 DEF S
<1>5. h \in [Ocupadas -> E]
  BY <1>4
<1>6. ASSUME NEW i \in Ocupadas, NEW j \in Ocupadas, h[i] = h[j]
      PROVE  i = j
  <2>1. /\ Duenio(i) = Duenio(j)
        /\ Rango(PaginasDe(Duenio(i)), i) + 1 = Rango(PaginasDe(Duenio(j)), j) + 1
    BY <1>6
  <2> DEFINE S == PaginasDe(Duenio(i))
  <2>2. i \in S /\ j \in S /\ S \in SUBSET Paginas
    BY <1>3, <2>1, SonPaginas
  <2>3. Rango(S, i) + 1 = Rango(S, j) + 1
    BY <2>1
  <2> HIDE DEF S
  <2>4. Rango(S, i) \in Int /\ Rango(S, j) \in Int
    BY <2>2, RangoAcotado
  <2> QED
    BY <2>2, <2>3, <2>4, RangoUnico
<1>7. ASSUME NEW x \in E
      PROVE  \E i \in Ocupadas : h[i] = x
  <2> DEFINE S == PaginasDe(x[1])
             i == Elemento(S, x[2])
  <2>1. x[1] \in Pids /\ x = <<x[1], x[2]>> /\ x[2] \in 1 .. Cardinality(S)
    <3>1. x \in Pids \X (1 .. CANTIDAD_PAGINAS) /\ x[2] \in DOMAIN G[x[1]]
      OBVIOUS
    <3> HIDE DEF G, E, h
    <3>2. x[1] \in Pids /\ x = <<x[1], x[2]>>
      BY <3>1
    <3> QED
      BY <1>2, <3>1, <3>2
  <2>2. i \in S /\ Rango(S, i) = x[2] - 1
    BY <2>1, SonPaginas, ElementoExiste
  <2>3. i \in Paginas /\ Duenio(i) = x[1]
    BY <2>2, SonPaginas
  <2>4. i \in Ocupadas
    BY <2>1, <2>3, NadieAssumption DEF Ocupadas
  <2>5. h[i] = <<x[1], Rango(S, i) + 1>>
    BY <2>3, <2>4
  <2> HIDE DEF S, i, h
  <2>6. x[2] - 1 + 1 = x[2]
    BY <2>1
  <2>7. h[i] = x
    BY <2>1, <2>2, <2>5, <2>6
  <2> QED
    BY <2>4, <2>7
<1> HIDE DEF E, h
<1>8. h \in Bijection(Ocupadas, E)
  BY <1>5, <1>6, <1>7 DEF Bijection, Injection, Surjection, IsInjective
<1>9. IsFiniteSet(Ocupadas) /\ Cardinality(Ocupadas) \in Nat
  BY SonFinitas DEF Ocupadas
<1>10. Cardinality(E) = Cardinality(Ocupadas)
  BY <1>8, <1>9, FS_Bijection DEF ExistsBijection
<1>11. IsFiniteSet(Huecos) /\ Cardinality(Huecos) \in Nat
  BY SonFinitas DEF Huecos
<1>12. Ocupadas \cup Huecos = Paginas /\ Ocupadas \cap Huecos = {}
  BY DEF Ocupadas, Huecos, IInv, TypeOK, Duenio
<1>13. Cardinality(Paginas) = Cardinality(Ocupadas) + Cardinality(Huecos)
  <2>1. Cardinality(Ocupadas \cup Huecos)
          = Cardinality(Ocupadas) + Cardinality(Huecos) - Cardinality(Ocupadas \cap Huecos)
    BY <1>9, <1>11, FS_Union
  <2>2. Cardinality(Ocupadas \cap Huecos) = 0
    BY <1>12, FS_EmptySet
  <2>3. Cardinality(Ocupadas \cup Huecos) = Cardinality(Paginas)
    BY <1>12
  <2>4. ASSUME NEW a \in Nat, NEW b \in Nat, NEW c, c = 0
        PROVE  a + b - c = a + b
    BY <2>4
  <2> QED
    BY <1>9, <1>11, <2>1, <2>2, <2>3, <2>4
<1>14. Cardinality(Paginas) = CANTIDAD_PAGINAS
  BY FS_Interval, PaginasAssumption DEF Paginas
<1> QED
  BY <1>1, <1>9, <1>10, <1>11, <1>13, <1>14, PaginasAssumption

(* A code that fits somewhere fits in the free pages.                       *)
LEMMA SiCabe ==
  ASSUME IInv, NEW codigo \in Codigos, hayLugarParaNuevoProceso(Len(codigo)) # -1
  PROVE  LET desde == hayLugarParaNuevoProceso(Len(codigo))
         IN  /\ desde \in Nat
             /\ \A i \in desde .. desde + Len(codigo) - 1 : i \in Huecos
             /\ Len(codigo) <= A!Libres
<1> DEFINE n == Len(codigo)
           desde == hayLugarParaNuevoProceso(n)
           caben == {i \in Paginas : /\ i + n <= CANTIDAD_PAGINAS
                                     /\ \A j \in i .. i + n - 1 : ~paginasSWAP[j].ocupada}
<1>1. n \in Nat /\ n > 0
  BY CodigosAssumption
<1>2. desde \in caben
  <2>1. caben # {} /\ desde = Minimo(caben)
    BY DEF hayLugarParaNuevoProceso
  <2>2. caben \in SUBSET Nat
    BY DEF Paginas
  <2> QED
    BY <2>1, <2>2, MinimoExiste
<1> HIDE DEF n, desde
<1>3. desde \in Nat /\ \A i \in desde .. desde + n - 1 : i \in Huecos
  BY <1>1, <1>2, PaginasAssumption DEF Paginas, Huecos
<1>4. n <= Cardinality(Huecos)
  <2>1. IsFiniteSet(Huecos) /\ Cardinality(Huecos) \in Nat
    BY SonFinitas DEF Huecos
  <2>2. desde .. desde + n - 1 \in SUBSET Huecos
    BY <1>3
  <2>3. Cardinality(desde .. desde + n - 1) <= Cardinality(Huecos)
    BY <2>1, <2>2, FS_Subset
  <2>4. Cardinality(desde .. desde + n - 1) = n
    <3>1. desde \in Int /\ desde + n - 1 \in Int /\ ~(desde > desde + n - 1)
      BY <1>1, <1>3
    <3>2. Cardinality(desde .. desde + n - 1) = (desde + n - 1) - desde + 1
      BY <3>1, FS_Interval
    <3> QED
      BY <1>1, <1>3, <3>2
  <2> QED
    BY <2>3, <2>4
<1> QED
  BY <1>3, <1>4, LibresSonHuecos DEF n, desde

(* Once compacted, a code that fits nowhere does not fit in the free pages:  *)
(* they are the last ones.                                                  *)
LEMMA SiNoCabe ==
  ASSUME IInv, NEW codigo \in Codigos, hayLugarParaNuevoProceso(Len(codigo)) = -1,
         primerPaginaOcupadaLuegoDeUnaLibre = -1
  PROVE  ~(Len(codigo) <= A!Libres)
<1> DEFINE n == Len(codigo)
           caben == {i \in Paginas : /\ i + n <= CANTIDAD_PAGINAS
                                     /\ \A j \in i .. i + n - 1 : ~paginasSWAP[j].ocupada}
           B == {b \in Paginas : /\ b # 0
                                 /\ ~paginasSWAP[b - 1].ocupada
                                 /\ paginasSWAP[b].ocupada}
<1>1. n \in Nat /\ n > 0
  BY CodigosAssumption
<1>2. caben = {}
  <2> SUFFICES ASSUME caben # {} PROVE FALSE
    OBVIOUS
  <2>1. Minimo(caben) = -1
    BY DEF hayLugarParaNuevoProceso
  <2>2. caben \in SUBSET Nat /\ ~(-1 \in caben)
    BY DEF Paginas
  <2> QED
    BY <2>1, <2>2, MinimoExiste
<1>3. B = {}
  <2> SUFFICES ASSUME B # {} PROVE FALSE
    OBVIOUS
  <2>1. Minimo(B) = -1
    BY DEF primerPaginaOcupadaLuegoDeUnaLibre
  <2>2. B \in SUBSET Nat /\ ~(-1 \in B)
    BY DEF Paginas
  <2> QED
    BY <2>1, <2>2, MinimoExiste
<1>4. ASSUME NEW j \in Huecos, NEW m \in Paginas, j < m
      PROVE  m \in Huecos
  <2> SUFFICES ASSUME paginasSWAP[m].ocupada PROVE FALSE
    BY DEF Huecos
  <2>1. j \in Paginas /\ ~paginasSWAP[j].ocupada
    BY DEF Huecos
  <2>2. PICK i \in Paginas : /\ j < i /\ i <= m
                             /\ ~paginasSWAP[i - 1].ocupada
                             /\ paginasSWAP[i].ocupada
    BY <1>4, <2>1, HayBorde DEF IInv
  <2>3. i \in B
    BY <2>1, <2>2 DEF Paginas
  <2> QED
    BY <1>3, <2>3
<1>5. Huecos \in SUBSET Nat
  BY DEF Huecos, Paginas
<1>6. CASE Huecos = {}
  <2>1. Cardinality(Huecos) = 0
    BY <1>6, FS_EmptySet
  <2> QED
    BY <1>1, <2>1, LibresSonHuecos
<1>7. CASE Huecos # {}
  <2> DEFINE l == Minimo(Huecos)
  <2>1. l \in Huecos /\ \A j \in Huecos : l <= j
    BY <1>5, <1>7, MinimoExiste
  <2> HIDE DEF l
  <2>2. l \in Paginas
    BY <2>1 DEF Huecos
  <2>3. \A m \in Paginas : m \in Huecos <=> m \in l .. CANTIDAD_PAGINAS - 1
    BY <1>4, <2>1, <2>2, PaginasAssumption DEF Paginas
  <2>4. Huecos = l .. CANTIDAD_PAGINAS - 1
    <3>1. \A m \in l .. CANTIDAD_PAGINAS - 1 : m \in Paginas
      BY <2>2, PaginasAssumption DEF Paginas
    <3>2. \A m \in Huecos : m \in Paginas
      BY DEF Huecos
    <3> QED
      BY <2>3, <3>1, <3>2
  <2>5. Cardinality(Huecos) = CANTIDAD_PAGINAS - l
    <3>1. /\ l \in Int /\ CANTIDAD_PAGINAS \in Int /\ CANTIDAD_PAGINAS - 1 \in Int
          /\ ~(l > CANTIDAD_PAGINAS - 1)
      BY <2>2, PaginasAssumption DEF Paginas
    <3>2. Cardinality(l .. CANTIDAD_PAGINAS - 1) = (CANTIDAD_PAGINAS - 1) - l + 1
      BY <3>1, FS_Interval
    <3> QED
      BY <2>4, <3>1, <3>2
  <2>6. ~(l + n <= CANTIDAD_PAGINAS)
    <3> SUFFICES ASSUME l + n <= CANTIDAD_PAGINAS PROVE FALSE
      OBVIOUS
    <3> HIDE DEF n
    <3>1. \A j \in l .. l + n - 1 : j \in l .. CANTIDAD_PAGINAS - 1
      BY <1>1, <2>2, PaginasAssumption DEF Paginas
    <3>2. \A j \in l .. l + n - 1 : ~paginasSWAP[j].ocupada
      BY <2>4, <3>1 DEF Huecos
    <3>3. l \in caben
      BY <2>2, <3>2
    <3> QED
      BY <1>2, <3>3
  <2> HIDE DEF n
  <2>7. ~(n <= Cardinality(Huecos))
    BY <1>1, <2>2, <2>5, <2>6, PaginasAssumption DEF Paginas
  <2> QED
    BY <2>7, LibresSonHuecos DEF n
<1> QED
  BY <1>6, <1>7

(* ------------------------------------------------------------------------ *)
(* The steps.                                                               *)

Guardado == [p \in Pids |-> EnOrden(p)]

LEMMA InstalaInicializa ==
  ASSUME IInv, NEW p \in Pids, NEW codigo \in Codigos, PaginasDe(p) = {},
         hayLugarParaNuevoProceso(Len(codigo)) # -1,
         Instala(p, codigo, hayLugarParaNuevoProceso(Len(codigo)))
  PROVE  A!Inicializa(p, codigo)
<1> DEFINE n == Len(codigo)
           desde == hayLugarParaNuevoProceso(n)
           suyas == desde .. desde + n - 1
<1>1. n \in Nat /\ n > 0 /\ codigo \in Seq(Valores \cup {BASURA})
  BY CodigosAssumption
<1>2. desde \in Nat /\ (\A i \in suyas : i \in Huecos) /\ n <= A!Libres
  BY SiCabe
<1>3. \A i \in suyas : i \in Paginas /\ Duenio(i) = NADIE
  BY <1>2 DEF Huecos, IInv, TypeOK, Duenio
<1>4. /\ \A i \in Paginas : Duenio(i)' = IF i \in suyas THEN p ELSE Duenio(i)
      /\ \A i \in Paginas : disco'[i] = IF i \in suyas THEN codigo[i - desde + 1]
                                                       ELSE disco[i]
      /\ respuesta' = <<"EXITO">>
  BY DEF Instala, Duenio
<1>5. \A i \in Paginas : Duenio(i) # p
  BY DEF PaginasDe, Duenio
<1> HIDE DEF suyas, desde, n
<1>6. PaginasDe(p)' = suyas
  BY <1>3, <1>4, <1>5 DEF PaginasDe, Duenio
<1>7. EnOrden(p)' = codigo
  <2>1. suyas \in SUBSET Paginas
    BY <1>3
  <2>2. desde \in Int /\ \A i \in Int : i \in suyas <=> i \in desde .. desde + n - 1
    BY <1>2 DEF suyas
  <2>3. /\ Cardinality(suyas) = n
        /\ \A x \in 1 .. n : Elemento(suyas, x) = desde + x - 1
    BY <1>1, <2>1, <2>2, EnumeraIntervalo
  <2>4. ASSUME NEW x \in 1 .. n
        PROVE  disco'[Elemento(suyas, x)] = codigo[x]
    <3>1. desde + x - 1 \in suyas /\ (desde + x - 1) - desde + 1 = x
      BY <1>1, <1>2 DEF suyas
    <3> QED
      BY <1>3, <1>4, <2>3, <3>1
  <2>5. EnOrden(p)' = [x \in 1 .. n |-> disco'[Elemento(suyas, x)]]
    BY <1>6, <2>3, ListaEsLuego
  <2>6. EnOrden(p)' = [x \in 1 .. n |-> codigo[x]]
    BY <2>4, <2>5
  <2>7. codigo = [x \in 1 .. n |-> codigo[x]]
    BY <1>1 DEF n
  <2> QED
    BY <2>6, <2>7
<1>8. ASSUME NEW q \in Pids, q # p
      PROVE  EnOrden(q)' = EnOrden(q)
  <2>1. \A i \in suyas : Duenio(i) # q
    BY <1>3, NadieAssumption
  <2>2. PaginasDe(q)' = PaginasDe(q)
    BY <1>4, <1>8, <2>1 DEF PaginasDe, Duenio
  <2>3. \A i \in PaginasDe(q) : disco'[i] = disco[i]
    BY <1>4, <2>1 DEF PaginasDe, Duenio
  <2> QED
    BY <2>2, <2>3, MismaLista
<1>9. Guardado' = [Guardado EXCEPT ![p] = codigo]
  BY <1>7, <1>8 DEF Guardado
<1>10. Guardado[p] = <<>>
  BY ListaVacia DEF Guardado
<1> QED
  BY <1>2, <1>4, <1>9, <1>10 DEF A!Inicializa, Guardado, n

LEMMA FinalizarFinaliza ==
  ASSUME IInv, NEW p \in Pids, Finalizar(p)
  PROVE  A!Finaliza(p)
<1> DEFINE F == getPrimerPagProc(p) ..
                  getPrimerPagProc(p) + Cardinality(PaginasDe(p)) - 1
<1>1. pedido = NADIE /\ disco' = disco /\ respuesta' = respuesta
  BY DEF Finalizar
<1>2. F = PaginasDe(p)
  BY <1>1, PaginasSonIntervalo DEF IInv
<1>3. paginasSWAP' = [i \in Paginas |-> IF i \in F THEN Libre ELSE paginasSWAP[i]]
  BY DEF Finalizar, liberarProceso
<1> HIDE DEF F
<1>4. \A i \in Paginas : Duenio(i)' = IF Duenio(i) = p THEN NADIE ELSE Duenio(i)
  BY <1>2, <1>3 DEF PaginasDe, Duenio, Libre
<1>5. PaginasDe(p)' = {}
  BY <1>4, NadieAssumption DEF PaginasDe, Duenio
<1>6. EnOrden(p)' = <<>>
  BY <1>5, ListaVaciaLuego
<1>7. ASSUME NEW q \in Pids, q # p
      PROVE  EnOrden(q)' = EnOrden(q)
  <2>1. PaginasDe(q)' = PaginasDe(q)
    BY <1>4, <1>7, NadieAssumption DEF PaginasDe, Duenio
  <2> QED
    BY <1>1, <2>1, MismaLista
<1>8. Guardado' = [Guardado EXCEPT ![p] = <<>>]
  BY <1>6, <1>7 DEF Guardado
<1> QED
  BY <1>1, <1>8 DEF A!Finaliza, Guardado

LEMMA LeerLee ==
  ASSUME IInv, NEW p \in Pids, NEW n \in Paginas, Leer(p, n)
  PROVE  A!Lee(p, n)
<1>1. /\ pedido = NADIE /\ n < Cardinality(PaginasDe(p))
      /\ respuesta' = <<"pagina", disco[getPrimerPagProc(p) + n]>>
      /\ paginasSWAP' = paginasSWAP /\ disco' = disco
  BY DEF Leer
<1>2. Cardinality(PaginasDe(p)) \in Nat /\ n \in Nat
  BY SonPaginas DEF Paginas
<1>3. n + 1 \in 1 .. Cardinality(PaginasDe(p))
  BY <1>1, <1>2
<1>4. /\ getPrimerPagProc(p) \in Int
      /\ Elemento(PaginasDe(p), n + 1) = getPrimerPagProc(p) + (n + 1) - 1
  BY <1>1, <1>3, ListaSeguida
<1>5. Elemento(PaginasDe(p), n + 1) = getPrimerPagProc(p) + n
  BY <1>2, <1>4
<1>6. n + 1 \in DOMAIN EnOrden(p) /\ EnOrden(p)[n + 1] = disco[getPrimerPagProc(p) + n]
  BY <1>3, <1>5, ListaEs
<1>7. \A q \in Pids : EnOrden(q)' = EnOrden(q)
  BY <1>1, MismaLista DEF PaginasDe
<1>8. Guardado' = Guardado /\ Guardado[p] = EnOrden(p)
  BY <1>7 DEF Guardado
<1> QED
  BY <1>1, <1>6, <1>8 DEF A!Lee, Guardado

LEMMA EscribirEscribe ==
  ASSUME IInv, NEW p \in Pids, NEW n \in Paginas, NEW v \in Valores, Escribir(p, n, v)
  PROVE  A!Escribe(p, n, v)
<1> DEFINE S == PaginasDe(p)
           k == Cardinality(S)
           e == getPrimerPagProc(p) + n
           w == IF n = 0 THEN BASURA ELSE v
<1>1. /\ pedido = NADIE /\ n < k
      /\ disco' = [disco EXCEPT ![e] = w]
      /\ paginasSWAP' = paginasSWAP /\ respuesta' = respuesta
  BY DEF Escribir
<1>2. k \in Nat /\ n \in Nat /\ S \in SUBSET Paginas
  BY SonPaginas DEF Paginas
<1>3. n + 1 \in 1 .. k
  BY <1>1, <1>2
<1>4. /\ getPrimerPagProc(p) \in Int
      /\ Elemento(S, n + 1) = getPrimerPagProc(p) + (n + 1) - 1
      /\ Elemento(S, n + 1) \in S
  BY <1>1, <1>3, ListaSeguida
<1>5. Elemento(S, n + 1) = e /\ e \in S
  <2> HIDE DEF S
  <2> QED
    BY <1>2, <1>4
<1>6. w = IF n \in Firmes THEN v ELSE BASURA
  BY PaginasAssumption DEF Firmes, Paginas
<1>7. \A q : PaginasDe(q)' = PaginasDe(q)
  BY <1>1 DEF PaginasDe
<1> HIDE DEF e, w
<1>8. ASSUME NEW q \in Pids, q # p
      PROVE  EnOrden(q)' = EnOrden(q)
  <2>1. e \notin PaginasDe(q)
    BY <1>5, <1>8 DEF PaginasDe
  <2>2. \A i \in PaginasDe(q) : disco'[i] = disco[i]
    BY <1>1, <2>1 DEF PaginasDe, IInv, TypeOK
  <2> QED
    BY <1>7, <2>2, MismaLista
<1>9. ASSUME NEW x \in 1 .. k
      PROVE  disco'[Elemento(S, x)] = IF x = n + 1 THEN w ELSE disco[Elemento(S, x)]
  <2>1. Elemento(S, x) \in S /\ Rango(S, Elemento(S, x)) = x - 1
    BY <1>2, ElementoExiste
  <2>2. Rango(S, e) = n + 1 - 1
    BY <1>2, <1>3, <1>5, ElementoExiste
  <2>3. x # n + 1 => Elemento(S, x) # e
    <3> HIDE DEF S, k
    <3> QED
      BY <1>2, <2>1, <2>2
  <2>4. Elemento(S, x) \in Paginas /\ e \in Paginas
    BY <1>2, <1>5, <2>1
  <2> QED
    BY <1>1, <1>5, <2>3, <2>4 DEF IInv, TypeOK
<1>10. EnOrden(p)' = [x \in 1 .. k |-> disco'[Elemento(S, x)]]
  BY <1>7, ListaEsLuego
<1>11. EnOrden(p) = [x \in 1 .. k |-> disco[Elemento(S, x)]]
  BY ListaEs
<1> HIDE DEF S, k
<1>12. EnOrden(p)' = [EnOrden(p) EXCEPT ![n + 1] = w]
  BY <1>9, <1>10, <1>11
<1>13. Guardado' = [Guardado EXCEPT ![p] = [EnOrden(p) EXCEPT ![n + 1] = w]]
  BY <1>8, <1>12 DEF Guardado
<1>14. Guardado[p] = EnOrden(p) /\ n + 1 \in DOMAIN EnOrden(p)
  BY <1>3, <1>11 DEF Guardado
<1>15. Guardado' = [Guardado EXCEPT ![p][n + 1] = w]
  BY <1>13, <1>14
<1> QED
  BY <1>1, <1>6, <1>14, <1>15 DEF A!Escribe, Guardado

\* A page that moves in compaction keeps its place among those of its process.
LEMMA MueveEnOrden ==
  ASSUME IInv, compactacion, NEW q \in Pids
  PROVE  EnOrden(q)' = EnOrden(q)
<1> DEFINE l == ultimaPagLibre
           o == primerPaginaOcupadaLuegoDeUnaLibre
           Va(i) == IF i = o THEN l ELSE i
           S == PaginasDe(q)
           T == PaginasDe(q)'
           k == Cardinality(S)
           f == [x \in 1 .. k |-> Va(Elemento(S, x))]
<1>1. /\ l \in Paginas /\ o \in Paginas /\ l < o
      /\ paginasSWAP[o].ocupada
      /\ \A i \in Paginas : l <= i /\ i < o => ~paginasSWAP[i].ocupada
  BY LugaresDeMueve DEF compactacion, IInv
<1>2. Mueve(l, o)
  BY DEF compactacion
<1> HIDE DEF l, o
<1>3. \A i \in Paginas : Duenio(i)' = IF i = o THEN NADIE
                                      ELSE IF i = l THEN Duenio(o) ELSE Duenio(i)
  BY <1>1, <1>2 DEF Mueve, IInv, TypeOK, Paginas, Duenio, Libre
<1>4. \A i \in Paginas : disco'[i] = IF i = l THEN disco[o] ELSE disco[i]
  BY <1>1, <1>2 DEF Mueve, IInv, TypeOK
<1>5. \A i \in Paginas : l <= i /\ i < o => Duenio(i) = NADIE
  BY <1>1 DEF IInv, TypeOK, Duenio
<1>6. S \in SUBSET Paginas /\ T \in SUBSET Paginas /\ k \in Nat
  BY SonPaginas
<1>7. \A i \in S : i < l \/ o <= i
  <2>1. \A i \in S : i \in Paginas /\ Duenio(i) # NADIE
    BY NadieAssumption DEF PaginasDe, Duenio
  <2>2. l \in Int /\ o \in Int /\ \A i \in Paginas : i \in Int
    BY <1>1 DEF Paginas
  <2> QED
    BY <1>5, <2>1, <2>2
<1>8. \A i \in S : Va(i) \in T
  BY <1>1, <1>3, <1>5, NadieAssumption DEF PaginasDe, Duenio, Paginas
<1>9. \A j \in T : \E i \in S : Va(i) = j
  <2> SUFFICES ASSUME NEW j \in T PROVE \E i \in S : Va(i) = j
    OBVIOUS
  <2>1. j \in Paginas /\ Duenio(j)' = q /\ q # NADIE
    BY NadieAssumption DEF PaginasDe, Duenio
  <2>2. j # o
    BY <1>3, <2>1
  <2>3. CASE j = l
    <3>1. Duenio(o) = q
      BY <1>3, <2>1, <2>2, <2>3
    <3> QED
      BY <1>1, <2>3, <3>1 DEF PaginasDe, Duenio
  <2>4. CASE j # l
    <3>1. Duenio(j) = q
      BY <1>3, <2>1, <2>2, <2>4
    <3> QED
      BY <2>1, <2>2, <3>1 DEF PaginasDe, Duenio
  <2> QED
    BY <2>3, <2>4
<1>10. \A x \in 1 .. k : Elemento(S, x) \in S
  BY <1>6, ElementoExiste
<1>11. \A i, j \in S : i < j => Va(i) < Va(j)
  <2>1. l \in Int /\ o \in Int /\ l < o /\ \A i \in S : i \in Int
    BY <1>1, <1>6 DEF Paginas
  <2> SUFFICES ASSUME NEW i \in S, NEW j \in S, i < j PROVE Va(i) < Va(j)
    OBVIOUS
  <2>2. /\ i \in Int /\ j \in Int /\ l \in Int /\ o \in Int /\ l < o
        /\ i < l \/ o <= i
        /\ j < l \/ o <= j
    BY <1>7, <2>1
  <2> QED
    BY <2>2
<1>12. \A j \in S : \E x \in 1 .. k : Elemento(S, x) = j
  <2> SUFFICES ASSUME NEW j \in S PROVE \E x \in 1 .. k : Elemento(S, x) = j
    OBVIOUS
  <2> HIDE DEF S
  <2>1. Rango(S, j) \in 0 .. k - 1
    BY <1>6, RangoAcotado
  <2>2. Rango(S, j) + 1 \in 1 .. k /\ (Rango(S, j) + 1) - 1 = Rango(S, j)
    BY <1>6, <2>1
  <2>3. /\ Elemento(S, Rango(S, j) + 1) \in S
        /\ Rango(S, Elemento(S, Rango(S, j) + 1)) = Rango(S, j)
    BY <1>6, <2>2, ElementoExiste
  <2>4. Elemento(S, Rango(S, j) + 1) = j
    BY <1>6, <2>3, RangoUnico
  <2> QED
    BY <2>2, <2>4
<1>13. \A x, y \in 1 .. k : x < y => Elemento(S, x) < Elemento(S, y)
  BY <1>6, ElementoCrece
<1> HIDE DEF S, T, k
<1>14. Cardinality(T) = k /\ \A x \in 1 .. k : Elemento(T, x) = f[x]
  <2>1. f \in [1 .. k -> T]
    BY <1>8, <1>10
  <2>2. \A x, y \in 1 .. k : x < y => f[x] < f[y]
    BY <1>10, <1>11, <1>13
  <2>3. \A j \in T : \E x \in 1 .. k : f[x] = j
    <3> SUFFICES ASSUME NEW j \in T PROVE \E x \in 1 .. k : f[x] = j
      OBVIOUS
    <3>1. PICK i \in S : Va(i) = j
      BY <1>9
    <3>2. PICK x \in 1 .. k : Elemento(S, x) = i
      BY <1>12
    <3> QED
      BY <3>1, <3>2
  <2> HIDE DEF f
  <2> QED
    BY <1>6, <2>1, <2>2, <2>3, Enumera
<1>15. \A x \in 1 .. k : disco'[Elemento(T, x)] = disco[Elemento(S, x)]
  <2> SUFFICES ASSUME NEW x \in 1 .. k
               PROVE  disco'[Elemento(T, x)] = disco[Elemento(S, x)]
    OBVIOUS
  <2>1. Elemento(T, x) = Va(Elemento(S, x)) /\ Elemento(S, x) \in S
    BY <1>10, <1>14
  <2>2. Elemento(S, x) \in Paginas /\ Elemento(S, x) # l
    <3>1. l \in Int /\ o \in Int /\ l < o
      BY <1>1 DEF Paginas
    <3> QED
      BY <1>6, <1>7, <2>1, <3>1
  <2> QED
    BY <1>1, <1>4, <2>1, <2>2
<1>16. EnOrden(q)' = [x \in 1 .. k |-> disco'[Elemento(T, x)]]
  BY <1>14, ListaEsLuego DEF T
<1>17. EnOrden(q) = [x \in 1 .. k |-> disco[Elemento(S, x)]]
  BY ListaEs DEF S, k
<1> QED
  BY <1>15, <1>16, <1>17

LEMMA PasoDeAlmacen == IInv /\ [Next]_vars => [A!Next]_A!vars
<1> SUFFICES ASSUME IInv, [Next]_vars PROVE A!Next \/ UNCHANGED A!vars
  BY DEF A!vars
<1>1. ASSUME NEW p \in Pids, NEW c \in Codigos, Inicializar(p, c)
      PROVE  A!Next \/ UNCHANGED A!vars
  <2>1. CASE hayLugarParaNuevoProceso(Len(c)) # -1
    <3>1. A!Inicializa(p, c)
      BY <1>1, <2>1, InstalaInicializa DEF Inicializar
    <3> QED
      BY <3>1 DEF A!Next
  <2>2. CASE hayLugarParaNuevoProceso(Len(c)) = -1
    <3>1. paginasSWAP' = paginasSWAP /\ disco' = disco /\ respuesta' = respuesta
      BY <1>1, <2>2 DEF Inicializar
    <3>2. \A q \in Pids : EnOrden(q)' = EnOrden(q)
      BY <3>1, MismaLista DEF PaginasDe
    <3> QED
      BY <3>1, <3>2 DEF A!vars
  <2> QED
    BY <2>1, <2>2
<1>2. ASSUME NEW p \in Pids, Finalizar(p)
      PROVE  A!Next \/ UNCHANGED A!vars
  BY <1>2, FinalizarFinaliza DEF A!Next
<1>3. ASSUME NEW p \in Pids, NEW n \in Paginas, Leer(p, n)
      PROVE  A!Next \/ UNCHANGED A!vars
  BY <1>3, LeerLee DEF A!Next, Paginas
<1>4. ASSUME NEW p \in Pids, NEW n \in Paginas, NEW v \in Valores, Escribir(p, n, v)
      PROVE  A!Next \/ UNCHANGED A!vars
  BY <1>4, EscribirEscribe DEF A!Next, Paginas
<1>5. CASE compactacion
  <2>1. \A q \in Pids : EnOrden(q)' = EnOrden(q)
    BY <1>5, MueveEnOrden
  <2> QED
    BY <1>5, <2>1 DEF A!vars, compactacion
<1>6. CASE Reintenta
  <2>1. /\ pedido.pid \in Pids /\ pedido.codigo \in Codigos
        /\ PaginasDe(pedido.pid) = {}
        /\ primerPaginaOcupadaLuegoDeUnaLibre = -1
    BY <1>6 DEF Reintenta, IInv, TypeOK, PedidoNuevo
  <2>2. A!Inicializa(pedido.pid, pedido.codigo)
    <3>1. CASE hayLugarParaNuevoProceso(Len(pedido.codigo)) # -1
      BY <1>6, <2>1, <3>1, InstalaInicializa DEF Reintenta
    <3>2. CASE hayLugarParaNuevoProceso(Len(pedido.codigo)) = -1
      <4>1. /\ respuesta' = <<"NOHAYLUGAR">>
            /\ paginasSWAP' = paginasSWAP /\ disco' = disco
        BY <1>6, <3>2 DEF Reintenta
      <4>2. \A q \in Pids : EnOrden(q)' = EnOrden(q)
        BY <4>1, MismaLista DEF PaginasDe
      <4>3. ~(Len(pedido.codigo) <= A!Libres)
        BY <2>1, <3>2, SiNoCabe
      <4>4. Guardado[pedido.pid] = <<>> /\ Guardado' = Guardado
        BY <2>1, <4>2, ListaVacia DEF Guardado
      <4> QED
        BY <4>1, <4>3, <4>4 DEF A!Inicializa, Guardado
    <3> QED
      BY <3>1, <3>2
  <2> QED
    BY <2>1, <2>2 DEF A!Next
<1>7. CASE UNCHANGED vars
  <2>1. paginasSWAP' = paginasSWAP /\ disco' = disco /\ respuesta' = respuesta
    BY <1>7 DEF vars
  <2>2. \A q \in Pids : EnOrden(q)' = EnOrden(q)
    BY <2>1, MismaLista DEF PaginasDe
  <2> QED
    BY <2>1, <2>2 DEF A!vars
<1> QED
  BY <1>1, <1>2, <1>3, <1>4, <1>5, <1>6, <1>7 DEF Next, Compactando, Pedidos

LEMMA InicialDeAlmacen == Init => A!Init
<1> SUFFICES ASSUME Init PROVE A!Init
  OBVIOUS
<1>1. \A p \in Pids : PaginasDe(p) = {}
  BY NadieAssumption DEF Init, PaginasDe, Libre
<1>2. \A p \in Pids : EnOrden(p) = <<>>
  BY <1>1, ListaVacia
<1> QED
  BY <1>2 DEF Init, A!Init

(* The SWAP keeps the promise of Almacen to the UMC whatever the number of  *)
(* processes, pages and codes: an INICIALIZAR is refused only when the free *)
(* pages do not suffice, wherever the holes are, and a process reads what   *)
(* was last written to it through every compaction, arrival and end.        *)
THEOREM ImplementaAlmacenSiempre == Spec => ImplementaAlmacen
<1>1. Spec => A!Init /\ [][A!Next]_A!vars
  BY InicialDeAlmacen, PasoDeAlmacen, IInvSiempre, PTL DEF Spec
<1> QED
  BY <1>1 DEF ImplementaAlmacen, A!Spec
=============================================================================
