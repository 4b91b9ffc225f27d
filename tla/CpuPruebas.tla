----------------------------- MODULE CpuPruebas -----------------------------
(***************************************************************************)
(* Theorems about Cpu: the PCB survives its trip in a packet, what is run is *)
(* the instruction at the pc, and the stack of contexts keeps the variables *)
(* apart and in their pages, for any program, pages and bursts.             *)
(*                                                                         *)
(* First the lemmas about packing (PCBVuelve) and about leer (LeeLaDelPc),  *)
(* then the invariant Inv, what each primitive does to a machine that has   *)
(* it, the steps, and the theorems.                                        *)
(***************************************************************************)
EXTENDS Cpu, Minimos

(* Sums and flattened lists.                                                 *)

\* Two sequences one after the other.
LEMMA Pegadas ==
  ASSUME NEW T, NEW a \in Seq(T), NEW b \in Seq(T)
  PROVE  /\ a \o b \in Seq(T) /\ Len(a \o b) = Len(a) + Len(b)
         /\ \A x \in 1..Len(a) : (a \o b)[x] = a[x]
         /\ \A x \in 1..Len(b) : (a \o b)[Len(a) + x] = b[x]
<1>1. a \o b \in Seq(T) /\ Len(a \o b) = Len(a) + Len(b) /\ Len(a) \in Nat /\ Len(b) \in Nat
  OBVIOUS
<1>2. \A x \in 1..Len(a) : (a \o b)[x] = a[x]
  OBVIOUS
<1>3. ASSUME NEW x \in 1..Len(b) PROVE (a \o b)[Len(a) + x] = b[x]
  <2>1. Len(a) + x \in 1..(Len(a) + Len(b)) /\ ~(Len(a) + x <= Len(a)) /\ Len(a) + x - Len(a) = x
    BY <1>1
  <2> QED
    BY <2>1
<1> QED
  BY <1>1, <1>2, <1>3

\* A stretch of a sequence, by its elements.
LEMMA TramoEs ==
  ASSUME NEW T, NEW s \in Seq(T), NEW m \in Nat, NEW n \in Nat, m + n <= Len(s),
         NEW W, NEW r \in Seq(W), Len(r) = n, \A i \in 1..n : r[i] = s[m + i]
  PROVE  SubSeq(s, m + 1, m + n) = r
<1>1. SubSeq(s, m + 1, m + n) = [i \in 1..(1 + (m + n) - (m + 1)) |-> s[i + (m + 1) - 1]]
  OBVIOUS
<1>2. 1 + (m + n) - (m + 1) = n
  OBVIOUS
<1>3. \A i \in 1..n : i + (m + 1) - 1 = m + i
  OBVIOUS
<1>4. SubSeq(s, m + 1, m + n) = [i \in 1..n |-> s[m + i]]
  BY <1>1, <1>2, <1>3
<1>5. r = [i \in 1..n |-> r[i]]
  OBVIOUS
<1> QED
  BY <1>4, <1>5

\* f[i] is the sum of the first i.
Suma(f, L, n) == /\ f \in [0..n -> Nat] /\ f[0] = 0
                 /\ \A i \in 1..n : f[i] = f[i - 1] + L[i]

\* There are such sums.
LEMMA Acumula ==
  ASSUME NEW n \in Nat, NEW L \in [1..n -> Nat]
  PROVE  \E f : Suma(f, L, n)
<1> DEFINE S == {m \in Nat : m <= n => \E f : Suma(f, L, m)}
<1>1. 0 \in S
  <2> DEFINE f == [i \in 0..0 |-> 0]
  <2>1. Suma(f, L, 0)
    BY DEF Suma
  <2> HIDE DEF f
  <2> QED
    BY <2>1
<1>2. ASSUME NEW m \in S, m + 1 <= n PROVE \E f : Suma(f, L, m + 1)
  <2>1. m \in Nat /\ m <= n /\ L[m + 1] \in Nat
    BY <1>2
  <2>2. PICK f : Suma(f, L, m)
    BY <2>1
  <2> DEFINE g == [i \in 0..(m + 1) |-> IF i = m + 1 THEN f[m] + L[m + 1] ELSE f[i]]
  <2>3. g \in [0..(m + 1) -> Nat] /\ g[0] = 0
    BY <2>1, <2>2 DEF Suma
  <2>4. ASSUME NEW i \in 1..(m + 1) PROVE g[i] = g[i - 1] + L[i]
    <3>1. CASE i = m + 1
      <4>1. g[m + 1] = f[m] + L[m + 1] /\ g[m] = f[m] /\ (m + 1) - 1 = m
        BY <2>1
      <4> QED
        BY <3>1, <4>1
    <3>2. CASE i \in 1..m
      <4>1. i \in 0..(m + 1) /\ i - 1 \in 0..(m + 1) /\ i # m + 1 /\ i - 1 # m + 1
        BY <2>1, <3>2
      <4>2. g[i] = f[i] /\ g[i - 1] = f[i - 1]
        BY <4>1
      <4> QED
        BY <2>2, <3>2, <4>2 DEF Suma
    <3> QED
      BY <2>1, <3>1, <3>2
  <2>5. Suma(g, L, m + 1)
    BY <2>3, <2>4 DEF Suma
  <2> HIDE DEF g
  <2> QED
    BY <2>5
<1>3. \A m \in S : m + 1 \in S
  BY <1>2
<1> HIDE DEF S
<1>4. S \in SUBSET Nat
  BY DEF S
<1>5. n \in S
  BY <1>1, <1>3, <1>4, Induccion
<1> QED
  BY <1>5 DEF S

\* Their types, and one step of them.
LEMMA DeSuma ==
  ASSUME NEW n \in Nat, NEW L \in [1..n -> Nat], NEW f, Suma(f, L, n)
  PROVE  /\ f[0] = 0 /\ f[n] \in Nat
         /\ \A i \in 1..n : /\ i - 1 \in 0..n /\ f[i - 1] \in Nat /\ f[i] \in Nat /\ L[i] \in Nat
                           /\ f[i] = f[i - 1] + L[i]
<1>1. f \in [0..n -> Nat] /\ f[0] = 0
  BY DEF Suma
<1>2. ASSUME NEW i \in 1..n
      PROVE  i - 1 \in 0..n /\ f[i - 1] \in Nat /\ f[i] \in Nat /\ L[i] \in Nat
  BY <1>1
<1>3. \A i \in 1..n : f[i] = f[i - 1] + L[i]
  BY DEF Suma
<1> QED
  BY <1>1, <1>2, <1>3

\* The sums grow.
LEMMA Crece ==
  ASSUME NEW n \in Nat, NEW L \in [1..n -> Nat], NEW f, Suma(f, L, n)
  PROVE  \A j \in 0..n : \A i \in 0..j : f[i] <= f[j]
<1> DEFINE S == {j \in Nat : j <= n => \A i \in 0..j : f[i] <= f[j]}
<1>1. 0 \in S
  BY DEF Suma
<1>2. ASSUME NEW j \in S PROVE j + 1 \in S
  <2>1. SUFFICES ASSUME j + 1 <= n, NEW i \in 0..(j + 1)
                 PROVE  f[i] <= f[j + 1]
    OBVIOUS
  <2>2. j \in Nat /\ j \in 0..n /\ j + 1 \in 1..n /\ j + 1 \in 0..n /\ i \in 0..n
    BY <2>1
  <2>3. f[j + 1] = f[j] + L[j + 1] /\ L[j + 1] \in Nat /\ f[j] \in Nat /\ f[i] \in Nat
    BY <2>2 DEF Suma
  <2>4. CASE i = j + 1
    BY <2>3, <2>4
  <2>5. CASE i \in 0..j
    BY <2>2, <2>3, <2>5
  <2> QED
    BY <2>2, <2>4, <2>5
<1> HIDE DEF S
<1>3. S \in SUBSET Nat
  BY DEF S
<1>4. \A j \in Nat : j \in S
  BY <1>1, <1>2, <1>3, Induccion
<1> QED
  BY <1>4 DEF S

\* Every place up to the sum of all is in one of the parts.
LEMMA EnUno ==
  ASSUME NEW n \in Nat, NEW L \in [1..n -> Nat], NEW f, Suma(f, L, n), NEW p \in 1..f[n]
  PROVE  \E i \in 1..n : \E j \in 1..L[i] : p = f[i - 1] + j
<1> DEFINE S == {m \in Nat : m <= n /\ p <= f[m]}
<1>1. n \in S /\ S \in SUBSET Nat
  BY DEF Suma
<1>2. PICK i \in S : \A y \in S : i <= y
  <2> HIDE DEF S
  <2> QED
    BY <1>1, MenorExiste
<1>3. i \in Nat /\ i <= n /\ p <= f[i] /\ i # 0
  BY DEF Suma
<1>4. i - 1 \in Nat /\ i - 1 \notin S /\ i \in 1..n /\ i - 1 \in 0..n
  BY <1>2, <1>3
<1>5. f[i] = f[i - 1] + L[i] /\ f[i - 1] < p /\ f[i - 1] \in Nat /\ f[n] \in Nat /\ L[i] \in Nat
  BY <1>3, <1>4 DEF Suma
<1>6. p - f[i - 1] \in 1..L[i] /\ p = f[i - 1] + (p - f[i - 1])
  BY <1>3, <1>5
<1> QED
  BY <1>4, <1>6

(* What FlattenSeq gives: the elements of each list after those of the lists *)
(* before it.                                                                *)
Largos(ss) == [i \in 1..Len(ss) |-> Len(ss[i])]

\* Where each element of each list is in the flattened list.
LEMMA Aplanada ==
  ASSUME NEW T, NEW ss \in Seq(Seq(T)), NEW f, Suma(f, Largos(ss), Len(ss))
  PROVE  /\ FlattenSeq(ss) \in Seq(T) /\ Len(FlattenSeq(ss)) = f[Len(ss)]
         /\ \A i \in 1..Len(ss) : \A j \in 1..Len(ss[i]) :
              f[i - 1] + j \in 1..f[Len(ss)] /\ FlattenSeq(ss)[f[i - 1] + j] = ss[i][j]
<1> DEFINE n == Len(ss)
           Paso(g, i) == IF i = 1 THEN ss[i] ELSE g[i - 1] \o ss[i]
           plana == CHOOSE g : g = [i \in 1..n |-> Paso(g, i)]
<1>1. n \in Nat /\ \A i \in 1..n : ss[i] \in Seq(T)
  OBVIOUS
<1>2. CASE n = 0
  BY <1>1, <1>2 DEF FlattenSeq, Suma
<1>3. CASE n # 0
  <2>1. FlattenSeq(ss) = plana[n]
    BY <1>3 DEF FlattenSeq
  <2>2. \E g : g = [i \in 1..n |-> Paso(g, i)]
    <3> DEFINE S == {m \in Nat : \E g : g = [i \in 1..m |-> Paso(g, i)]}
    <3>1. 0 \in S
      <4> DEFINE g == [i \in 1..0 |-> <<>>]
      <4>1. g = [i \in 1..0 |-> Paso(g, i)]
        OBVIOUS
      <4> HIDE DEF g
      <4> QED
        BY <4>1
    <3>2. ASSUME NEW m \in S PROVE m + 1 \in S
      <4>1. PICK g : g = [i \in 1..m |-> Paso(g, i)]
        OBVIOUS
      <4>2. m \in Nat /\ \A i \in 1..m : g[i] = Paso(g, i)
        <5> HIDE DEF Paso
        <5> QED
          BY <4>1
      <4> DEFINE ultimo == Paso(g, m + 1)
                 h == [i \in 1..(m + 1) |-> IF i = m + 1 THEN ultimo ELSE g[i]]
      <4> HIDE DEF ultimo
      <4>3. \A i \in 1..m : h[i] = g[i]
        BY <4>2
      <4>4. h[m + 1] = ultimo
        BY <4>2
      <4> HIDE DEF h
      <4>5. ASSUME NEW i \in 1..(m + 1) PROVE Paso(h, i) = Paso(g, i)
        <5>1. CASE i = 1
          BY <5>1
        <5>2. CASE i # 1
          <6>1. i - 1 \in 1..m
            BY <4>2, <5>2
          <6> QED
            BY <4>3, <5>2, <6>1
        <5> QED
          BY <5>1, <5>2
      <4>6. \A i \in 1..(m + 1) : h[i] = Paso(h, i)
        <5>1. \A i \in 1..(m + 1) : i \in 1..m \/ i = m + 1
          BY <4>2
        <5> HIDE DEF Paso
        <5> QED
          BY <4>2, <4>3, <4>4, <4>5, <5>1 DEF ultimo
      <4>7. h = [i \in 1..(m + 1) |-> Paso(h, i)]
        <5> HIDE DEF Paso
        <5> QED
          BY <4>6 DEF h
      <4> HIDE DEF Paso
      <4> QED
        BY <4>2, <4>7
    <3> HIDE DEF S
    <3>3. S \in SUBSET Nat
      BY DEF S
    <3>4. n \in S
      BY <1>1, <3>1, <3>2, <3>3, Induccion
    <3> QED
      BY <3>4 DEF S
  <2>3. plana = [i \in 1..n |-> Paso(plana, i)]
    BY <2>2
  <2> HIDE DEF plana
  <2>4. \A i \in 1..n : plana[i] = Paso(plana, i)
    <3> HIDE DEF Paso
    <3> QED
      BY <2>3
  <2> DEFINE Hecho(m) ==
               /\ plana[m] \in Seq(T) /\ Len(plana[m]) = f[m]
               /\ \A i \in 1..m : \A j \in 1..Len(ss[i]) :
                    f[i - 1] + j \in 1..f[m] /\ plana[m][f[i - 1] + j] = ss[i][j]
  <2>5. /\ f[0] = 0 /\ \A i \in 0..n : f[i] \in Nat
        /\ \A i \in 1..n : f[i] = f[i - 1] + Len(ss[i]) /\ Len(ss[i]) \in Nat
    <3>1. \A i \in 1..n : Largos(ss)[i] = Len(ss[i]) /\ Len(ss[i]) \in Nat
      BY <1>1 DEF Largos
    <3> QED
      BY <1>1, <3>1 DEF Suma
  <2> DEFINE S == {m \in Nat : m \in 1..n => Hecho(m)}
  <2>6. 0 \in S
    OBVIOUS
  <2>7. ASSUME NEW m \in S PROVE m + 1 \in S
    <3> SUFFICES ASSUME m + 1 \in 1..n PROVE Hecho(m + 1)
      OBVIOUS
    <3>1. m \in Nat
      OBVIOUS
    <3>2. CASE m = 0
      <4>1. plana[1] = ss[1] /\ 1 \in 1..n /\ f[1] = Len(ss[1]) /\ f[1 - 1] = 0
        BY <1>1, <2>4, <2>5, <3>2
      <4> QED
        BY <1>1, <2>5, <3>2, <4>1
    <3>3. CASE m # 0
      <4>1. m \in 1..n /\ Hecho(m) /\ m + 1 # 1 /\ (m + 1) - 1 = m /\ m + 1 \in 1..n
        BY <1>1, <3>1, <3>3, SMTT(40)
      <4>2. PICK a, b, c : a = plana[m] /\ b = ss[m + 1] /\ c = plana[m + 1]
        OBVIOUS
      <4>3. c = a \o b
        <5>1. plana[m + 1] = Paso(plana, m + 1)
          BY <2>4, <4>1
        <5> QED
          BY <4>1, <4>2, <5>1
      <4>4. a \in Seq(T) /\ b \in Seq(T) /\ Len(a) = f[m]
        BY <1>1, <4>1, <4>2
      <4>5. f[m + 1] = f[m] + Len(b) /\ f[m] \in Nat /\ f[m + 1] \in Nat /\ Len(b) \in Nat
        BY <1>1, <2>5, <4>1, <4>2
      <4>6. /\ c \in Seq(T) /\ Len(c) = f[m + 1]
            /\ \A x \in 1..Len(a) : c[x] = a[x]
            /\ \A x \in 1..Len(b) : c[Len(a) + x] = b[x]
        <5>1. /\ c \in Seq(T) /\ Len(c) = Len(a) + Len(b)
              /\ \A x \in 1..Len(a) : c[x] = a[x]
              /\ \A x \in 1..Len(b) : c[Len(a) + x] = b[x]
          <6>1. a \in Seq(T) /\ b \in Seq(T)
            BY <4>4
          <6>2. /\ a \o b \in Seq(T) /\ Len(a \o b) = Len(a) + Len(b)
                /\ \A x \in 1..Len(a) : (a \o b)[x] = a[x]
                /\ \A x \in 1..Len(b) : (a \o b)[Len(a) + x] = b[x]
            BY ONLY <6>1, Pegadas
          <6> QED
            BY <4>3, <6>2
        <5> QED
          BY <4>4, <4>5, <5>1
      <4>7. ASSUME NEW i \in 1..(m + 1), NEW j \in 1..Len(ss[i])
            PROVE  f[i - 1] + j \in 1..f[m + 1] /\ c[f[i - 1] + j] = ss[i][j]
        <5>1. CASE i \in 1..m
          <6>1. f[i - 1] + j \in 1..f[m] /\ a[f[i - 1] + j] = ss[i][j]
            BY <4>1, <4>2, <5>1
          <6>2. f[i - 1] + j \in 1..Len(a) /\ f[i - 1] + j \in 1..f[m + 1]
            <7>1. PICK x : x = f[i - 1] + j
              OBVIOUS
            <7>2. x \in 1..f[m] /\ f[m] <= f[m + 1] /\ Len(a) = f[m]
              BY <4>4, <4>5, <6>1, <7>1, SMTT(40)
            <7> QED
              BY <4>5, <7>1, <7>2
          <6> QED
            BY <4>6, <6>1, <6>2
        <5>2. CASE i = m + 1
          <6>1. i - 1 = m /\ j \in 1..Len(b) /\ ss[i] = b
            BY <3>1, <4>2, <5>2
          <6>2. f[i - 1] = Len(a) /\ Len(a) + j \in 1..f[m + 1]
            BY <4>4, <4>5, <6>1, SMTT(40)
          <6> QED
            BY <4>6, <6>1, <6>2
        <5>3. i \in 1..m \/ i = m + 1
          BY <3>1
        <5> QED
          BY <5>1, <5>2, <5>3
      <4> QED
        BY <4>2, <4>6, <4>7
    <3> QED
      BY <3>2, <3>3
  <2> HIDE DEF S
  <2>8. S \in SUBSET Nat
    BY DEF S
  <2>9. n \in S
    BY <1>1, <2>6, <2>7, <2>8, Induccion
  <2>10. Hecho(n)
    <3> HIDE DEF Hecho
    <3> QED
      BY <1>1, <1>3, <2>9 DEF S
  <2> QED
    BY <2>1, <2>10
<1> QED
  BY <1>2, <1>3
-----------------------------------------------------------------------------
(* A context in a packet.                                                    *)

Cabeceras == [pos : Nat, retPos : Posiciones, retVar : Direcciones, sizeArgs : Nat, sizeVars : Nat]
Elementos == Int \cup Letras \cup Direcciones \cup Cabeceras

\* The elements that a context takes.
Largo(c) == 1 + Len(c.args) + 4 * Len(c.vars)

Declaradas == [etiqueta : Letras, direccion : Direcciones]

\* The fields of a context.
LEMMA DelContexto ==
  ASSUME NEW c \in Contexto
  PROVE  /\ c.args \in Seq(Direcciones) /\ c.vars \in Seq(Declaradas)
         /\ Len(c.args) \in Nat /\ DOMAIN c.args = 1..Len(c.args)
         /\ Len(c.vars) \in Nat /\ DOMAIN c.vars = 1..Len(c.vars)
         /\ \A i \in 1..Len(c.args) : c.args[i] \in Direcciones
         /\ \A i \in 1..Len(c.vars) : c.vars[i] \in Declaradas
         /\ c.pos \in Nat /\ c.retPos \in Posiciones /\ c.retVar \in Direcciones
         /\ c = [pos |-> c.pos, args |-> c.args, vars |-> c.vars, retPos |-> c.retPos,
                 retVar |-> c.retVar]
<1>1. PICK D, V, P : D = Direcciones /\ V = Declaradas /\ P = Posiciones
  OBVIOUS
<1>2. c \in [pos : Nat, args : Seq(D), vars : Seq(V), retPos : P, retVar : D]
  BY <1>1 DEF Contexto, Declaradas
<1>3. /\ c.args \in Seq(D) /\ c.vars \in Seq(V) /\ c.pos \in Nat /\ c.retPos \in P /\ c.retVar \in D
      /\ c = [pos |-> c.pos, args |-> c.args, vars |-> c.vars, retPos |-> c.retPos,
              retVar |-> c.retVar]
  BY <1>2
<1>4. /\ Len(c.args) \in Nat /\ DOMAIN c.args = 1..Len(c.args)
      /\ \A i \in 1..Len(c.args) : c.args[i] \in D
  BY <1>3
<1>5. /\ Len(c.vars) \in Nat /\ DOMAIN c.vars = 1..Len(c.vars)
      /\ \A i \in 1..Len(c.vars) : c.vars[i] \in V
  BY <1>3
<1> QED
  BY <1>1, <1>3, <1>4, <1>5

\* What a context takes is a number of elements.
LEMMA LargosDelContexto ==
  ASSUME NEW c \in Contexto
  PROVE  Len(c.args) \in Nat /\ Len(c.vars) \in Nat /\ Largo(c) \in Nat \ {0}
<1>1. PICK la, lv : la = Len(c.args) /\ lv = Len(c.vars)
  OBVIOUS
<1>2. la \in Nat /\ lv \in Nat
  BY <1>1, DelContexto
<1>3. Largo(c) = 1 + la + 4 * lv
  BY <1>1 DEF Largo
<1>4. 1 + la + 4 * lv \in Nat \ {0}
  BY <1>2
<1> QED
  BY <1>1, <1>2, <1>3, <1>4

\* The variables, four elements each.
LEMMA SerieDeVariables ==
  ASSUME NEW c \in Contexto, NEW s,
         s = FlattenSeq([y \in DOMAIN c.vars |-> SerializarVariable(c.vars[y])])
  PROVE  /\ s \in Seq(Elementos) /\ Len(s) = 4 * Len(c.vars)
         /\ \A y \in 1..Len(c.vars) : \A j \in 1..4 :
              s[4 * (y - 1) + j] = SerializarVariable(c.vars[y])[j]
<1> DEFINE n == Len(c.vars)
           ss == [y \in 1..n |-> SerializarVariable(c.vars[y])]
           f == [i \in 0..n |-> 4 * i]
<1>1. n \in Nat /\ DOMAIN c.vars = 1..n /\ \A y \in 1..n : c.vars[y] \in Declaradas
  BY DelContexto
<1>2. ASSUME NEW y \in 1..n PROVE ss[y] \in Seq(Elementos) /\ Len(ss[y]) = 4
  <2>1. /\ c.vars[y].etiqueta \in Elementos /\ c.vars[y].direccion.offset \in Elementos
        /\ c.vars[y].direccion.size \in Elementos /\ c.vars[y].direccion.pagina \in Elementos
    BY <1>1 DEF Declaradas, Direcciones, Elementos
  <2> QED
    BY <2>1 DEF SerializarVariable
<1>3. ss \in Seq(Seq(Elementos)) /\ Len(ss) = n
  <2> HIDE DEF n
  <2>1. DOMAIN ss = 1..n /\ ss = [y \in 1..n |-> ss[y]]
    OBVIOUS
  <2> HIDE DEF ss
  <2> QED
    BY <1>1, <1>2, <2>1, SMTT(40)
<1>4. Suma(f, Largos(ss), Len(ss))
  <2> HIDE DEF ss
  <2>1. f \in [0..n -> Nat] /\ f[0] = 0 /\ \A i \in 1..n : f[i] = f[i - 1] + 4
    BY <1>1
  <2>2. \A i \in 1..n : Largos(ss)[i] = 4
    BY <1>2, <1>3 DEF Largos
  <2> HIDE DEF f
  <2> QED
    BY <1>3, <2>1, <2>2 DEF Suma
<1>5. s = FlattenSeq(ss)
  BY <1>1
<1>6. ASSUME NEW y \in 1..n PROVE f[y - 1] = 4 * (y - 1)
  BY <1>1
<1>7. f[n] = 4 * n
  BY <1>1
<1> HIDE DEF f
<1>8. \A y \in 1..n : ss[y] = SerializarVariable(c.vars[y])
  OBVIOUS
<1> HIDE DEF ss
<1>9. /\ FlattenSeq(ss) \in Seq(Elementos) /\ Len(FlattenSeq(ss)) = f[Len(ss)]
      /\ \A i \in 1..Len(ss) : \A j \in 1..Len(ss[i]) : FlattenSeq(ss)[f[i - 1] + j] = ss[i][j]
  BY ONLY <1>3, <1>4, Aplanada
<1>10. ASSUME NEW y \in 1..n, NEW j \in 1..4
       PROVE  s[4 * (y - 1) + j] = SerializarVariable(c.vars[y])[j]
  <2>1. y \in 1..Len(ss) /\ j \in 1..Len(ss[y])
    BY <1>2, <1>3
  <2>2. FlattenSeq(ss)[f[y - 1] + j] = ss[y][j]
    BY <1>9, <2>1
  <2> QED
    BY <1>5, <1>6, <1>8, <2>2
<1> QED
  BY <1>3, <1>5, <1>7, <1>9, <1>10

\* A context: its header, its arguments and its variables.
EsSerie(s, c) ==
  /\ s \in Seq(Elementos) /\ Len(s) = Largo(c)
  /\ s[1] = [pos |-> c.pos, retPos |-> c.retPos, retVar |-> c.retVar,
             sizeArgs |-> Len(c.args), sizeVars |-> Len(c.vars)]
  /\ \A j \in 1..Len(c.args) : s[1 + j] = c.args[j]
  /\ \A y \in 1..Len(c.vars) : \A j \in 1..4 :
       s[1 + Len(c.args) + 4 * (y - 1) + j] = SerializarVariable(c.vars[y])[j]

\* SerializarContexto: the header, the arguments and the variables in their order.
LEMMA SerieDeContexto ==
  ASSUME NEW c \in Contexto, NEW s, s = SerializarContexto(c)
  PROVE  EsSerie(s, c)
<1>1. PICK k, a, v :
        /\ k = [pos |-> c.pos, retPos |-> c.retPos, retVar |-> c.retVar,
                sizeArgs |-> Len(c.args), sizeVars |-> Len(c.vars)]
        /\ a = c.args
        /\ v = FlattenSeq([y \in DOMAIN c.vars |-> SerializarVariable(c.vars[y])])
  OBVIOUS
<1>2. s = <<k>> \o a \o v
  BY <1>1 DEF SerializarContexto
<1>3. /\ v \in Seq(Elementos) /\ Len(v) = 4 * Len(c.vars)
      /\ \A y \in 1..Len(c.vars) : \A j \in 1..4 :
           v[4 * (y - 1) + j] = SerializarVariable(c.vars[y])[j]
  BY <1>1, SerieDeVariables, SMTT(40)
<1>4. k \in Elementos /\ a \in Seq(Elementos) /\ Len(c.vars) \in Nat /\ Len(a) \in Nat
  <2>1. c.args \in Seq(Direcciones) /\ Len(c.args) \in Nat /\ Len(c.vars) \in Nat
    BY DEF Contexto
  <2>2. k \in Cabeceras
    BY <1>1, <2>1 DEF Contexto, Cabeceras
  <2> QED
    BY <1>1, <2>1, <2>2 DEF Elementos
<1>5. <<k>> \in Seq(Elementos) /\ Len(<<k>>) = 1 /\ <<k>>[1] = k
  BY <1>4
<1>6. PICK q, r : q = <<k>> /\ r = q \o a
  OBVIOUS
<1>7. q \in Seq(Elementos) /\ a \in Seq(Elementos) /\ Len(q) = 1 /\ q[1] = k
  BY <1>4, <1>5, <1>6
<1>8. /\ r \in Seq(Elementos) /\ Len(r) = Len(q) + Len(a)
      /\ \A x \in 1..Len(q) : r[x] = q[x]
      /\ \A x \in 1..Len(a) : r[Len(q) + x] = a[x]
  <2>1. /\ q \o a \in Seq(Elementos) /\ Len(q \o a) = Len(q) + Len(a)
        /\ \A x \in 1..Len(q) : (q \o a)[x] = q[x]
        /\ \A x \in 1..Len(a) : (q \o a)[Len(q) + x] = a[x]
    BY ONLY <1>7, Pegadas
  <2> QED
    BY ONLY <1>6, <2>1
<1>9. /\ r \o v \in Seq(Elementos) /\ Len(r \o v) = Len(r) + Len(v)
      /\ \A x \in 1..Len(r) : (r \o v)[x] = r[x]
      /\ \A x \in 1..Len(v) : (r \o v)[Len(r) + x] = v[x]
  <2>1. r \in Seq(Elementos) /\ v \in Seq(Elementos)
    BY <1>3, <1>8
  <2> QED
    BY ONLY <2>1, Pegadas
<1>10. s = r \o v
  BY <1>2, <1>6
<1>11. /\ s \in Seq(Elementos) /\ Len(s) = Len(r) + Len(v)
       /\ \A x \in 1..Len(r) : s[x] = r[x]
       /\ \A x \in 1..Len(v) : s[Len(r) + x] = v[x]
  BY ONLY <1>9, <1>10
<1>12. Len(r) = 1 + Len(c.args) /\ Len(c.args) \in Nat
  BY <1>1, <1>4, <1>7, <1>8
<1>13. Len(s) = Largo(c) /\ s[1] = k
  <2>1. Len(s) = 1 + Len(c.args) + 4 * Len(c.vars)
    BY <1>3, <1>11, <1>12
  <2>2. 1 \in 1..Len(r) /\ 1 \in 1..Len(q)
    BY <1>7, <1>12
  <2>3. s[1] = r[1] /\ r[1] = q[1]
    BY <1>8, <1>11, <2>2
  <2> QED
    BY <1>7, <2>1, <2>3 DEF Largo
<1>14. ASSUME NEW j \in 1..Len(c.args) PROVE s[1 + j] = c.args[j]
  <2>1. j \in 1..Len(a) /\ 1 + j \in 1..Len(r)
    BY <1>1, <1>12
  <2> QED
    BY <1>1, <1>7, <1>8, <1>11, <2>1, SMTT(40)
<1>15. ASSUME NEW y \in 1..Len(c.vars), NEW j \in 1..4
       PROVE  s[1 + Len(c.args) + 4 * (y - 1) + j] = SerializarVariable(c.vars[y])[j]
  <2>1. PICK la, lv : la = Len(c.args) /\ lv = Len(c.vars)
    OBVIOUS
  <2>2. la \in Nat /\ lv \in Nat /\ Len(v) = 4 * lv /\ Len(r) = 1 + la /\ y \in 1..lv
    BY <1>3, <1>4, <1>12, <2>1
  <2>3. 4 * (y - 1) + j \in 1..(4 * lv) /\ (1 + la) + (4 * (y - 1) + j) = 1 + la + 4 * (y - 1) + j
    BY <2>2
  <2>4. s[Len(r) + (4 * (y - 1) + j)] = v[4 * (y - 1) + j]
    BY <1>11, <2>2, <2>3
  <2> QED
    BY <1>3, <2>1, <2>2, <2>3, <2>4
<1> QED
  BY <1>1, <1>11, <1>13, <1>14, <1>15 DEF EsSerie

\* A context that starts at place n of a packet is read as it was written.
LEMMA ContextoVuelve ==
  ASSUME NEW c \in Contexto, NEW U, NEW b \in Seq(U), NEW n \in Nat \ {0},
         n + Largo(c) - 1 <= Len(b),
         \A j \in 1..Largo(c) : b[n - 1 + j] = SerializarContexto(c)[j]
  PROVE  DesserializarContexto(b, n) = c
<1>1. PICK s : s = SerializarContexto(c)
  OBVIOUS
<1>2. /\ s[1] = [pos |-> c.pos, retPos |-> c.retPos, retVar |-> c.retVar,
                 sizeArgs |-> Len(c.args), sizeVars |-> Len(c.vars)]
      /\ \A j \in 1..Len(c.args) : s[1 + j] = c.args[j]
      /\ \A y \in 1..Len(c.vars) : \A j \in 1..4 :
           s[1 + Len(c.args) + 4 * (y - 1) + j] = SerializarVariable(c.vars[y])[j]
  <2>1. EsSerie(s, c)
    BY <1>1, SerieDeContexto
  <2> QED
    BY ONLY <2>1 DEF EsSerie
<1>3. PICK la, lv : la = Len(c.args) /\ lv = Len(c.vars)
  OBVIOUS
<1>4. /\ la \in Nat /\ lv \in Nat /\ Largo(c) = 1 + la + 4 * lv
      /\ c.args \in Seq(Direcciones) /\ DOMAIN c.vars = 1..lv
      /\ \A i \in 1..lv : c.vars[i] \in Declaradas
      /\ c = [pos |-> c.pos, args |-> c.args, vars |-> c.vars, retPos |-> c.retPos,
              retVar |-> c.retVar]
  BY <1>3, DelContexto DEF Largo
<1>5. /\ b[n].pos = c.pos /\ b[n].retPos = c.retPos /\ b[n].retVar = c.retVar
      /\ b[n].sizeArgs = la /\ b[n].sizeVars = lv
  <2>1. 1 \in 1..Largo(c) /\ n - 1 + 1 = n
    BY <1>4
  <2>2. b[n] = s[1]
    BY <1>1, <2>1
  <2> QED
    BY <1>2, <1>3, <2>2
<1>6. SubSeq(b, n + 1, n + la) = c.args
  <2>1. ASSUME NEW j \in 1..la PROVE b[n + j] = c.args[j] /\ n + j \in 1..Len(b)
    <3>1. 1 + j \in 1..Largo(c) /\ n - 1 + (1 + j) = n + j
      BY <1>4
    <3>2. b[n + j] = s[1 + j]
      BY <1>1, <3>1
    <3> QED
      BY <1>2, <1>3, <1>4, <3>1, <3>2, SMTT(40)
  <2>2. n + 1 \in Nat /\ n + la \in Nat /\ n + la <= Len(b) /\ Len(b) \in Nat
    BY <1>4
  <2>3. PICK q : q = c.args
    OBVIOUS
  <2>4. /\ b \in Seq(U) /\ n \in Nat /\ la \in Nat /\ n + la <= Len(b)
        /\ q \in Seq(Direcciones) /\ Len(q) = la /\ \A j \in 1..la : q[j] = b[n + j]
    BY <1>3, <1>4, <2>1, <2>2, <2>3
  <2>5. SubSeq(b, n + 1, n + la) = q
    BY ONLY <2>4, TramoEs
  <2> QED
    BY <2>3, <2>5
<1>7. ASSUME NEW y \in 1..lv, NEW k, k = n + la + 4 * (y - 1) + 1
      PROVE  [etiqueta |-> b[k], direccion |-> DesserializarDireccion(b, k)] = c.vars[y]
  <2>1. ASSUME NEW j \in 1..4 PROVE b[k - 1 + j] = SerializarVariable(c.vars[y])[j]
    <3>1. /\ 1 + la + 4 * (y - 1) + j \in 1..(1 + la + 4 * lv)
          /\ n - 1 + (1 + la + 4 * (y - 1) + j) = k - 1 + j
      <4>1. la \in Nat /\ lv \in Nat
        BY <1>4
      <4> QED
        BY <1>7, <4>1
    <3>2. b[k - 1 + j] = s[1 + la + 4 * (y - 1) + j]
      BY <1>1, <1>4, <3>1
    <3> QED
      BY <1>2, <1>3, <3>2
  <2>2. k \in Nat /\ k - 1 + 1 = k /\ k - 1 + 2 = k + 1 /\ k - 1 + 3 = k + 2 /\ k - 1 + 4 = k + 3
    <3>1. la \in Nat
      BY <1>4
    <3> QED
      BY <1>7, <3>1
  <2>3. 1 \in 1..4 /\ 2 \in 1..4 /\ 3 \in 1..4 /\ 4 \in 1..4
    OBVIOUS
  <2>4. /\ b[k] = SerializarVariable(c.vars[y])[1] /\ b[k + 1] = SerializarVariable(c.vars[y])[2]
        /\ b[k + 2] = SerializarVariable(c.vars[y])[3] /\ b[k + 3] = SerializarVariable(c.vars[y])[4]
    BY <2>1, <2>2, <2>3
  <2>5. /\ b[k] = c.vars[y].etiqueta /\ b[k + 1] = c.vars[y].direccion.offset
        /\ b[k + 2] = c.vars[y].direccion.size /\ b[k + 3] = c.vars[y].direccion.pagina
    BY <2>4 DEF SerializarVariable
  <2>6. c.vars[y] \in Declaradas
    BY <1>4
  <2> QED
    BY <2>5, <2>6 DEF DesserializarDireccion, Declaradas, Direcciones
<1>8. PICK v : v = [y \in 1..lv |-> [etiqueta |-> b[n + la + 4 * (y - 1) + 1],
                       direccion |-> DesserializarDireccion(b, n + la + 4 * (y - 1) + 1)]]
  OBVIOUS
<1>9. v = c.vars
  <2>1. \A y \in 1..lv : v[y] = c.vars[y]
    BY <1>7, <1>8
  <2>2. c.vars = [y \in 1..lv |-> c.vars[y]]
    <3>1. c.vars \in Seq(Declaradas)
      BY DelContexto
    <3> QED
      BY <1>3, <1>4, <3>1
  <2>3. v = [y \in 1..lv |-> v[y]]
    BY <1>8
  <2> QED
    BY <2>1, <2>2, <2>3
<1>10. DesserializarContexto(b, n) =
         [pos |-> c.pos, retPos |-> c.retPos, retVar |-> c.retVar, args |-> c.args, vars |-> v]
  BY <1>5, <1>6, <1>8 DEF DesserializarContexto
<1> QED
  BY <1>4, <1>9, <1>10
-----------------------------------------------------------------------------
(* The PCB in a packet.                                                      *)

\* What can be packed: the indices, and a context at each entry that counts.
EnPCB(m) ==
  /\ m.indice \in Seq(Nat) /\ m.etiquetas \in Seq(Posiciones) /\ m.size \in Nat
  /\ \E k \in Nat : Len(m.indice) = 2 * k
  /\ \A i \in 1..m.size : Contextos(m)[i] \in Contexto

\* Where the contexts begin.
Base(m) == 1 + Len(m.indice) + Len(m.etiquetas)
LargosDe(m) == [i \in 1..m.size |-> Largo(Contextos(m)[i])]

CabeceraDe(m) == [pc |-> m.pc, sizeContextoActual |-> m.size,
                  sizeIndiceDeCodigo |-> Len(m.indice) \div 2,
                  sizeIndiceDeEtiquetas |-> Len(m.etiquetas), sizeTotal |-> sizeTotal(m)]

\* The numbers that the packing of a PCB counts with.
LEMMA TiposDelPCB ==
  ASSUME NEW m, EnPCB(m)
  PROVE  /\ Len(m.indice) \in Nat /\ Len(m.etiquetas) \in Nat /\ m.size \in Nat /\ Base(m) \in Nat
         /\ \A i \in 1..m.size : Largo(Contextos(m)[i]) \in Nat
         /\ LargosDe(m) \in [1..m.size -> Nat]
<1>1. Len(m.indice) \in Nat /\ Len(m.etiquetas) \in Nat /\ m.size \in Nat
  BY DEF EnPCB
<1>2. ASSUME NEW i \in 1..m.size PROVE Largo(Contextos(m)[i]) \in Nat
  <2>1. PICK c \in Contexto : c = Contextos(m)[i]
    BY DEF EnPCB
  <2> QED
    BY <2>1, LargosDelContexto
<1>3. Base(m) \in Nat
  <2>1. PICK x, y : x = Len(m.indice) /\ y = Len(m.etiquetas)
    OBVIOUS
  <2>2. x \in Nat /\ y \in Nat /\ Base(m) = 1 + x + y
    BY <1>1, <2>1 DEF Base
  <2> QED
    BY ONLY <2>2
<1>4. LargosDe(m) \in [1..m.size -> Nat]
  BY <1>2 DEF LargosDe
<1> QED
  BY <1>1, <1>2, <1>3, <1>4

\* The count is the sum of what each context takes.
LEMMA Cuenta ==
  ASSUME NEW m, EnPCB(m), NEW f, Suma(f, LargosDe(m), m.size)
  PROVE  sizeTotal(m) = Base(m) + f[m.size]
<1> DEFINE n == m.size
           Hasta(h, i) == IF i = 0 THEN 1 + Len(m.indice) + Len(m.etiquetas)
                          ELSE LET c == Contextos(m)[i]
                               IN  h[i - 1] + 1 + Len(c.args) + 4 * Len(c.vars)
           hasta == CHOOSE h : h = [i \in 0..n |-> Hasta(h, i)]
           g == [i \in 0..n |-> Base(m) + f[i]]
<1>1. sizeTotal(m) = hasta[n]
  BY DEF sizeTotal
<1>2. n \in Nat /\ Base(m) \in Nat /\ f[0] = 0 /\ \A i \in 0..n : f[i] \in Nat
  BY TiposDelPCB DEF Suma
<1>3. ASSUME NEW i \in 1..n
      PROVE  /\ f[i] = f[i - 1] + 1 + Len(Contextos(m)[i].args) + 4 * Len(Contextos(m)[i].vars)
             /\ Len(Contextos(m)[i].args) \in Nat /\ Len(Contextos(m)[i].vars) \in Nat
             /\ i - 1 \in 0..n /\ f[i - 1] \in Nat
  <2>1. f[i] = f[i - 1] + LargosDe(m)[i] /\ i - 1 \in 0..n /\ f[i - 1] \in Nat
    BY <1>2 DEF Suma
  <2>2. PICK c \in Contexto : c = Contextos(m)[i]
    BY DEF EnPCB
  <2>3. PICK la, lv : la = Len(c.args) /\ lv = Len(c.vars)
    OBVIOUS
  <2>4. LargosDe(m)[i] = 1 + la + 4 * lv
    BY <2>2, <2>3 DEF LargosDe, Largo
  <2>5. la \in Nat /\ lv \in Nat
    BY <2>3, LargosDelContexto
  <2>6. f[i] = f[i - 1] + 1 + la + 4 * lv
    BY <2>1, <2>4, <2>5
  <2> QED
    BY <2>1, <2>2, <2>3, <2>5, <2>6
<1>4. ASSUME NEW i \in 0..n PROVE g[i] = Hasta(g, i)
  <2>1. CASE i = 0
    BY <1>2, <2>1 DEF Base
  <2>2. CASE i # 0
    <3>1. i \in 1..n /\ g[i] = Base(m) + f[i] /\ g[i - 1] = Base(m) + f[i - 1]
      BY <1>2, <2>2
    <3> HIDE DEF g
    <3>2. Hasta(g, i) = g[i - 1] + 1 + Len(Contextos(m)[i].args) + 4 * Len(Contextos(m)[i].vars)
      BY <2>2
    <3>3. PICK x, la, lv : /\ x = f[i - 1] /\ la = Len(Contextos(m)[i].args)
                           /\ lv = Len(Contextos(m)[i].vars)
      OBVIOUS
    <3>4. f[i] = x + 1 + la + 4 * lv /\ x \in Nat /\ la \in Nat /\ lv \in Nat
      BY <1>3, <3>1, <3>3
    <3>5. g[i] = Base(m) + f[i] /\ g[i - 1] = Base(m) + x
      BY <3>1, <3>3
    <3> QED
      <4>1. Hasta(g, i) = Base(m) + x + 1 + la + 4 * lv
        BY <3>2, <3>3, <3>5
      <4> HIDE DEF Hasta
      <4> QED
        BY <1>2, <3>4, <3>5, <4>1
  <2> QED
    BY <2>1, <2>2
<1>5. \E h : h = [i \in 0..n |-> Hasta(h, i)]
  <2>1. g = [i \in 0..n |-> Hasta(g, i)]
    <3> HIDE DEF Hasta
    <3> QED
      BY <1>4
  <2> HIDE DEF g, Hasta
  <2> QED
    BY <2>1
<1>6. hasta = [i \in 0..n |-> Hasta(hasta, i)]
  <2> HIDE DEF Hasta
  <2> QED
    BY <1>5
<1>7. \A i \in 0..n : hasta[i] = Hasta(hasta, i)
  <2> HIDE DEF Hasta, hasta
  <2> QED
    BY <1>6
<1> HIDE DEF hasta
<1> DEFINE S == {i \in Nat : i <= n => hasta[i] = g[i]}
<1>8. 0 \in S
  <2>1. 0 \in 0..n /\ g[0] = Base(m) + f[0]
    BY <1>2
  <2>2. hasta[0] = Base(m)
    BY <1>7, <2>1 DEF Base
  <2> QED
    BY <1>2, <2>1, <2>2
<1>9. ASSUME NEW i \in S PROVE i + 1 \in S
  <2>1. SUFFICES ASSUME i + 1 <= n PROVE hasta[i + 1] = g[i + 1]
    OBVIOUS
  <2>2. i \in Nat /\ i + 1 \in 0..n /\ i + 1 # 0 /\ (i + 1) - 1 = i /\ hasta[i] = g[i]
    BY <1>2, <2>1
  <2> HIDE DEF g, S
  <2>3. hasta[i + 1] = Hasta(hasta, i + 1) /\ g[i + 1] = Hasta(g, i + 1)
    <3> HIDE DEF Hasta
    <3> QED
      BY <1>4, <1>7, <2>2
  <2> QED
    BY <2>2, <2>3
<1>10. n \in S
  <2> HIDE DEF S
  <2>1. S \in SUBSET Nat
    BY DEF S
  <2> QED
    BY <1>2, <1>8, <1>9, <2>1, Induccion
<1> QED
  BY <1>1, <1>2, <1>10

\* The packet: the header, the two indices and the contexts one after another,
\* with as many elements as were counted.
EsSerieDePCB(s, m, f) ==
  /\ s \in Seq(Elementos \cup {CabeceraDe(m)}) /\ Len(s) = Base(m) + f[m.size]
  /\ s[1] = CabeceraDe(m)
  /\ \A j \in 1..Len(m.indice) : s[1 + j] = m.indice[j]
  /\ \A j \in 1..Len(m.etiquetas) : s[1 + Len(m.indice) + j] = m.etiquetas[j]
  /\ \A i \in 1..m.size : \A j \in 1..Largo(Contextos(m)[i]) :
       /\ Base(m) + f[i - 1] + j \in 1..Len(s)
       /\ s[Base(m) + f[i - 1] + j] = SerializarContexto(Contextos(m)[i])[j]

\* serializarPCB: where each element of the PCB is in its packet.
LEMMA SerieDelPCB ==
  ASSUME NEW m, EnPCB(m), NEW f, Suma(f, LargosDe(m), m.size), NEW s, s = serializarPCB(m)
  PROVE  EsSerieDePCB(s, m, f)
<1> DEFINE U == Elementos \cup {CabeceraDe(m)}
<1>1. PICK k, a, e, ss : /\ k = <<CabeceraDe(m)>> /\ a = m.indice /\ e = m.etiquetas
                         /\ ss = [i \in 1..m.size |-> SerializarContexto(Contextos(m)[i])]
  OBVIOUS
<1>2. s = k \o a \o e \o FlattenSeq(ss)
  BY <1>1 DEF serializarPCB, CabeceraDe
<1>3. k \in Seq(U) /\ Len(k) = 1 /\ k[1] = CabeceraDe(m)
  BY <1>1
<1>4. a \in Seq(U) /\ e \in Seq(U) /\ Len(a) \in Nat /\ Len(e) \in Nat
  <2>1. a \in Seq(Nat) /\ e \in Seq(Posiciones)
    BY <1>1 DEF EnPCB
  <2>2. Nat \subseteq U /\ Posiciones \subseteq U
    <3>1. Posiciones \subseteq Int
      BY DEF Posiciones
    <3> QED
      BY <3>1 DEF Elementos
  <2> HIDE DEF U
  <2>3. a \in Seq(U)
    BY <2>1, <2>2
  <2>4. e \in Seq(U)
    BY <2>1, <2>2
  <2> QED
    BY <2>1, <2>3, <2>4
<1>5. ASSUME NEW i \in 1..m.size
      PROVE  ss[i] \in Seq(U) /\ Len(ss[i]) = Largo(Contextos(m)[i])
             /\ ss[i] = SerializarContexto(Contextos(m)[i])
  <2>1. PICK c \in Contexto : c = Contextos(m)[i]
    BY DEF EnPCB
  <2>2. ss[i] = SerializarContexto(c)
    BY <1>1, <2>1
  <2>3. EsSerie(ss[i], c)
    BY <2>2, SerieDeContexto
  <2>4. ss[i] \in Seq(Elementos) /\ Len(ss[i]) = Largo(c)
    BY <2>3 DEF EsSerie
  <2>5. ss[i] \in Seq(U)
    <3>1. Elementos \subseteq U
      OBVIOUS
    <3> HIDE DEF U
    <3> QED
      BY <2>4, <3>1
  <2> QED
    BY <2>1, <2>2, <2>4, <2>5
<1>6. ss \in Seq(Seq(U)) /\ Len(ss) = m.size
  <2>1. m.size \in Nat /\ DOMAIN ss = 1..m.size /\ ss = [i \in 1..m.size |-> ss[i]]
    BY <1>1 DEF EnPCB
  <2>2. \A i \in 1..m.size : ss[i] \in Seq(U)
    BY <1>5
  <2>3. PICK n, V : n = m.size /\ V = Seq(U)
    OBVIOUS
  <2>4. n \in Nat /\ DOMAIN ss = 1..n /\ ss = [i \in 1..n |-> ss[i]] /\ \A i \in 1..n : ss[i] \in V
    BY <2>1, <2>2, <2>3
  <2>5. ss \in Seq(V) /\ Len(ss) = n
    BY ONLY <2>4
  <2> QED
    BY ONLY <2>3, <2>5
<1>7. Suma(f, Largos(ss), Len(ss))
  <2>1. \A i \in 1..m.size : Largos(ss)[i] = LargosDe(m)[i]
    BY <1>5, <1>6 DEF Largos, LargosDe
  <2> QED
    BY <1>6, <2>1 DEF Suma
<1> HIDE DEF U
<1>8. PICK v : v = FlattenSeq(ss)
  OBVIOUS
<1>9. /\ v \in Seq(U) /\ Len(v) = f[Len(ss)]
      /\ \A i \in 1..Len(ss) : \A j \in 1..Len(ss[i]) :
           f[i - 1] + j \in 1..f[Len(ss)] /\ v[f[i - 1] + j] = ss[i][j]
  <2>1. /\ FlattenSeq(ss) \in Seq(U) /\ Len(FlattenSeq(ss)) = f[Len(ss)]
        /\ \A i \in 1..Len(ss) : \A j \in 1..Len(ss[i]) :
             f[i - 1] + j \in 1..f[Len(ss)] /\ FlattenSeq(ss)[f[i - 1] + j] = ss[i][j]
    BY ONLY <1>6, <1>7, Aplanada
  <2> QED
    BY ONLY <1>8, <2>1
<1>10. PICK q, r : q = k \o a /\ r = q \o e
  OBVIOUS
<1>11. /\ q \in Seq(U) /\ Len(q) = Len(k) + Len(a)
       /\ \A x \in 1..Len(k) : q[x] = k[x]
       /\ \A x \in 1..Len(a) : q[Len(k) + x] = a[x]
  <2>1. k \in Seq(U) /\ a \in Seq(U)
    BY <1>3, <1>4
  <2>2. /\ k \o a \in Seq(U) /\ Len(k \o a) = Len(k) + Len(a)
        /\ \A x \in 1..Len(k) : (k \o a)[x] = k[x]
        /\ \A x \in 1..Len(a) : (k \o a)[Len(k) + x] = a[x]
    BY ONLY <2>1, Pegadas
  <2> QED
    BY ONLY <1>10, <2>2
<1>12. /\ r \in Seq(U) /\ Len(r) = Len(q) + Len(e)
       /\ \A x \in 1..Len(q) : r[x] = q[x]
       /\ \A x \in 1..Len(e) : r[Len(q) + x] = e[x]
  <2>1. q \in Seq(U) /\ e \in Seq(U)
    BY <1>4, <1>11
  <2>2. /\ q \o e \in Seq(U) /\ Len(q \o e) = Len(q) + Len(e)
        /\ \A x \in 1..Len(q) : (q \o e)[x] = q[x]
        /\ \A x \in 1..Len(e) : (q \o e)[Len(q) + x] = e[x]
    BY ONLY <2>1, Pegadas
  <2> QED
    BY ONLY <1>10, <2>2
<1>13. /\ s \in Seq(U) /\ Len(s) = Len(r) + Len(v)
       /\ \A x \in 1..Len(r) : s[x] = r[x]
       /\ \A x \in 1..Len(v) : s[Len(r) + x] = v[x]
  <2>1. r \in Seq(U) /\ v \in Seq(U)
    BY <1>9, <1>12
  <2>2. /\ r \o v \in Seq(U) /\ Len(r \o v) = Len(r) + Len(v)
        /\ \A x \in 1..Len(r) : (r \o v)[x] = r[x]
        /\ \A x \in 1..Len(v) : (r \o v)[Len(r) + x] = v[x]
    BY ONLY <2>1, Pegadas
  <2>3. s = r \o v
    BY <1>2, <1>8, <1>10
  <2> QED
    BY ONLY <2>2, <2>3
<1>14. PICK la, le, lv : la = Len(m.indice) /\ le = Len(m.etiquetas) /\ lv = f[m.size]
  OBVIOUS
<1>15. /\ la \in Nat /\ le \in Nat /\ lv \in Nat /\ Len(k) = 1 /\ Len(a) = la /\ Len(e) = le
       /\ Len(v) = lv /\ Len(q) = 1 + la /\ Len(r) = 1 + la + le /\ Base(m) = 1 + la + le
       /\ Len(s) = 1 + la + le + lv
  <2>1. la \in Nat /\ le \in Nat /\ Len(k) = 1 /\ Len(a) = la /\ Len(e) = le
    BY <1>1, <1>3, <1>4, <1>14
  <2>2. lv \in Nat /\ Len(v) = lv
    BY <1>6, <1>9, <1>14
  <2>3. Len(q) = 1 + la /\ Len(r) = 1 + la + le /\ Base(m) = 1 + la + le
    BY <1>11, <1>12, <1>14, <2>1 DEF Base
  <2> QED
    BY <1>13, <2>1, <2>2, <2>3
<1>16. s[1] = CabeceraDe(m)
  <2>1. 1 \in 1..Len(k) /\ 1 \in 1..Len(q) /\ 1 \in 1..Len(r)
    BY <1>15
  <2> QED
    BY <1>3, <1>11, <1>12, <1>13, <2>1
<1>17. ASSUME NEW j \in 1..Len(m.indice) PROVE s[1 + j] = m.indice[j]
  <2>1. j \in 1..la
    BY <1>14
  <2>2. j \in 1..Len(a) /\ 1 + j \in 1..Len(q) /\ 1 + j \in 1..Len(r)
    BY <1>15, <2>1
  <2>3. s[1 + j] = q[1 + j]
    BY <1>12, <1>13, <2>2
  <2> QED
    BY <1>1, <1>11, <1>15, <2>2, <2>3
<1>18. ASSUME NEW j \in 1..Len(m.etiquetas) PROVE s[1 + Len(m.indice) + j] = m.etiquetas[j]
  <2>1. j \in 1..le
    BY <1>14
  <2>2. j \in 1..Len(e) /\ 1 + la + j \in 1..Len(r)
    BY <1>15, <2>1
  <2>3. s[1 + la + j] = r[1 + la + j]
    BY <1>13, <2>2
  <2>4. r[1 + la + j] = e[j]
    BY <1>12, <1>15, <2>2
  <2> QED
    BY <1>1, <1>14, <2>3, <2>4
<1>19. ASSUME NEW i \in 1..m.size, NEW j \in 1..Largo(Contextos(m)[i])
       PROVE  /\ Base(m) + f[i - 1] + j \in 1..Len(s)
              /\ s[Base(m) + f[i - 1] + j] = SerializarContexto(Contextos(m)[i])[j]
  <2>1. i \in 1..Len(ss) /\ j \in 1..Len(ss[i])
    BY <1>5, <1>6
  <2>2. PICK x : x = f[i - 1] + j
    OBVIOUS
  <2>3. x \in 1..lv /\ v[x] = ss[i][j]
    BY <1>6, <1>9, <1>14, <2>1, <2>2
  <2>4. i - 1 \in 0..m.size /\ f[i - 1] \in Nat /\ j \in Nat
    <3>1. m.size \in Nat /\ Largo(Contextos(m)[i]) \in Nat
      BY TiposDelPCB
    <3> QED
      BY <3>1 DEF Suma
  <2>5. Base(m) + f[i - 1] + j = 1 + la + le + x /\ 1 + la + le + x \in 1..Len(s)
    BY <1>15, <2>2, <2>3, <2>4, SMTT(40)
  <2>6. s[1 + la + le + x] = v[x]
    BY <1>13, <1>15, <2>3
  <2> QED
    BY <1>5, <2>3, <2>5, <2>6
<1> QED
  BY <1>13, <1>14, <1>15, <1>16, <1>17, <1>18, <1>19 DEF U, EsSerieDePCB

\* The context that starts after those before it is read as it was written.
EnSuLugar(b, m, f, i) ==
  LET n == Base(m) + f[i - 1] + 1
  IN  /\ n \in Nat
      /\ b[n].sizeArgs = Len(Contextos(m)[i].args) /\ b[n].sizeVars = Len(Contextos(m)[i].vars)
      /\ DesserializarContexto(b, n) = Contextos(m)[i]
      /\ Base(m) + f[i] + 1 =
           n + 1 + Len(Contextos(m)[i].args) + 4 * Len(Contextos(m)[i].vars)

\* desserializarPCB reads each context from its place.
LEMMA ContextosVuelven ==
  ASSUME NEW m, EnPCB(m), NEW f, Suma(f, LargosDe(m), m.size), NEW b, b = serializarPCB(m),
         NEW i \in 1..m.size
  PROVE  EnSuLugar(b, m, f, i)
<1>1. PICK c \in Contexto : c = Contextos(m)[i]
  BY DEF EnPCB
<1>2. PICK n, x, la, lv : n = Base(m) + x + 1 /\ x = f[i - 1] /\ la = Len(c.args) /\ lv = Len(c.vars)
  OBVIOUS
<1>3. /\ la \in Nat /\ lv \in Nat /\ Largo(c) \in Nat \ {0} /\ x \in Nat /\ Base(m) \in Nat
      /\ Largo(c) = 1 + la + 4 * lv /\ f[i] = x + Largo(c)
  <2>1. la \in Nat /\ lv \in Nat /\ Largo(c) \in Nat \ {0} /\ Largo(c) = 1 + la + 4 * lv
    <3>1. Largo(c) = 1 + la + 4 * lv
      BY <1>2 DEF Largo
    <3> QED
      BY <1>2, <3>1, LargosDelContexto
  <2>2. m.size \in Nat /\ Base(m) \in Nat /\ LargosDe(m) \in [1..m.size -> Nat]
    BY TiposDelPCB
  <2>3. x \in Nat /\ f[i] = x + LargosDe(m)[i]
    BY <1>2, <2>2, DeSuma
  <2>4. LargosDe(m)[i] = Largo(c)
    BY <1>1 DEF LargosDe
  <2> QED
    BY <2>1, <2>2, <2>3, <2>4
<1>4. n \in Nat \ {0}
  BY <1>2, <1>3
<1>5. PICK U, l : U = Elementos \cup {CabeceraDe(m)} /\ l = Len(b)
  OBVIOUS
<1>6. /\ b \in Seq(U) /\ l \in Nat
      /\ \A j \in 1..Largo(c) : /\ Base(m) + x + j \in 1..l
                                /\ b[Base(m) + x + j] = SerializarContexto(c)[j]
  <2>1. EsSerieDePCB(b, m, f)
    BY SerieDelPCB
  <2>2. /\ b \in Seq(Elementos \cup {CabeceraDe(m)})
        /\ \A j \in 1..Largo(Contextos(m)[i]) :
              /\ Base(m) + f[i - 1] + j \in 1..Len(b)
              /\ b[Base(m) + f[i - 1] + j] = SerializarContexto(Contextos(m)[i])[j]
    BY ONLY <2>1, i \in 1..m.size DEF EsSerieDePCB
  <2> QED
    BY <1>1, <1>2, <1>5, <2>2
<1>7. \A j \in 1..Largo(c) : b[n - 1 + j] = SerializarContexto(c)[j]
  <2>1. n - 1 = Base(m) + x
    BY <1>2, <1>3
  <2> QED
    BY <1>6, <2>1
<1>8. n + Largo(c) - 1 <= Len(b)
  <2>1. Largo(c) \in 1..Largo(c)
    BY <1>3
  <2>2. Base(m) + x + Largo(c) \in 1..l
    BY <1>6, <2>1
  <2>3. PICK p, q : p = Base(m) /\ q = Largo(c)
    OBVIOUS
  <2>4. p \in Nat /\ q \in Nat /\ x \in Nat /\ l \in Nat /\ n = p + x + 1 /\ p + x + q \in 1..l
    BY <1>2, <1>3, <1>6, <2>2, <2>3
  <2>5. n + q - 1 <= l
    BY ONLY <2>4
  <2> QED
    BY ONLY <1>5, <2>3, <2>5
<1>9. DesserializarContexto(b, n) = c
  <2>1. b \in Seq(U) /\ n \in Nat \ {0} /\ c \in Contexto
    BY <1>4, <1>6
  <2> QED
    BY ONLY <1>7, <1>8, <2>1, ContextoVuelve
<1>10. b[n] = SerializarContexto(c)[1]
  <2>1. 1 \in 1..Largo(c) /\ n - 1 + 1 = n
    BY <1>3, <1>4
  <2> QED
    BY <1>7, <2>1
<1>11. b[n].sizeArgs = la /\ b[n].sizeVars = lv
  <2>1. PICK s : s = SerializarContexto(c)
    OBVIOUS
  <2>2. EsSerie(s, c)
    BY <2>1, SerieDeContexto
  <2>3. s[1] = [pos |-> c.pos, retPos |-> c.retPos, retVar |-> c.retVar,
                sizeArgs |-> Len(c.args), sizeVars |-> Len(c.vars)]
    BY ONLY <2>2 DEF EsSerie
  <2> QED
    BY <1>2, <1>10, <2>1, <2>3
<1>12. Base(m) + f[i] + 1 = n + 1 + la + 4 * lv
  <2>1. PICK p, y : p = Base(m) /\ y = f[i]
    OBVIOUS
  <2>2. /\ p \in Nat /\ x \in Nat /\ la \in Nat /\ lv \in Nat
        /\ n = p + x + 1 /\ y = x + (1 + la + 4 * lv)
    BY <1>2, <1>3, <2>1
  <2>3. p + y + 1 = n + 1 + la + 4 * lv
    BY ONLY <2>2
  <2> QED
    BY ONLY <2>1, <2>3
<1> QED
  BY <1>1, <1>2, <1>4, <1>9, <1>11, <1>12 DEF EnSuLugar

\* donde, as desserializarPCB computes it from what it reads.
EsDonde(h, b, m) ==
  h = [i \in 1..m.size |->
         IF i = 1 THEN 1 + Len(m.indice) + Len(m.etiquetas) + 1
         ELSE h[i - 1] + 1 + b[h[i - 1]].sizeArgs + 4 * b[h[i - 1]].sizeVars]

\* One step of donde.
LEMMA DeDonde ==
  ASSUME NEW m, m.size \in Nat, NEW b, NEW h, EsDonde(h, b, m)
  PROVE  /\ m.size # 0 => h[1] = Base(m) + 1
         /\ \A i \in 1..m.size : i + 1 <= m.size =>
              h[i + 1] = h[i] + 1 + b[h[i]].sizeArgs + 4 * b[h[i]].sizeVars
<1> DEFINE D(i) == IF i = 1 THEN 1 + Len(m.indice) + Len(m.etiquetas) + 1
                   ELSE h[i - 1] + 1 + b[h[i - 1]].sizeArgs + 4 * b[h[i - 1]].sizeVars
<1>1. h = [i \in 1..m.size |-> D(i)]
  BY DEF EsDonde
<1>2. \A i \in 1..m.size : h[i] = D(i)
  <2> HIDE DEF D
  <2> QED
    BY <1>1
<1>3. ASSUME m.size # 0 PROVE h[1] = Base(m) + 1
  <2>1. 1 \in 1..m.size
    BY <1>3
  <2>2. h[1] = D(1)
    <3> HIDE DEF D
    <3> QED
      BY <1>2, <2>1
  <2> QED
    BY ONLY <2>2 DEF D, Base
<1>4. ASSUME NEW i \in 1..m.size, i + 1 <= m.size
      PROVE  h[i + 1] = h[i] + 1 + b[h[i]].sizeArgs + 4 * b[h[i]].sizeVars
  <2>1. i + 1 \in 1..m.size /\ i + 1 # 1 /\ (i + 1) - 1 = i
    BY <1>4
  <2>2. h[i + 1] = D(i + 1)
    <3> HIDE DEF D
    <3> QED
      BY <1>2, <2>1
  <2> QED
    BY ONLY <2>1, <2>2 DEF D
<1> QED
  BY <1>3, <1>4

\* Each context begins where the one before it ends.
LEMMA DondeEmpiezan ==
  ASSUME NEW m, EnPCB(m), NEW f, Suma(f, LargosDe(m), m.size), NEW b, b = serializarPCB(m),
         NEW h, EsDonde(h, b, m)
  PROVE  \A i \in 1..m.size : h[i] = Base(m) + f[i - 1] + 1
<1>1. m.size \in Nat /\ Base(m) \in Nat /\ f[0] = 0
  BY TiposDelPCB, DeSuma
<1>2. ASSUME m.size # 0 PROVE h[1] = Base(m) + f[0] + 1
  BY <1>1, <1>2, DeDonde
<1>3. ASSUME NEW i \in 1..m.size, i + 1 <= m.size, h[i] = Base(m) + f[i - 1] + 1
      PROVE  h[i + 1] = Base(m) + f[i] + 1
  <2>1. h[i + 1] = h[i] + 1 + b[h[i]].sizeArgs + 4 * b[h[i]].sizeVars
    BY <1>1, <1>3, DeDonde
  <2>2. EnSuLugar(b, m, f, i)
    BY ContextosVuelven
  <2> QED
    BY ONLY <1>3, <2>1, <2>2 DEF EnSuLugar
<1> DEFINE S == {i \in Nat : i \in 1..m.size => h[i] = Base(m) + f[i - 1] + 1}
<1>4. 0 \in S
  BY <1>1
<1>5. ASSUME NEW i \in S PROVE i + 1 \in S
  <2>1. SUFFICES ASSUME i + 1 \in 1..m.size PROVE h[i + 1] = Base(m) + f[(i + 1) - 1] + 1
    OBVIOUS
  <2>2. i \in Nat /\ (i + 1) - 1 = i /\ (i \in 1..m.size => h[i] = Base(m) + f[i - 1] + 1)
    OBVIOUS
  <2> HIDE DEF S
  <2>3. CASE i = 0
    BY <1>1, <1>2, <2>1, <2>2, <2>3
  <2>4. CASE i # 0
    <3>1. i \in 1..m.size /\ i + 1 <= m.size
      BY <1>1, <2>1, <2>2, <2>4
    <3> QED
      BY <1>3, <2>2, <3>1
  <2> QED
    BY <2>3, <2>4
<1> HIDE DEF S
<1>6. S \in SUBSET Nat
  BY DEF S
<1>7. \A i \in Nat : i \in S
  BY <1>4, <1>5, <1>6, Induccion
<1>8. ASSUME NEW i \in 1..m.size PROVE h[i] = Base(m) + f[i - 1] + 1
  <2>1. i \in Nat /\ i \in S
    BY <1>1, <1>7
  <2> QED
    BY ONLY <2>1, i \in 1..m.size DEF S
<1> QED
  BY <1>8

\* There is such a function.
LEMMA HayDonde ==
  ASSUME NEW m, EnPCB(m), NEW f, Suma(f, LargosDe(m), m.size), NEW b, b = serializarPCB(m)
  PROVE  \E h : EsDonde(h, b, m)
<1>1. m.size \in Nat /\ Base(m) \in Nat /\ f[0] = 0
  BY TiposDelPCB, DeSuma
<1>2. PICK g : g = [i \in 1..m.size |-> Base(m) + f[i - 1] + 1]
  OBVIOUS
<1> DEFINE D(i) == IF i = 1 THEN 1 + Len(m.indice) + Len(m.etiquetas) + 1
                   ELSE g[i - 1] + 1 + b[g[i - 1]].sizeArgs + 4 * b[g[i - 1]].sizeVars
<1>3. ASSUME NEW i \in 1..m.size PROVE g[i] = D(i)
  <2>1. CASE i = 1
    <3>1. g[1] = Base(m) + f[0] + 1
      BY <1>2, <2>1
    <3>2. Base(m) + f[0] + 1 = Base(m) + 1
      BY <1>1
    <3> QED
      BY ONLY <2>1, <3>1, <3>2 DEF Base
  <2>2. CASE i # 1
    <3>1. PICK j \in 1..m.size : j = i - 1
      BY <1>1, <2>2
    <3>2. EnSuLugar(b, m, f, j)
      BY ContextosVuelven
    <3>3. g[i] = Base(m) + f[j] + 1 /\ g[j] = Base(m) + f[j - 1] + 1
      BY <1>2, <3>1
    <3>4. g[i] = g[j] + 1 + b[g[j]].sizeArgs + 4 * b[g[j]].sizeVars
      BY ONLY <3>2, <3>3 DEF EnSuLugar
    <3> QED
      BY ONLY <2>2, <3>1, <3>4
  <2> QED
    BY <2>1, <2>2
<1>4. g = [i \in 1..m.size |-> D(i)]
  <2> HIDE DEF D
  <2> QED
    BY <1>2, <1>3
<1>5. EsDonde(g, b, m)
  BY ONLY <1>4 DEF EsDonde
<1> QED
  BY <1>5

\* A PCB survives its trip, and takes what was counted for it.
LEMMA PCBVuelve ==
  ASSUME NEW m, EnPCB(m), NEW d
  PROVE  /\ desserializarPCB(d, serializarPCB(m)) =
              [d EXCEPT !.pc = m.pc, !.indice = m.indice, !.etiquetas = m.etiquetas,
                        !.size = m.size, !.lista = [i \in 1..m.size |-> i], !.ctx = Contextos(m)]
         /\ Len(serializarPCB(m)) = sizeTotal(m)
         /\ serializarPCB(m) \in Seq(Elementos \cup {CabeceraDe(m)})
<1>1. m.size \in Nat /\ LargosDe(m) \in [1..m.size -> Nat]
  BY TiposDelPCB
<1>2. PICK f : Suma(f, LargosDe(m), m.size)
  BY <1>1, Acumula
<1>3. PICK b, U : b = serializarPCB(m) /\ U = Elementos \cup {CabeceraDe(m)}
  OBVIOUS
<1>4. /\ b \in Seq(U) /\ Len(b) = Base(m) + f[m.size] /\ b[1] = CabeceraDe(m)
      /\ \A j \in 1..Len(m.indice) : b[1 + j] = m.indice[j]
      /\ \A j \in 1..Len(m.etiquetas) : b[1 + Len(m.indice) + j] = m.etiquetas[j]
  <2>1. EsSerieDePCB(b, m, f)
    BY <1>2, <1>3, SerieDelPCB
  <2> QED
    BY ONLY <1>3, <2>1 DEF EsSerieDePCB
<1>5. Len(b) = sizeTotal(m)
  BY <1>2, <1>4, Cuenta
<1>6. PICK li, le, tras : li = Len(m.indice) /\ le = Len(m.etiquetas) /\ tras = 1 + li
  OBVIOUS
<1>7. /\ li \in Nat /\ le \in Nat /\ Base(m) = 1 + li + le /\ f[m.size] \in Nat
      /\ 2 * (li \div 2) = li
  <2>1. li \in Nat /\ le \in Nat
    BY <1>6, TiposDelPCB
  <2>2. Base(m) = 1 + li + le
    BY <1>6 DEF Base
  <2>3. f[m.size] \in Nat
    BY <1>1, <1>2, DeSuma
  <2>4. PICK k \in Nat : li = 2 * k
    BY <1>6 DEF EnPCB
  <2>5. (2 * k) \div 2 = k
    OBVIOUS
  <2> QED
    BY <2>1, <2>2, <2>3, <2>4, <2>5
<1>8. /\ b[1].pc = m.pc /\ b[1].sizeContextoActual = m.size
      /\ b[1].sizeIndiceDeEtiquetas = le /\ 1 + 2 * b[1].sizeIndiceDeCodigo = tras
  <2>1. b[1].pc = m.pc /\ b[1].sizeContextoActual = m.size
        /\ b[1].sizeIndiceDeEtiquetas = le /\ b[1].sizeIndiceDeCodigo = li \div 2
    BY <1>4, <1>6 DEF CabeceraDe
  <2> QED
    BY <1>6, <1>7, <2>1
<1>9. SubSeq(b, 2, tras) = m.indice
  <2>1. PICK r : r = m.indice
    OBVIOUS
  <2>2. r \in Seq(Nat) /\ Len(r) = li
    BY <1>6, <2>1 DEF EnPCB
  <2>3. 1 \in Nat /\ 1 + li <= Len(b)
    BY <1>4, <1>7
  <2>4. \A i \in 1..li : r[i] = b[1 + i]
    BY <1>4, <1>6, <2>1
  <2>5. b \in Seq(U) /\ li \in Nat
    BY <1>4, <1>7
  <2>6. SubSeq(b, 1 + 1, 1 + li) = r
    BY ONLY <2>2, <2>3, <2>4, <2>5, TramoEs
  <2> QED
    BY <1>6, <2>1, <2>6
<1>10. SubSeq(b, tras + 1, tras + le) = m.etiquetas
  <2>1. PICK r : r = m.etiquetas
    OBVIOUS
  <2>2. r \in Seq(Posiciones) /\ Len(r) = le
    BY <1>6, <2>1 DEF EnPCB
  <2>3. tras \in Nat /\ tras + le <= Len(b)
    <3>1. PICK l, x : l = Len(b) /\ x = f[m.size]
      OBVIOUS
    <3>2. l = 1 + li + le + x /\ li \in Nat /\ le \in Nat /\ x \in Nat /\ tras = 1 + li
      BY <1>4, <1>6, <1>7, <3>1
    <3>3. tras \in Nat /\ tras + le <= l
      BY ONLY <3>2
    <3> QED
      BY ONLY <3>1, <3>3
  <2>4. \A i \in 1..le : r[i] = b[tras + i]
    BY <1>4, <1>6, <2>1
  <2>5. b \in Seq(U) /\ le \in Nat
    BY <1>4, <1>7
  <2>6. SubSeq(b, tras + 1, tras + le) = r
    BY ONLY <2>2, <2>3, <2>4, <2>5, TramoEs
  <2> QED
    BY <2>1, <2>6
<1> DEFINE donde == CHOOSE h : h = [i \in 1..m.size |->
                      IF i = 1 THEN tras + le + 1
                      ELSE h[i - 1] + 1 + b[h[i - 1]].sizeArgs + 4 * b[h[i - 1]].sizeVars]
<1>11. PICK k : k = donde
  OBVIOUS
<1>12. EsDonde(k, b, m)
  <2>1. \E h : EsDonde(h, b, m)
    BY <1>2, <1>3, HayDonde
  <2>2. k = CHOOSE h : EsDonde(h, b, m)
    BY ONLY <1>6, <1>11 DEF EsDonde
  <2> QED
    BY ONLY <2>1, <2>2
<1>13. \A i \in 1..m.size : k[i] = Base(m) + f[i - 1] + 1
  BY <1>2, <1>3, <1>12, DondeEmpiezan
<1>14. [i \in 1..m.size |-> DesserializarContexto(b, k[i])] = Contextos(m)
  <2>1. ASSUME NEW i \in 1..m.size PROVE DesserializarContexto(b, k[i]) = Contextos(m)[i]
    <3>1. EnSuLugar(b, m, f, i)
      BY <1>2, <1>3, ContextosVuelven
    <3>2. k[i] = Base(m) + f[i - 1] + 1
      BY <1>13
    <3> QED
      BY ONLY <3>1, <3>2 DEF EnSuLugar
  <2>2. Contextos(m) = [i \in 1..m.size |-> Contextos(m)[i]]
    BY DEF Contextos
  <2> QED
    BY <2>1, <2>2
<1>15. PICK p, N : p = b[1] /\ N = m.size
  OBVIOUS
<1>16. /\ p.pc = m.pc /\ p.sizeContextoActual = N
       /\ p.sizeIndiceDeEtiquetas = le /\ 1 + 2 * p.sizeIndiceDeCodigo = tras
  BY ONLY <1>8, <1>15
<1> DEFINE suyo == CHOOSE h : h = [i \in 1..p.sizeContextoActual |->
                     IF i = 1 THEN 1 + 2 * p.sizeIndiceDeCodigo + p.sizeIndiceDeEtiquetas + 1
                     ELSE LET n == h[i - 1] IN n + 1 + b[n].sizeArgs + 4 * b[n].sizeVars]
<1>17. desserializarPCB(d, b) =
         [d EXCEPT !.pc = p.pc, !.indice = SubSeq(b, 2, 1 + 2 * p.sizeIndiceDeCodigo),
                   !.etiquetas = SubSeq(b, 1 + 2 * p.sizeIndiceDeCodigo + 1,
                                   1 + 2 * p.sizeIndiceDeCodigo + p.sizeIndiceDeEtiquetas),
                   !.size = p.sizeContextoActual,
                   !.lista = [i \in 1..p.sizeContextoActual |-> i],
                   !.ctx = [i \in 1..p.sizeContextoActual |-> DesserializarContexto(b, suyo[i])]]
  BY ONLY <1>15 DEF desserializarPCB
<1>18. suyo = k
  <2>1. suyo = CHOOSE h : h = [i \in 1..N |->
                 IF i = 1 THEN tras + le + 1
                 ELSE h[i - 1] + 1 + b[h[i - 1]].sizeArgs + 4 * b[h[i - 1]].sizeVars]
    BY ONLY <1>16
  <2> QED
    BY ONLY <1>11, <1>15, <2>1
<1>19. PICK ca, cb, cc : /\ ca = SubSeq(b, 2, tras) /\ cb = SubSeq(b, tras + 1, tras + le)
                         /\ cc = [i \in 1..N |-> DesserializarContexto(b, k[i])]
  OBVIOUS
<1>20. desserializarPCB(d, b) =
         [d EXCEPT !.pc = m.pc, !.indice = ca, !.etiquetas = cb, !.size = N,
                   !.lista = [i \in 1..N |-> i], !.ctx = cc]
  <2> HIDE DEF suyo
  <2> QED
    BY ONLY <1>16, <1>17, <1>18, <1>19
<1>21. ca = m.indice /\ cb = m.etiquetas /\ cc = Contextos(m)
  BY ONLY <1>9, <1>10, <1>14, <1>15, <1>19
<1> HIDE DEF suyo, donde
<1> QED
  BY ONLY <1>3, <1>4, <1>5, <1>15, <1>20, <1>21

\* Products of natural numbers, for the provers.
LEMMA Producto ==
  ASSUME NEW a \in Nat, NEW b \in Nat, NEW c \in Nat
  PROVE  /\ a * c \in Nat
         /\ a <= b => a * c <= b * c
         /\ (a + 1) * c = a * c + c
         /\ a # 0 => a - 1 \in Nat /\ (a - 1) * c = a * c - c
<1>1. a * c \in Nat
  OBVIOUS
<1>2. ASSUME a <= b PROVE a * c <= b * c
  <2>1. PICK d \in Nat : b = a + d
    BY <1>2
  <2>2. (a + d) * c = a * c + d * c /\ d * c \in Nat
    OBVIOUS
  <2> QED
    BY <1>1, <2>1, <2>2
<1>3. (a + 1) * c = a * c + c
  OBVIOUS
<1>4. ASSUME a # 0 PROVE a - 1 \in Nat /\ (a - 1) * c = a * c - c
  BY <1>4
<1> QED
  BY <1>1, <1>2, <1>3, <1>4

\* The quotient and the remainder.
LEMMA Division ==
  ASSUME NEW x \in Nat, NEW c \in Nat \ {0}
  PROVE  \E q \in Nat, r \in 0..(c - 1) : q = x \div c /\ r = x % c /\ x = q * c + r
<1>1. x \div c \in Nat /\ x % c \in 0..(c - 1)
  OBVIOUS
<1>2. ASSUME NEW q, q = x \div c, NEW r, r = x % c PROVE x = c * q + r
  BY <1>2, SMTT(60)
<1>3. PICK q \in Nat, r \in 0..(c - 1) : q = x \div c /\ r = x % c
  BY <1>1
<1>4. x = c * q + r
  BY ONLY <1>2, <1>3
<1>5. c * q = q * c
  BY ONLY <1>3, c \in Nat \ {0}
<1>6. x = q * c + r
  BY ONLY <1>4, <1>5
<1> QED
  BY ONLY <1>3, <1>6

\* Those of an address, its page and its offset.
LEMMA Division2 ==
  ASSUME NEW p \in Nat, NEW c \in Nat \ {0}, NEW o \in 0..(c - 1)
  PROVE  (p * c + o) \div c = p /\ (p * c + o) % c = o
<1>1. PICK x \in Nat : x = p * c + o
  BY Producto
<1>2. PICK q \in Nat, r \in 0..(c - 1) : q = x \div c /\ r = x % c /\ x = q * c + r
  BY Division
<1>3. q = p
  <2>1. CASE q < p
    <3>1. q + 1 \in Nat /\ (q + 1) * c <= p * c /\ (q + 1) * c = q * c + c
      BY <2>1, Producto
    <3> QED
      BY <1>1, <1>2, <3>1, Producto
  <2>2. CASE p < q
    <3>1. p + 1 \in Nat /\ (p + 1) * c <= q * c /\ (p + 1) * c = p * c + c
      BY <2>2, Producto
    <3> QED
      BY <1>1, <1>2, <3>1, Producto
  <2> QED
    BY <2>1, <2>2
<1>4. r = o
  BY <1>1, <1>2, <1>3, Producto
<1> QED
  BY <1>1, <1>2, <1>3, <1>4

\* The requests that leer makes, one by one: how many, where the k-th begins and
\* ends from the first page on, and its page, offset and size.
Cuantos(x) == IF x <= tamanioPag THEN 1 ELSE (x + tamanioPag - 1) \div tamanioPag
Desde(o, k) == IF k = 1 THEN o ELSE (k - 1) * tamanioPag
Hasta(x, k) == IF k = Cuantos(x) THEN x ELSE k * tamanioPag
Trozo(p, o, t, k) == <<p + k - 1, IF k = 1 THEN o ELSE 0, Hasta(o + t, k) - Desde(o, k)>>
Trozos(p, o, t) == [k \in 1..Cuantos(o + t) |-> Trozo(p, o, t, k)]

\* As many pages as the bytes need.
LEMMA CuantosEs ==
  ASSUME NEW x \in Nat
  PROVE  /\ Cuantos(x) \in Nat \ {0}
         /\ x > tamanioPag => /\ (Cuantos(x) - 1) * tamanioPag < x
                              /\ x <= Cuantos(x) * tamanioPag
<1>1. tamanioPag \in Nat \ {0}
  BY PaginaAssumption
<1>2. CASE x <= tamanioPag
  BY <1>1, <1>2 DEF Cuantos
<1>3. CASE x > tamanioPag
  <2>1. PICK T, y : T = tamanioPag /\ y = x + T - 1
    OBVIOUS
  <2>2. T \in Nat \ {0} /\ y \in Nat /\ Cuantos(x) = y \div T
    BY <1>1, <1>3, <2>1 DEF Cuantos
  <2>3. PICK q \in Nat, r \in 0..(T - 1) : q = y \div T /\ r = y % T /\ y = q * T + r
    BY <2>2, Division
  <2>4. PICK z : z = q * T
    OBVIOUS
  <2>5. q # 0 => q - 1 \in Nat /\ (q - 1) * T = z - T
    BY <2>2, <2>4, Producto
  <2>6. q # 0
    <3>1. SUFFICES ASSUME q = 0 PROVE FALSE
      OBVIOUS
    <3>2. 0 * T = 0
      BY <2>2
    <3> QED
      BY <1>3, <2>1, <2>2, <2>3, <3>1, <3>2
  <2>7. z - T < x /\ x <= z
    BY <2>1, <2>2, <2>3, <2>4
  <2> QED
    BY <2>1, <2>2, <2>3, <2>4, <2>5, <2>6, <2>7
<1> QED
  BY <1>1, <1>2, <1>3

\* And no others.
LEMMA CuantosUnico ==
  ASSUME NEW x \in Nat, x > tamanioPag, NEW q \in Nat \ {0},
         (q - 1) * tamanioPag < x, x <= q * tamanioPag
  PROVE  Cuantos(x) = q
<1>1. PICK T, k : T = tamanioPag /\ k = Cuantos(x)
  OBVIOUS
<1>2. T \in Nat \ {0} /\ k \in Nat \ {0} /\ (k - 1) * T < x /\ x <= k * T
  BY <1>1, CuantosEs, PaginaAssumption
<1>3. k - 1 \in Nat /\ q - 1 \in Nat /\ k * T \in Nat /\ q * T \in Nat
      /\ (k - 1) * T \in Nat /\ (q - 1) * T \in Nat
  BY <1>2, Producto
<1>4. ~(k < q)
  <2>1. SUFFICES ASSUME k <= q - 1 PROVE FALSE
    BY <1>2
  <2>2. k * T <= (q - 1) * T
    BY <1>2, <1>3, <2>1, Producto
  <2> QED
    BY <1>1, <1>2, <1>3, <2>2
<1>5. ~(q < k)
  <2>1. SUFFICES ASSUME q <= k - 1 PROVE FALSE
    BY <1>2
  <2>2. q * T <= (k - 1) * T
    BY <1>2, <1>3, <2>1, Producto
  <2> QED
    BY <1>1, <1>2, <1>3, <2>2
<1> QED
  BY <1>1, <1>2, <1>4, <1>5

\* One less without the first page.
LEMMA CuantosMenos ==
  ASSUME NEW x \in Nat, x > tamanioPag
  PROVE  x - tamanioPag \in Nat /\ Cuantos(x) = Cuantos(x - tamanioPag) + 1
<1>1. PICK T, y, k : T = tamanioPag /\ y = x - T /\ k = Cuantos(y)
  OBVIOUS
<1>2. T \in Nat \ {0} /\ y \in Nat /\ y > 0 /\ k \in Nat \ {0} /\ k + 1 \in Nat \ {0} /\ (k + 1) - 1 = k
  BY <1>1, CuantosEs, PaginaAssumption
<1>3. k * T \in Nat /\ (k + 1) * T = k * T + T /\ (k - 1) * T = k * T - T
  BY <1>2, Producto
<1>4. CASE y <= T
  <2>1. k = 1 /\ k * T = T
    BY <1>1, <1>2, <1>4 DEF Cuantos
  <2>2. PICK z, w : z = k * T /\ w = (k + 1) * T
    OBVIOUS
  <2>3. z = T /\ w = T + T
    BY <1>3, <2>1, <2>2
  <2>4. z < x /\ x <= w
    BY ONLY <1>1, <1>2, <1>4, <2>3, x \in Nat
  <2>5. k * T < x /\ x <= (k + 1) * T
    BY ONLY <2>2, <2>4
  <2> QED
    BY <1>1, <1>2, <2>5, CuantosUnico
<1>5. CASE y > T
  <2>1. (k - 1) * T < y /\ y <= k * T
    BY <1>1, <1>2, <1>5, CuantosEs
  <2>2. k * T < x /\ x <= (k + 1) * T
    BY <1>1, <1>2, <1>3, <2>1
  <2> QED
    BY <1>1, <1>2, <2>2, CuantosUnico
<1> QED
  BY <1>1, <1>2, <1>4, <1>5

\* Where the requests are: each begins where the one before it ended, the first
\* at o and the last ends at o + t, and none goes past the end of its page.
LEMMA DeTrozos ==
  ASSUME NEW o \in 0..(tamanioPag - 1), NEW t \in Nat \ {0}, NEW k \in 1..Cuantos(o + t)
  PROVE  /\ Desde(o, k) \in Nat /\ Hasta(o + t, k) \in Nat
         /\ Desde(o, k) < Hasta(o + t, k) /\ Hasta(o + t, k) <= o + t
         /\ Hasta(o + t, k) <= k * tamanioPag
         /\ Desde(o, k) = (k - 1) * tamanioPag + (IF k = 1 THEN o ELSE 0)
         /\ k # 1 => Desde(o, k) = Hasta(o + t, k - 1)
<1>1. PICK T, x, q : T = tamanioPag /\ x = o + t /\ q = Cuantos(x)
  OBVIOUS
<1>2. T \in Nat \ {0} /\ x \in Nat \ {0} /\ q \in Nat \ {0} /\ k \in 1..q /\ o \in 0..(T - 1)
  BY <1>1, CuantosEs, PaginaAssumption
<1>3. PICK a, b, c, d : a = (k - 1) * T /\ b = k * T /\ c = (q - 1) * T /\ d = q * T
  OBVIOUS
<1>4. /\ a \in Nat /\ b = a + T /\ c \in Nat /\ d = c + T
      /\ k < q => b <= c
      /\ k = 1 => a = 0
  <2>1. k \in Nat /\ k # 0 /\ k - 1 \in Nat /\ q - 1 \in Nat
    BY <1>2
  <2>2. a \in Nat /\ c \in Nat /\ b \in Nat /\ d \in Nat /\ a = b - T /\ c = d - T
    BY <1>2, <1>3, <2>1, Producto
  <2>3. k < q => k <= q - 1
    BY <1>2
  <2>4. k < q => b <= c
    BY <1>2, <1>3, <2>1, <2>3, Producto
  <2>5. k = 1 => a = 0
    BY <1>2, <1>3
  <2> QED
    BY <1>2, <2>2, <2>4, <2>5
<1>5. /\ q # 1 => c < x /\ x <= d
      /\ q = 1 => x <= T
  <2>1. CASE x > T
    <3>1. q # 1
      <4>1. SUFFICES ASSUME q = 1 PROVE FALSE
        OBVIOUS
      <4>2. d = T
        BY <1>2, <1>3, <4>1
      <4>3. x <= d
        BY <1>1, <1>2, <1>3, <2>1, CuantosEs
      <4> QED
        BY <1>2, <2>1, <4>2, <4>3
    <3> QED
      BY <1>1, <1>2, <1>3, <2>1, <3>1, CuantosEs
  <2>2. CASE ~(x > T)
    <3>1. x <= T
      BY <1>2, <2>2
    <3>2. q = 1
      BY <1>1, <3>1 DEF Cuantos
    <3> QED
      BY <3>1, <3>2
  <2> QED
    BY <2>1, <2>2
<1>6. PICK u, v : u = Desde(o, k) /\ v = Hasta(x, k)
  OBVIOUS
<1>7. u = (IF k = 1 THEN o ELSE a) /\ v = (IF k = q THEN x ELSE b)
  BY ONLY <1>1, <1>3, <1>6 DEF Desde, Hasta
<1>8. /\ u \in Nat /\ v \in Nat /\ u < v /\ v <= x /\ v <= b
      /\ u = a + (IF k = 1 THEN o ELSE 0)
  <2>2. CASE k = q
    <3>1. v = x
      BY <1>7, <2>2
    <3>2. a = c /\ b = d
      BY ONLY <1>3, <2>2
    <3> QED
      BY ONLY <1>1, <1>2, <1>4, <1>5, <1>7, <2>2, <3>1, <3>2, t \in Nat \ {0}
  <2>3. CASE k # q
    <3>1. v = b /\ k < q /\ q # 1 /\ b <= c /\ c < x
      BY <1>2, <1>4, <1>5, <1>7, <2>3
    <3> QED
      BY ONLY <1>1, <1>2, <1>4, <1>7, <2>3, <3>1
  <2> QED
    BY <2>2, <2>3
<1>9. ASSUME k # 1 PROVE u = Hasta(x, k - 1)
  <2>1. k - 1 # q
    BY <1>2
  <2>2. Hasta(x, k - 1) = (k - 1) * T
    BY ONLY <1>1, <2>1 DEF Hasta
  <2> QED
    BY <1>3, <1>7, <1>9, <2>2
<1> QED
  BY ONLY <1>1, <1>3, <1>6, <1>8, <1>9

Bloques == Nat \X (0 .. tamanioPag - 1) \X Nat

\* The list of the requests.
LEMMA TrozosTipo ==
  ASSUME NEW p \in Nat, NEW o \in 0..(tamanioPag - 1), NEW t \in Nat
  PROVE  /\ Trozos(p, o, t) \in Seq(Bloques) /\ Len(Trozos(p, o, t)) = Cuantos(o + t)
         /\ \A k \in 1..Cuantos(o + t) : Trozos(p, o, t)[k] = Trozo(p, o, t, k)
         /\ o + t <= tamanioPag => Trozos(p, o, t) = <<<<p, o, t>>>>
<1>1. PICK q, x : q = Cuantos(o + t) /\ x = o + t
  OBVIOUS
<1>2. q \in Nat \ {0} /\ tamanioPag \in Nat \ {0} /\ x \in Nat
  BY <1>1, CuantosEs, PaginaAssumption
<1>3. ASSUME NEW k \in 1..q PROVE Trozo(p, o, t, k) \in Bloques
  <2>1. PICK n : n = Hasta(x, k) - Desde(o, k)
    OBVIOUS
  <2>2. n \in Nat
    <3>1. CASE t # 0
      BY <1>1, <2>1, <3>1, DeTrozos
    <3>2. CASE t = 0
      <4>1. q = 1 /\ k = 1
        BY <1>1, <1>2, <3>2 DEF Cuantos
      <4>2. Hasta(x, k) = o /\ Desde(o, k) = o
        BY <1>1, <3>2, <4>1 DEF Hasta, Desde
      <4> QED
        BY <2>1, <4>2
    <3> QED
      BY <3>1, <3>2
  <2>3. Trozo(p, o, t, k) = <<p + k - 1, IF k = 1 THEN o ELSE 0, n>>
    BY ONLY <1>1, <2>1 DEF Trozo
  <2>4. p + k - 1 \in Nat /\ (IF k = 1 THEN o ELSE 0) \in 0..(tamanioPag - 1)
    BY <1>2
  <2> QED
    BY ONLY <2>2, <2>3, <2>4 DEF Bloques
<1>4. Trozos(p, o, t) = [k \in 1..q |-> Trozo(p, o, t, k)]
  BY ONLY <1>1 DEF Trozos
<1>5. /\ Trozos(p, o, t) \in Seq(Bloques) /\ Len(Trozos(p, o, t)) = q
      /\ \A k \in 1..q : Trozos(p, o, t)[k] = Trozo(p, o, t, k)
  <2>1. PICK B, g : B = Bloques /\ g = Trozos(p, o, t)
    OBVIOUS
  <2>2. g = [k \in 1..q |-> Trozo(p, o, t, k)] /\ \A k \in 1..q : Trozo(p, o, t, k) \in B
    BY ONLY <1>3, <1>4, <2>1
  <2>3. g \in Seq(B) /\ Len(g) = q /\ \A k \in 1..q : g[k] = Trozo(p, o, t, k)
    BY ONLY <1>2, <2>2
  <2> QED
    BY ONLY <2>1, <2>3
<1>6. ASSUME x <= tamanioPag PROVE Trozos(p, o, t) = <<<<p, o, t>>>>
  <2>1. q = 1
    BY <1>1, <1>6 DEF Cuantos
  <2>2. Hasta(x, 1) = x /\ Desde(o, 1) = o /\ x - o = t
    BY <1>1, <2>1 DEF Hasta, Desde
  <2>3. Trozo(p, o, t, 1) = <<p, o, t>>
    BY ONLY <1>1, <2>2, p \in Nat DEF Trozo
  <2>4. PICK g, d : g = Trozos(p, o, t) /\ d = <<p, o, t>>
    OBVIOUS
  <2>5. Len(g) = 1 /\ g[1] = d /\ g \in Seq(Bloques)
    BY ONLY <1>5, <2>1, <2>3, <2>4
  <2>6. g = <<d>>
    BY ONLY <2>5
  <2> QED
    BY ONLY <2>4, <2>6
<1> QED
  BY ONLY <1>1, <1>5, <1>6

\* Two sequences with the same elements.
LEMMA Iguales ==
  ASSUME NEW T, NEW a \in Seq(T), NEW b \in Seq(T), Len(a) = Len(b),
         \A k \in 1..Len(a) : a[k] = b[k]
  PROVE  a = b
OBVIOUS

\* The list of the requests that go past the end of a page is that of the first,
\* and then that of the rest.
LEMMA TrozosSiguen ==
  ASSUME NEW p \in Nat, NEW o \in 0..(tamanioPag - 1), NEW t \in Nat, o + t > tamanioPag
  PROVE  Trozos(p, o, t) = Trozos(p, o, tamanioPag - o)
                             \o Trozos(p + 1, 0, t - (tamanioPag - o))
<1>1. PICK T, x, y, q, r, z : /\ T = tamanioPag /\ x = o + t /\ y = T - o /\ q = Cuantos(x)
                              /\ r = Cuantos(x - T) /\ z = t - y
  OBVIOUS
<1>2. /\ T \in Nat \ {0} /\ x \in Nat /\ x > T /\ y \in Nat /\ q \in Nat \ {0} /\ r \in Nat \ {0}
      /\ q = r + 1 /\ z \in Nat /\ 0 + z = x - T /\ 0 + z = z /\ 0 \in 0..(T - 1) /\ p + 1 \in Nat
      /\ o + y = T /\ y \in Nat
  <2>1. T \in Nat \ {0} /\ x \in Nat /\ x > T
    BY <1>1, PaginaAssumption
  <2>2. x - T \in Nat /\ q = r + 1 /\ q \in Nat \ {0} /\ r \in Nat \ {0}
    BY <1>1, <2>1, CuantosEs, CuantosMenos
  <2> QED
    BY ONLY <1>1, <2>1, <2>2, o \in 0..(tamanioPag - 1), t \in Nat, p \in Nat
<1>3. PICK a, b, c : /\ a = Trozos(p, o, t) /\ b = Trozos(p, o, y) /\ c = Trozos(p + 1, 0, z)
  OBVIOUS
<1>4. a \in Seq(Bloques) /\ Len(a) = q /\ \A k \in 1..q : a[k] = Trozo(p, o, t, k)
  BY <1>1, <1>3, TrozosTipo
<1>5. b = <<<<p, o, y>>>>
  <2>1. y \in Nat /\ o + y <= tamanioPag
    BY <1>1, <1>2
  <2>2. Trozos(p, o, y) = <<<<p, o, y>>>>
    BY ONLY <2>1, p \in Nat, o \in 0..(tamanioPag - 1), TrozosTipo
  <2> QED
    BY ONLY <1>3, <2>2
<1>6. c \in Seq(Bloques) /\ Len(c) = r /\ \A k \in 1..r : c[k] = Trozo(p + 1, 0, z, k)
  <2>1. /\ c \in Seq(Bloques) /\ Len(c) = Cuantos(0 + z)
        /\ \A k \in 1..Cuantos(0 + z) : c[k] = Trozo(p + 1, 0, z, k)
    <3>1. PICK s : s = p + 1
      OBVIOUS
    <3>2. s \in Nat /\ 0 \in 0..(tamanioPag - 1) /\ z \in Nat
      BY <1>1, <1>2, <3>1
    <3>3. /\ Trozos(s, 0, z) \in Seq(Bloques) /\ Len(Trozos(s, 0, z)) = Cuantos(0 + z)
          /\ \A k \in 1..Cuantos(0 + z) : Trozos(s, 0, z)[k] = Trozo(s, 0, z, k)
      BY ONLY <3>2, TrozosTipo
    <3> QED
      BY ONLY <1>3, <3>1, <3>3
  <2> QED
    BY ONLY <1>1, <1>2, <2>1
<1>7. b \in Seq(Bloques) /\ Len(b) = 1 /\ b[1] = <<p, o, y>>
  <2>1. b \in Seq(Bloques)
    BY <1>1, <1>2, <1>3, TrozosTipo
  <2> QED
    BY ONLY <1>5, <2>1
<1>8. /\ b \o c \in Seq(Bloques) /\ Len(b \o c) = 1 + r /\ (b \o c)[1] = b[1]
      /\ \A k \in 1..r : (b \o c)[1 + k] = c[k]
  <2>1. /\ b \o c \in Seq(Bloques) /\ Len(b \o c) = Len(b) + Len(c)
        /\ \A k \in 1..Len(b) : (b \o c)[k] = b[k]
        /\ \A k \in 1..Len(c) : (b \o c)[Len(b) + k] = c[k]
    <3>1. b \in Seq(Bloques) /\ c \in Seq(Bloques)
      BY ONLY <1>6, <1>7
    <3> QED
      BY ONLY <3>1, Pegadas
  <2> QED
    BY ONLY <1>6, <1>7, <2>1
<1>9. a[1] = b[1]
  <2>1. a[1] = Trozo(p, o, t, 1)
    BY <1>2, <1>4
  <2>2. Hasta(x, 1) = T /\ Desde(o, 1) = o
    <3>1. 1 # q /\ 1 * T = T
      BY <1>2
    <3> QED
      BY ONLY <1>1, <3>1 DEF Hasta, Desde
  <2>3. Trozo(p, o, t, 1) = <<p + 1 - 1, o, T - o>>
    BY ONLY <1>1, <2>2 DEF Trozo
  <2> QED
    BY <1>1, <1>7, <2>1, <2>3
<1>10. ASSUME NEW k \in 1..r PROVE a[1 + k] = c[k]
  <2>1. k \in Nat /\ 1 + k \in 1..q /\ 1 + k # 1 /\ 1 + k - 1 = k /\ (1 + k = q <=> k = r)
    BY <1>2
  <2>2. PICK u, v, w : u = k * T /\ v = (k - 1) * T /\ w = (1 + k) * T
    OBVIOUS
  <2>3. u \in Nat /\ v = u - T /\ w = u + T
    <3>1. k # 0 /\ 1 + k = k + 1
      BY <2>1
    <3>2. u \in Nat /\ (k + 1) * T = u + T /\ v = u - T
      BY <1>2, <2>1, <2>2, <3>1, Producto
    <3> QED
      BY ONLY <2>2, <3>1, <3>2
  <2>4. Desde(o, 1 + k) = u /\ Hasta(x, 1 + k) = (IF k = r THEN x ELSE w)
    BY ONLY <1>1, <2>1, <2>2 DEF Desde, Hasta
  <2>5. Desde(0, k) = v /\ Hasta(z, k) = (IF k = r THEN z ELSE u)
    <3>1. k = 1 => v = 0
      BY <1>2, <2>2
    <3>2. Hasta(z, k) = (IF k = r THEN z ELSE u)
      BY ONLY <1>1, <1>2, <2>2 DEF Hasta
    <3>3. Desde(0, k) = (IF k = 1 THEN 0 ELSE v)
      BY ONLY <1>1, <2>2 DEF Desde
    <3> QED
      BY ONLY <3>1, <3>2, <3>3
  <2>6. a[1 + k] = <<p + (1 + k) - 1, 0, Hasta(x, 1 + k) - Desde(o, 1 + k)>>
    <3>1. a[1 + k] = Trozo(p, o, t, 1 + k)
      BY <1>4, <2>1
    <3> QED
      BY ONLY <1>1, <2>1, <3>1 DEF Trozo
  <2>7. c[k] = <<(p + 1) + k - 1, 0, Hasta(z, k) - Desde(0, k)>>
    <3>1. c[k] = Trozo(p + 1, 0, z, k)
      BY <1>6
    <3> QED
      BY ONLY <1>2, <3>1 DEF Trozo
  <2>8. Hasta(x, 1 + k) - Desde(o, 1 + k) = Hasta(z, k) - Desde(0, k)
    BY ONLY <1>2, <2>3, <2>4, <2>5
  <2>9. p + (1 + k) - 1 = (p + 1) + k - 1
    BY ONLY <2>1, p \in Nat
  <2> QED
    BY ONLY <2>6, <2>7, <2>8, <2>9
<1>11. a = b \o c
  <2>1. PICK e : e = b \o c
    OBVIOUS
  <2>2. ASSUME NEW k \in 1..q PROVE a[k] = e[k]
    <3>1. CASE k = 1
      BY ONLY <1>8, <1>9, <2>1, <3>1
    <3>2. CASE k # 1
      <4>1. k - 1 \in 1..r /\ 1 + (k - 1) = k
        BY <1>2, <3>2
      <4> QED
        BY ONLY <1>8, <1>10, <2>1, <4>1
    <3> QED
      BY <3>1, <3>2
  <2>3. e \in Seq(Bloques) /\ Len(e) = q
    BY <1>2, <1>8, <2>1
  <2> QED
    BY <1>4, <2>1, <2>2, <2>3, Iguales
<1> QED
  BY ONLY <1>1, <1>3, <1>11

\* One step of leer, with h for what it calls.
PasoDeLeer(h, d) ==
  IF d[3] + d[2] <= tamanioPag THEN <<d>>
  ELSE h[<<d[1], d[2], tamanioPag - d[2]>>] \o h[<<d[1] + 1, 0, d[3] - (tamanioPag - d[2])>>]

\* The fields of what leer is asked for, and of the two halves.
LEMMA DeBloques ==
  ASSUME NEW d \in Bloques
  PROVE  /\ d[1] \in Nat /\ d[2] \in 0..(tamanioPag - 1) /\ d[3] \in Nat /\ d = <<d[1], d[2], d[3]>>
         /\ d[3] + d[2] > tamanioPag =>
              /\ <<d[1], d[2], tamanioPag - d[2]>> \in Bloques
              /\ <<d[1] + 1, 0, d[3] - (tamanioPag - d[2])>> \in Bloques
              /\ d[3] - (tamanioPag - d[2]) < d[3]
<1>1. d[1] \in Nat /\ d[2] \in 0..(tamanioPag - 1) /\ d[3] \in Nat /\ d = <<d[1], d[2], d[3]>>
  BY DEF Bloques
<1>2. PICK p, o, t, T, y, z, s : /\ p = d[1] /\ o = d[2] /\ t = d[3] /\ T = tamanioPag
                                 /\ y = T - o /\ z = t - y /\ s = p + 1
  OBVIOUS
<1>3. p \in Nat /\ o \in 0..(T - 1) /\ t \in Nat /\ T \in Nat \ {0}
  BY <1>1, <1>2, PaginaAssumption
<1>4. ASSUME t + o > T PROVE <<p, o, y>> \in Bloques /\ <<s, 0, z>> \in Bloques /\ z < t
  <2>1. y \in Nat /\ z \in Nat /\ s \in Nat /\ z < t /\ 0 \in 0..(T - 1)
    BY ONLY <1>2, <1>3, <1>4
  <2> QED
    BY ONLY <1>2, <1>3, <2>1 DEF Bloques
<1> QED
  BY ONLY <1>1, <1>2, <1>4

\* leer and the list of the requests take the same step.
LEMMA LeerPaso ==
  /\ \A d \in Bloques : leer[d] = PasoDeLeer(leer, d)
  /\ \A d \in Bloques : Trozos(d[1], d[2], d[3]) =
       PasoDeLeer([e \in Bloques |-> Trozos(e[1], e[2], e[3])], d)
<1> DEFINE w == [e \in Bloques |-> Trozos(e[1], e[2], e[3])]
<1>1. ASSUME NEW d \in Bloques PROVE w[d] = PasoDeLeer(w, d)
  <2>1. PICK p \in Nat, o \in 0..(tamanioPag - 1), t \in Nat : d = <<p, o, t>>
    <3>1. d[1] \in Nat /\ d[2] \in 0..(tamanioPag - 1) /\ d[3] \in Nat /\ d = <<d[1], d[2], d[3]>>
      BY ONLY DeBloques, d \in Bloques
    <3> QED
      BY ONLY <3>1
  <2>2. d[1] = p /\ d[2] = o /\ d[3] = t
    BY <2>1
  <2>3. w[d] = Trozos(p, o, t)
    BY <2>2
  <2>4. tamanioPag \in Nat \ {0}
    BY PaginaAssumption
  <2>5. CASE t + o <= tamanioPag
    <3>1. o + t <= tamanioPag
      BY <2>4, <2>5
    <3>2. Trozos(p, o, t) = <<<<p, o, t>>>>
      BY <3>1, TrozosTipo
    <3>3. PasoDeLeer(w, d) = <<d>>
      BY ONLY <2>2, <2>5 DEF PasoDeLeer
    <3> QED
      BY ONLY <2>1, <2>3, <3>2, <3>3
  <2>6. CASE ~(t + o <= tamanioPag)
    <3>1. o + t > tamanioPag /\ t + o > tamanioPag
      BY <2>4, <2>6
    <3>2. PICK a, b : a = <<p, o, tamanioPag - o>> /\ b = <<p + 1, 0, t - (tamanioPag - o)>>
      OBVIOUS
    <3>3. a \in Bloques /\ b \in Bloques
      BY ONLY <2>2, <3>1, <3>2, DeBloques, d \in Bloques
    <3>4. /\ a[1] = p /\ a[2] = o /\ a[3] = tamanioPag - o
          /\ b[1] = p + 1 /\ b[2] = 0 /\ b[3] = t - (tamanioPag - o)
      BY ONLY <3>2
    <3>5. w[a] = Trozos(p, o, tamanioPag - o) /\ w[b] = Trozos(p + 1, 0, t - (tamanioPag - o))
      BY ONLY <3>3, <3>4
    <3>6. PasoDeLeer(w, d) = w[a] \o w[b]
      BY ONLY <2>2, <2>6, <3>2 DEF PasoDeLeer
    <3>7. Trozos(p, o, t) = Trozos(p, o, tamanioPag - o) \o Trozos(p + 1, 0, t - (tamanioPag - o))
      BY <3>1, TrozosSiguen
    <3> QED
      BY ONLY <2>3, <3>5, <3>6, <3>7
  <2> QED
    BY <2>5, <2>6
<1>2. PICK g : g = w
  OBVIOUS
<1>3. g = [d \in Bloques |-> PasoDeLeer(g, d)]
  <2>1. g = [d \in Bloques |-> g[d]]
    BY <1>2
  <2>2. \A d \in Bloques : g[d] = PasoDeLeer(g, d)
    BY ONLY <1>1, <1>2
  <2> QED
    BY ONLY <2>1, <2>2
<1>4. leer = CHOOSE h : h = [d \in Bloques |-> PasoDeLeer(h, d)]
  BY DEF leer, PasoDeLeer, Bloques
<1>5. leer = [d \in Bloques |-> PasoDeLeer(leer, d)]
  BY ONLY <1>3, <1>4
<1>6. PICK k : k = leer
  OBVIOUS
<1>7. \A d \in Bloques : k[d] = PasoDeLeer(k, d)
  <2>1. PICK P : P = [d \in Bloques |-> PasoDeLeer(k, d)]
    OBVIOUS
  <2>2. \A d \in Bloques : P[d] = PasoDeLeer(k, d)
    BY ONLY <2>1
  <2>3. P = k
    BY ONLY <1>5, <1>6, <2>1
  <2> QED
    BY ONLY <2>2, <2>3
<1>8. \A d \in Bloques : Trozos(d[1], d[2], d[3]) = PasoDeLeer(w, d)
  BY <1>1
<1> QED
  BY ONLY <1>6, <1>7, <1>8

\* leer makes those requests.
LEMMA LeerEs ==
  ASSUME NEW d \in Bloques
  PROVE  leer[d] = Trozos(d[1], d[2], d[3])
<1>1. PICK k, w : k = leer /\ w = [e \in Bloques |-> Trozos(e[1], e[2], e[3])]
  OBVIOUS
<1>2. \A e \in Bloques : k[e] = PasoDeLeer(k, e) /\ w[e] = PasoDeLeer(w, e)
  <2>1. \A e \in Bloques : w[e] = Trozos(e[1], e[2], e[3])
    BY ONLY <1>1
  <2> QED
    BY ONLY <1>1, <2>1, LeerPaso
<1> DEFINE S == {n \in Nat : \A e \in Bloques : e[3] < n => k[e] = w[e]}
<1>3. 0 \in S
  <2>1. ASSUME NEW e \in Bloques PROVE ~(e[3] < 0)
    <3>1. e[3] \in Nat
      BY ONLY DeBloques, e \in Bloques
    <3> QED
      BY ONLY <3>1
  <2> QED
    BY ONLY <2>1
<1>4. ASSUME NEW n \in S PROVE n + 1 \in S
  <2>1. n \in Nat /\ \A e \in Bloques : e[3] < n => k[e] = w[e]
    OBVIOUS
  <2>2. ASSUME NEW e \in Bloques, e[3] < n + 1 PROVE k[e] = w[e]
    <3>1. PICK T, p, o, t : T = tamanioPag /\ p = e[1] /\ o = e[2] /\ t = e[3]
      OBVIOUS
    <3>2. T \in Nat \ {0} /\ p \in Nat /\ o \in 0..(T - 1) /\ t \in Nat
      BY <3>1, DeBloques, PaginaAssumption
    <3>3. CASE t + o <= T
      <4>1. PasoDeLeer(k, e) = <<e>> /\ PasoDeLeer(w, e) = <<e>>
        BY ONLY <3>1, <3>3 DEF PasoDeLeer
      <4> QED
        BY ONLY <1>2, <4>1, e \in Bloques
    <3>4. CASE ~(t + o <= T)
      <4>1. t + o > T
        BY ONLY <3>2, <3>4
      <4>2. PICK a, b : a = <<p, o, T - o>> /\ b = <<p + 1, 0, t - (T - o)>>
        OBVIOUS
      <4>3. a \in Bloques /\ b \in Bloques /\ b[3] < t
        BY ONLY <3>1, <4>1, <4>2, DeBloques, e \in Bloques
      <4>4. /\ PasoDeLeer(k, e) = k[a] \o k[b]
            /\ PasoDeLeer(w, e) = w[a] \o w[b]
        BY ONLY <3>1, <3>4, <4>2 DEF PasoDeLeer
      <4>5. k[b] = w[b]
        <5>1. b[3] < n
          <6>1. b[3] \in Nat
            BY <4>3, DeBloques
          <6> QED
            BY ONLY <2>1, <2>2, <3>1, <3>2, <4>3, <6>1
        <5> QED
          BY ONLY <2>1, <4>3, <5>1
      <4>6. k[a] = w[a]
        <5>1. a[3] + a[2] <= tamanioPag
          BY ONLY <3>1, <3>2, <4>2
        <5>2. PasoDeLeer(k, a) = <<a>> /\ PasoDeLeer(w, a) = <<a>>
          BY ONLY <5>1 DEF PasoDeLeer
        <5> QED
          BY ONLY <1>2, <4>3, <5>2
      <4> QED
        BY ONLY <1>2, <4>4, <4>5, <4>6, e \in Bloques
    <3> QED
      BY <3>3, <3>4
  <2> QED
    BY ONLY <2>1, <2>2
<1> HIDE DEF S
<1>5. S \in SUBSET Nat
  BY DEF S
<1>6. \A n \in Nat : n \in S
  BY <1>3, <1>4, <1>5, Induccion
<1>7. k[d] = w[d]
  <2>1. PICK t \in Nat : t = d[3]
    BY DeBloques
  <2>2. t + 1 \in S /\ t < t + 1
    BY <1>6
  <2> QED
    BY ONLY <2>1, <2>2, d \in Bloques DEF S
<1> QED
  BY ONLY <1>1, <1>7, d \in Bloques

\* What the answers bring, one after the other, are the bytes that were asked for;
\* no request goes past the end of its page nor of them.
LEMMA Lectura ==
  ASSUME NEW d \in Bloques, d[3] # 0, NEW L, L = leer[d]
  PROVE  /\ FlattenSeq([k \in DOMAIN L |-> Bytes(L[k])]) = Bytes(d)
         /\ \A k \in DOMAIN L :
              /\ L[k] \in Bloques /\ L[k][3] # 0 /\ L[k][2] + L[k][3] <= tamanioPag
              /\ L[k][1] * tamanioPag + L[k][2] + L[k][3] <= d[1] * tamanioPag + d[2] + d[3]
<1>1. PICK T, p, o, t : T = tamanioPag /\ p = d[1] /\ o = d[2] /\ t = d[3]
  OBVIOUS
<1>2. PICK x, q : x = o + t /\ q = Cuantos(x)
  OBVIOUS
<1>3. /\ T \in Nat \ {0} /\ p \in Nat /\ o \in 0..(T - 1) /\ t \in Nat \ {0} /\ x \in Nat
      /\ q \in Nat \ {0} /\ d = <<p, o, t>>
  <2>1. d[1] \in Nat /\ d[2] \in 0..(tamanioPag - 1) /\ d[3] \in Nat /\ d = <<d[1], d[2], d[3]>>
    BY ONLY DeBloques, d \in Bloques
  <2>2. x \in Nat /\ T \in Nat \ {0}
    BY <1>1, <1>2, <2>1, PaginaAssumption
  <2>3. q \in Nat \ {0}
    BY <1>2, <2>2, CuantosEs
  <2> QED
    BY ONLY <1>1, <2>1, <2>2, <2>3, d[3] # 0
<1>4. /\ L \in Seq(Bloques) /\ Len(L) = q /\ DOMAIN L = 1..q
      /\ \A k \in 1..q : L[k] = Trozo(p, o, t, k)
  <2>1. L = Trozos(p, o, t)
    BY ONLY LeerEs, <1>1, d \in Bloques, L = leer[d]
  <2>2. p \in Nat /\ o \in 0..(tamanioPag - 1) /\ t \in Nat
    BY ONLY <1>1, <1>3
  <2>3. /\ Trozos(p, o, t) \in Seq(Bloques) /\ Len(Trozos(p, o, t)) = Cuantos(o + t)
        /\ \A k \in 1..Cuantos(o + t) : Trozos(p, o, t)[k] = Trozo(p, o, t, k)
    BY ONLY <2>2, TrozosTipo
  <2> QED
    BY ONLY <1>2, <2>1, <2>3
<1> DEFINE De(k) == Desde(o, k)
           Ha(k) == Hasta(x, k)
           Si(k) == IF k = 1 THEN o ELSE 0
<1>5. ASSUME NEW k \in 1..q
      PROVE  /\ De(k) \in Nat /\ Ha(k) \in Nat /\ De(k) < Ha(k) /\ Ha(k) <= x
             /\ Ha(k) <= k * T /\ De(k) = (k - 1) * T + Si(k)
             /\ k # 1 => De(k) = Ha(k - 1)
  <2>1. o \in 0..(tamanioPag - 1) /\ t \in Nat \ {0} /\ k \in 1..Cuantos(o + t)
    BY ONLY <1>1, <1>2, <1>3, k \in 1..q
  <2>2. /\ Desde(o, k) \in Nat /\ Hasta(o + t, k) \in Nat
        /\ Desde(o, k) < Hasta(o + t, k) /\ Hasta(o + t, k) <= o + t
        /\ Hasta(o + t, k) <= k * tamanioPag
        /\ Desde(o, k) = (k - 1) * tamanioPag + (IF k = 1 THEN o ELSE 0)
        /\ k # 1 => Desde(o, k) = Hasta(o + t, k - 1)
    BY ONLY <2>1, DeTrozos
  <2> QED
    BY ONLY <1>1, <1>2, <2>2
<1>6. ASSUME NEW k \in 1..q
      PROVE  /\ L[k][1] = p + k - 1 /\ L[k][2] = Si(k) /\ L[k][3] = Ha(k) - De(k)
             /\ L[k][1] * T + L[k][2] = p * T + De(k)
  <2>1. L[k] = <<p + k - 1, Si(k), Ha(k) - De(k)>>
    BY ONLY <1>2, <1>4, k \in 1..q DEF Trozo
  <2>2. L[k][1] = p + k - 1 /\ L[k][2] = Si(k) /\ L[k][3] = Ha(k) - De(k)
    BY ONLY <2>1
  <2>3. PICK y : y = k - 1
    OBVIOUS
  <2>4. y \in Nat /\ (p + y) * T = p * T + y * T /\ p + k - 1 = p + y
    BY ONLY <1>3, <2>3, k \in 1..q
  <2>5. De(k) = y * T + Si(k)
    BY ONLY <1>5, <2>3, k \in 1..q
  <2>6. Si(k) \in Nat
    BY ONLY <1>3
  <2>7. y * T \in Nat /\ p * T \in Nat
    BY ONLY <1>3, <2>4
  <2>8. PICK u, v, w, s : u = y * T /\ v = p * T /\ w = (p + y) * T /\ s = Si(k)
    OBVIOUS
  <2>9. w + s = v + (u + s)
    BY ONLY <2>4, <2>6, <2>7, <2>8
  <2>10. L[k][1] * T + L[k][2] = w + s
    BY ONLY <2>2, <2>4, <2>8
  <2>11. p * T + De(k) = v + (u + s)
    BY ONLY <2>5, <2>8
  <2> QED
    BY ONLY <2>2, <2>9, <2>10, <2>11
<1> HIDE DEF De, Ha, Si
<1>7. ASSUME NEW k \in DOMAIN L
      PROVE  /\ L[k] \in Bloques /\ L[k][3] # 0 /\ L[k][2] + L[k][3] <= T
             /\ L[k][1] * T + L[k][2] + L[k][3] <= p * T + o + t
  <2>1. k \in 1..q /\ L[k] \in Bloques
    BY ONLY <1>4, k \in DOMAIN L
  <2>2. PICK y, z, a, b, c : y = k * T /\ z = (k - 1) * T /\ a = De(k) /\ b = Ha(k) /\ c = Si(k)
    OBVIOUS
  <2>3. y \in Nat /\ z = y - T /\ k \in Nat /\ k # 0
    <3>1. k \in Nat /\ k # 0
      BY ONLY <1>3, <2>1
    <3> QED
      BY ONLY <1>3, <2>2, <3>1, Producto
  <2>4. a \in Nat /\ b \in Nat /\ a < b /\ b <= x /\ b <= y /\ a = z + c
    BY ONLY <1>5, <2>1, <2>2
  <2>5. PICK l1, l2, l3, w, v : /\ l1 = L[k][1] /\ l2 = L[k][2] /\ l3 = L[k][3] /\ w = l1 * T
                                /\ v = p * T
    OBVIOUS
  <2>6. l2 = c /\ l3 = b - a /\ w + l2 = v + a
    BY ONLY <1>6, <2>1, <2>2, <2>5
  <2>7. w \in Nat /\ v \in Nat /\ c \in Nat /\ l2 \in Nat
    <3>1. l1 \in Nat /\ l2 \in Nat
      <4>1. ASSUME NEW e \in Bloques PROVE e[1] \in Nat /\ e[2] \in Nat
        <5>1. e[1] \in Nat /\ e[2] \in 0..(tamanioPag - 1)
          BY ONLY DeBloques, e \in Bloques
        <5> QED
          BY ONLY <1>1, <1>3, <5>1
      <4> QED
        BY ONLY <2>1, <2>5, <4>1
    <3> QED
      BY ONLY <1>3, <2>5, <2>6, <3>1
  <2>8. l3 # 0 /\ l2 + l3 <= T /\ w + l2 + l3 <= v + o + t
    BY ONLY <1>2, <1>3, <2>3, <2>4, <2>6, <2>7
  <2> QED
    BY ONLY <2>1, <2>5, <2>8
<1> DEFINE ss == [k \in 1..q |-> Bytes(L[k])]
           f == [k \in 0..q |-> IF k = 0 THEN 0 ELSE Ha(k) - o]
<1>8. ASSUME NEW k \in 1..q
      PROVE  /\ Bytes(L[k]) \in Seq(Int) /\ Len(Bytes(L[k])) = Ha(k) - De(k)
             /\ \A j \in 1..(Ha(k) - De(k)) : Bytes(L[k])[j] = p * T + De(k) + j - 1
  <2>1. PICK n, s : n = Ha(k) - De(k) /\ s = p * T + De(k)
    OBVIOUS
  <2>2. n \in Nat /\ s \in Nat
    BY ONLY <1>3, <1>5, <2>1, k \in 1..q
  <2>3. Bytes(L[k]) = [j \in 1..n |-> s + j - 1]
    <3>1. L[k][3] = n /\ L[k][1] * T + L[k][2] = s
      BY ONLY <1>6, <2>1, k \in 1..q
    <3> QED
      BY ONLY <1>1, <3>1 DEF Bytes
  <2>4. PICK g : g = Bytes(L[k])
    OBVIOUS
  <2>5. g \in Seq(Int) /\ Len(g) = n /\ \A j \in 1..n : g[j] = s + j - 1
    BY ONLY <2>2, <2>3, <2>4
  <2> QED
    BY ONLY <2>1, <2>4, <2>5
<1>9. /\ ss \in Seq(Seq(Int)) /\ Len(ss) = q
      /\ \A k \in 1..q : ss[k] = Bytes(L[k])
  <2>1. \A k \in 1..q : Bytes(L[k]) \in Seq(Int)
    BY ONLY <1>8
  <2> QED
    BY ONLY <1>3, <2>1
<1>10. /\ f[0] = 0 /\ \A k \in 1..q : f[k] = Ha(k) - o /\ f[k - 1] = De(k) - o
  <2>1. f[0] = 0
    BY <1>3
  <2>2. ASSUME NEW k \in 1..q PROVE f[k] = Ha(k) - o
    BY <1>3
  <2>3. ASSUME NEW k \in 1..q PROVE f[k - 1] = De(k) - o
    <3>1. CASE k = 1
      <4>1. De(1) = o
        BY ONLY DEF De, Desde
      <4> QED
        BY ONLY <1>3, <2>1, <3>1, <4>1
    <3>2. CASE k # 1
      <4>1. k - 1 \in 1..q
        BY <1>3, <3>2
      <4> QED
        BY ONLY <1>5, <2>2, <3>2, <4>1, k \in 1..q
    <3> QED
      BY <3>1, <3>2
  <2> QED
    BY ONLY <2>1, <2>2, <2>3
<1>11. Suma(f, Largos(ss), Len(ss))
  <2>1. ASSUME NEW k \in 0..q PROVE f[k] \in Nat
    <3>1. CASE k = 0
      BY ONLY <1>10, <3>1
    <3>2. CASE k # 0
      <4>1. k \in 1..q
        BY <1>3, <3>2
      <4>2. PICK a, b, c : a = De(k) /\ b = Ha(k) /\ c = k - 1
        OBVIOUS
      <4>3. a >= o
        <5>1. CASE k = 1
          BY ONLY <1>3, <4>2, <5>1 DEF De, Desde
        <5>2. CASE k # 1
          <6>1. c \in Nat /\ 1 <= c /\ 1 * T = T /\ c * T = a
            <7>1. c * T = a
              BY ONLY <1>1, <4>2, <5>2 DEF De, Desde
            <7> QED
              BY ONLY <1>3, <4>1, <4>2, <5>2, <7>1
          <6>2. 1 * T <= c * T
            BY ONLY <1>3, <6>1, Producto
          <6> QED
            BY ONLY <1>3, <6>1, <6>2
        <5> QED
          BY <5>1, <5>2
      <4>4. a \in Nat /\ b \in Nat /\ a < b /\ f[k] = b - o
        BY ONLY <1>5, <1>10, <4>1, <4>2
      <4> QED
        BY ONLY <1>3, <4>3, <4>4
    <3> QED
      BY <3>1, <3>2
  <2>2. f \in [0..q -> Nat]
    BY ONLY <2>1
  <2>3. ASSUME NEW k \in 1..q PROVE f[k] = f[k - 1] + Largos(ss)[k]
    <3>1. Largos(ss)[k] = Ha(k) - De(k)
      <4>1. Largos(ss)[k] = Len(ss[k])
        BY ONLY <1>9, k \in 1..q DEF Largos
      <4> QED
        BY ONLY <1>8, <1>9, <4>1, k \in 1..q
    <3>2. De(k) \in Nat /\ Ha(k) \in Nat /\ f[k] = Ha(k) - o /\ f[k - 1] = De(k) - o
      BY ONLY <1>5, <1>10, k \in 1..q
    <3> QED
      BY ONLY <1>3, <3>1, <3>2
  <2> HIDE DEF f, ss
  <2> QED
    BY ONLY <1>9, <1>10, <2>2, <2>3 DEF Suma
<1> HIDE DEF f, ss
<1>12. PICK v : v = FlattenSeq(ss)
  OBVIOUS
<1>13. f[q] = t
  <2>1. Ha(q) = x /\ q \in 1..q
    BY ONLY <1>2, <1>3 DEF Ha, Hasta
  <2> QED
    BY ONLY <1>2, <1>3, <1>10, <2>1
<1>14. /\ v \in Seq(Int) /\ Len(v) = t
       /\ \A i \in 1..q : \A j \in 1..Len(ss[i]) :
              f[i - 1] + j \in 1..t /\ v[f[i - 1] + j] = ss[i][j]
  <2>1. /\ FlattenSeq(ss) \in Seq(Int) /\ Len(FlattenSeq(ss)) = f[Len(ss)]
        /\ \A i \in 1..Len(ss) : \A j \in 1..Len(ss[i]) :
              f[i - 1] + j \in 1..f[Len(ss)] /\ FlattenSeq(ss)[f[i - 1] + j] = ss[i][j]
    <3>1. ss \in Seq(Seq(Int))
      BY ONLY <1>9
    <3> QED
      BY ONLY <1>11, <3>1, Aplanada
  <2>2. Len(ss) = q /\ f[Len(ss)] = t
    BY ONLY <1>9, <1>13
  <2> QED
    BY ONLY <1>12, <2>1, <2>2
<1>15. ASSUME NEW n \in 1..t PROVE v[n] = p * T + o + n - 1
  <2>1. Largos(ss) \in [1..q -> Nat]
    <3>1. \A k \in 1..q : Len(ss[k]) \in Nat
      BY ONLY <1>9
    <3>2. Largos(ss) = [k \in 1..q |-> Len(ss[k])]
      BY ONLY <1>9 DEF Largos
    <3> QED
      BY ONLY <3>1, <3>2
  <2>9. PICK i \in 1..q : \E j \in 1..Largos(ss)[i] : n = f[i - 1] + j
    <3>1. n \in 1..f[q] /\ Suma(f, Largos(ss), q) /\ q \in Nat
      BY ONLY <1>3, <1>9, <1>11, <1>13, n \in 1..t
    <3> QED
      BY ONLY <2>1, <3>1, EnUno
  <2>2. PICK j \in 1..Largos(ss)[i] : n = f[i - 1] + j
    BY ONLY <2>9
  <2>3. Largos(ss)[i] = Len(ss[i]) /\ ss[i] = Bytes(L[i])
    BY ONLY <1>9, i \in 1..q DEF Largos
  <2>4. v[n] = ss[i][j] /\ j \in 1..Len(ss[i])
    BY ONLY <1>14, <2>2, <2>3
  <2>5. PICK a, b, y : a = De(i) /\ b = Ha(i) /\ y = p * T
    OBVIOUS
  <2>6. a \in Nat /\ b \in Nat /\ y \in Nat /\ f[i - 1] = a - o /\ Len(ss[i]) = b - a
    BY ONLY <1>3, <1>5, <1>8, <1>10, <2>3, <2>5, i \in 1..q
  <2>7. v[n] = y + a + j - 1
    BY ONLY <1>8, <2>3, <2>4, <2>5, <2>6, i \in 1..q
  <2>8. y + a + j - 1 = y + o + n - 1
    <3>1. j \in 1..(b - a) /\ n \in Nat /\ n = a - o + j
      BY ONLY <2>2, <2>3, <2>6, n \in 1..t
    <3> QED
      BY ONLY <1>3, <2>6, <3>1
  <2> QED
    BY ONLY <2>5, <2>7, <2>8
<1>16. v = Bytes(d)
  <2>1. Bytes(d) = [j \in 1..t |-> p * T + o + j - 1]
    BY ONLY <1>1 DEF Bytes
  <2>2. v = [j \in 1..t |-> v[j]]
    BY ONLY <1>3, <1>14
  <2> QED
    BY ONLY <1>15, <2>1, <2>2
<1>17. [k \in DOMAIN L |-> Bytes(L[k])] = ss
  BY ONLY <1>4 DEF ss
<1> QED
  BY ONLY <1>1, <1>7, <1>12, <1>16, <1>17

(* The instructions.                                                         *)

\* The fields of an instruction's place.
LEMMA DeIndice ==
  ASSUME NEW i \in 1..Len(Indice)
  PROVE  /\ Len(Indice) \in Nat \ {0} /\ Indice[i] \in Nat \X (Nat \ {0})
         /\ Indice[i][1] \in Nat /\ Indice[i][2] \in Nat \ {0}
BY IndiceAssumption

\* Each instruction begins after those before it end.
LEMMA Consecutivas ==
  ASSUME NEW j \in 1..Len(Indice), NEW i \in 1..(j - 1)
  PROVE  Indice[i][1] + Indice[i][2] <= Indice[j][1]
<1>1. PICK n : n = Len(Indice)
  OBVIOUS
<1>2. n \in Nat /\ j \in 1..n /\ i \in 1..n /\ i < j
  BY <1>1, IndiceAssumption
<1> DEFINE Ini(x) == Indice[x][1]
           Lar(x) == Indice[x][2]
<1>3. \A x \in 1..n : Ini(x) \in Nat /\ Lar(x) \in Nat
  BY <1>1, DeIndice
<1>4. \A x \in 1..(n - 1) : Ini(x + 1) = Ini(x) + Lar(x)
  BY <1>1, IndiceAssumption
<1> HIDE DEF Ini, Lar
<1> DEFINE S == {k \in Nat : i < k /\ k <= n => Ini(i) + Lar(i) <= Ini(k)}
<1>5. 0 \in S
  BY <1>2
<1>6. ASSUME NEW k \in S PROVE k + 1 \in S
  <2>1. SUFFICES ASSUME i < k + 1, k + 1 <= n PROVE Ini(i) + Lar(i) <= Ini(k + 1)
    OBVIOUS
  <2>2. k \in Nat /\ (i < k /\ k <= n => Ini(i) + Lar(i) <= Ini(k))
    OBVIOUS
  <2> HIDE DEF S
  <2>3. k \in 1..(n - 1) /\ k \in 1..n /\ Ini(k + 1) = Ini(k) + Lar(k)
    BY <1>2, <1>4, <2>1, <2>2
  <2>4. CASE i = k
    BY <1>3, <2>3, <2>4
  <2>5. CASE i # k
    <3>1. i < k /\ k <= n
      BY <1>2, <2>1, <2>2, <2>5
    <3> QED
      BY <1>2, <1>3, <2>2, <2>3, <3>1
  <2> QED
    BY <2>4, <2>5
<1>7. S \in SUBSET Nat
  OBVIOUS
<1> HIDE DEF S
<1>8. j \in S
  BY <1>2, <1>5, <1>6, <1>7, Induccion
<1>9. Ini(i) + Lar(i) <= Ini(j)
  BY <1>2, <1>8 DEF S
<1> QED
  BY <1>9 DEF Ini, Lar

\* An instruction is known by its bytes.
LEMMA LiteralUnico ==
  ASSUME NEW i \in Posiciones, NEW j \in Posiciones, Literal(i) = Literal(j)
  PROVE  i = j
<1>1. i + 1 \in 1..Len(Indice) /\ j + 1 \in 1..Len(Indice) /\ i \in Nat /\ j \in Nat
  BY IndiceAssumption DEF Posiciones
<1>2. ASSUME NEW k \in Posiciones, k + 1 \in 1..Len(Indice)
      PROVE  Literal(k)[1] = Indice[k + 1][1]
  <2>1. PICK a, n : a = Indice[k + 1][1] /\ n = Indice[k + 1][2]
    OBVIOUS
  <2>2. a \in Nat /\ n \in Nat \ {0}
    BY <1>2, <2>1, DeIndice
  <2>3. Literal(k) = [x \in 1..n |-> a + x - 1]
    BY ONLY <2>1 DEF Literal
  <2>4. 1 \in 1..n /\ a + 1 - 1 = a
    BY <2>2
  <2> QED
    BY ONLY <2>1, <2>3, <2>4
<1>3. Indice[i + 1][1] = Indice[j + 1][1]
  <2>1. Literal(i)[1] = Indice[i + 1][1] /\ Literal(j)[1] = Indice[j + 1][1]
    BY <1>1, <1>2
  <2> QED
    BY <2>1
<1>4. ASSUME NEW x \in Posiciones, NEW y \in Posiciones, x < y,
             x + 1 \in 1..Len(Indice), y + 1 \in 1..Len(Indice)
      PROVE  Indice[x + 1][1] # Indice[y + 1][1]
  <2>1. PICK p, q : p = x + 1 /\ q = y + 1
    OBVIOUS
  <2>2. p \in 1..Len(Indice) /\ q \in 1..Len(Indice) /\ p \in 1..(q - 1)
    BY <1>4, <2>1 DEF Posiciones
  <2>3. Indice[p][1] + Indice[p][2] <= Indice[q][1]
    BY <2>2, Consecutivas
  <2>4. Indice[p][1] \in Nat /\ Indice[p][2] \in Nat \ {0} /\ Indice[q][1] \in Nat
    BY <2>2, DeIndice
  <2> QED
    BY <2>1, <2>3, <2>4
<1>5. ~(i < j) /\ ~(j < i)
  BY <1>1, <1>3, <1>4
<1> QED
  BY <1>1, <1>5

\* The code fits in its pages.
LEMMA EntraElCodigo ==
  ASSUME NEW i \in 1..Len(Indice)
  PROVE  /\ Tamanio \in Nat \ {0} /\ PaginasDeCodigo \in Nat \ {0}
         /\ Tamanio <= PaginasDeCodigo * tamanioPag
         /\ Indice[i][1] + Indice[i][2] <= Tamanio
<1>1. PICK n : n = Len(Indice)
  OBVIOUS
<1>2. n \in Nat \ {0} /\ n \in 1..Len(Indice)
  BY <1>1, IndiceAssumption
<1>3. PICK a, b, s : a = Indice[n][1] /\ b = Indice[n][2] /\ s = Tamanio
  OBVIOUS
<1>4. a \in Nat /\ b \in Nat \ {0} /\ s = a + b /\ s \in Nat \ {0}
  <2>1. a \in Nat /\ b \in Nat \ {0}
    BY <1>2, <1>3, DeIndice
  <2>2. s = a + b
    BY ONLY <1>1, <1>3 DEF Tamanio
  <2> QED
    BY <2>1, <2>2
<1>5. PICK T : T = tamanioPag
  OBVIOUS
<1>6. T \in Nat \ {0}
  BY <1>5, PaginaAssumption
<1>7. PICK y, P : y = s + T - 1 /\ P = PaginasDeCodigo
  OBVIOUS
<1>8. y \in Nat /\ P = y \div T
  <2>1. y \in Nat
    BY ONLY <1>4, <1>6, <1>7
  <2>2. P = (s + T - 1) \div T
    BY ONLY <1>3, <1>5, <1>7 DEF PaginasDeCodigo
  <2> QED
    BY ONLY <1>7, <2>1, <2>2
<1>9. PICK q \in Nat, r \in 0..(T - 1) : q = y \div T /\ r = y % T /\ y = q * T + r
  BY <1>6, <1>8, Division
<1>10. q # 0 /\ s <= q * T
  <2>1. PICK z \in Nat : z = q * T
    BY <1>6, <1>9, Producto
  <2>2. s <= z
    BY ONLY <1>4, <1>6, <1>7, <1>9, <2>1
  <2>3. q = 0 => z = 0
    BY ONLY <1>6, <2>1
  <2> QED
    BY ONLY <1>4, <2>1, <2>2, <2>3
<1>11. Indice[i][1] + Indice[i][2] <= s
  <2>1. CASE i = n
    BY ONLY <1>3, <1>4, <2>1
  <2>2. CASE i # n
    <3>1. i \in 1..(n - 1)
      BY <1>1, <1>2, <2>2
    <3>2. Indice[i][1] + Indice[i][2] <= a
      BY <1>2, <1>3, <3>1, Consecutivas
    <3>3. Indice[i][1] \in Nat /\ Indice[i][2] \in Nat
      BY DeIndice
    <3> QED
      BY ONLY <1>4, <3>2, <3>3
  <2> QED
    BY <2>1, <2>2
<1> QED
  BY ONLY <1>3, <1>4, <1>5, <1>7, <1>8, <1>9, <1>10, <1>11

\* The numbers of the program, two for each instruction.
LEMMA DelIndice ==
  ASSUME NEW v, v = FlattenSeq(Indice)
  PROVE  /\ v \in Seq(Nat) /\ Len(v) = 2 * Len(Indice)
         /\ \A i \in 1..Len(Indice) : v[2 * (i - 1) + 1] = Indice[i][1]
                                      /\ v[2 * (i - 1) + 2] = Indice[i][2]
<1>1. PICK n : n = Len(Indice)
  OBVIOUS
<1>2. n \in Nat /\ Indice \in Seq(Seq(Nat)) /\ \A i \in 1..n : Len(Indice[i]) = 2
  <2>1. n \in Nat /\ Indice \in Seq(Nat \X (Nat \ {0}))
    BY <1>1, IndiceAssumption
  <2>2. \A x \in Nat \X (Nat \ {0}) : x \in Seq(Nat) /\ Len(x) = 2
    <3> SUFFICES ASSUME NEW x \in Nat \X (Nat \ {0}) PROVE x \in Seq(Nat) /\ Len(x) = 2
      OBVIOUS
    <3>1. PICK a \in Nat, b \in Nat : x = <<a, b>>
      OBVIOUS
    <3> QED
      BY <3>1
  <2>3. \A i \in 1..n : Indice[i] \in Seq(Nat) /\ Len(Indice[i]) = 2
    BY <1>1, <2>1, <2>2
  <2>4. Indice \in Seq(Seq(Nat))
    <3>1. Indice = [i \in 1..n |-> Indice[i]]
      BY <1>1, <2>1
    <3> QED
      BY ONLY <2>1, <2>3, <3>1, SMTT(40)
  <2> QED
    BY <2>1, <2>3, <2>4
<1> DEFINE f == [i \in 0..n |-> 2 * i]
<1>3. /\ f[n] = 2 * n
      /\ \A i \in 1..n : f[i - 1] = 2 * (i - 1)
  BY <1>2
<1>4. Suma(f, Largos(Indice), n)
  <2>1. f \in [0..n -> Nat] /\ f[0] = 0
    BY <1>2
  <2>2. ASSUME NEW i \in 1..n PROVE f[i] = f[i - 1] + Largos(Indice)[i]
    <3>1. Largos(Indice)[i] = 2
      BY <1>1, <1>2 DEF Largos
    <3>2. f[i] = 2 * i /\ f[i - 1] = 2 * (i - 1)
      BY <1>2
    <3> QED
      BY <1>2, <3>1, <3>2
  <2> HIDE DEF f
  <2> QED
    BY <2>1, <2>2 DEF Suma
<1> HIDE DEF f
<1>5. /\ v \in Seq(Nat) /\ Len(v) = f[n]
      /\ \A i \in 1..n : \A j \in 1..Len(Indice[i]) : v[f[i - 1] + j] = Indice[i][j]
  <2>1. /\ FlattenSeq(Indice) \in Seq(Nat) /\ Len(FlattenSeq(Indice)) = f[Len(Indice)]
        /\ \A i \in 1..Len(Indice) : \A j \in 1..Len(Indice[i]) :
             f[i - 1] + j \in 1..f[Len(Indice)] /\ FlattenSeq(Indice)[f[i - 1] + j] = Indice[i][j]
    <3>1. Indice \in Seq(Seq(Nat)) /\ Suma(f, Largos(Indice), Len(Indice))
      BY ONLY <1>1, <1>2, <1>4
    <3> QED
      BY ONLY <3>1, Aplanada
  <2> QED
    BY ONLY <1>1, <2>1, v = FlattenSeq(Indice)
<1>6. ASSUME NEW i \in 1..n
      PROVE  v[2 * (i - 1) + 1] = Indice[i][1] /\ v[2 * (i - 1) + 2] = Indice[i][2]
  <2>1. Len(Indice[i]) = 2 /\ f[i - 1] = 2 * (i - 1)
    BY ONLY <1>2, <1>3, i \in 1..n
  <2>2. 1 \in 1..Len(Indice[i]) /\ 2 \in 1..Len(Indice[i])
    BY ONLY <2>1
  <2> QED
    BY ONLY <1>5, <2>1, <2>2, i \in 1..n
<1> QED
  BY <1>1, <1>3, <1>5, <1>6

\* What the CPU reads is the instruction at the pc, from pages of the code, and
\* no request goes past the end of its page.
LEMMA LeeLaDelPc ==
  ASSUME NEW m, m.pc \in Posiciones, m.indice = FlattenSeq(Indice)
  PROVE  /\ Sentencia(m) = Literal(m.pc)
         /\ \A k \in DOMAIN Pedidos(m) : /\ Pedidos(m)[k][1] < PaginasDeCodigo
                                         /\ Pedidos(m)[k][2] + Pedidos(m)[k][3] <= tamanioPag
<1>1. PICK i, a, l, T : i = m.pc + 1 /\ a = Indice[i][1] /\ l = Indice[i][2] /\ T = tamanioPag
  OBVIOUS
<1>2. /\ i \in 1..Len(Indice) /\ m.pc = i - 1 /\ a \in Nat /\ l \in Nat \ {0} /\ T \in Nat \ {0}
      /\ a + l <= Tamanio
  <2>1. i \in 1..Len(Indice) /\ m.pc = i - 1
    <3>1. m.pc \in 0..(Len(Indice) - 1) /\ Len(Indice) \in Nat
      BY IndiceAssumption DEF Posiciones
    <3> QED
      BY ONLY <1>1, <3>1
  <2>2. a \in Nat /\ l \in Nat \ {0} /\ a + l <= Tamanio
    BY <1>1, <2>1, DeIndice, EntraElCodigo
  <2> QED
    BY <1>1, <2>1, <2>2, PaginaAssumption
<1>3. m.indice[2 * m.pc + 1] = a /\ m.indice[2 * m.pc + 2] = l
  <2>1. PICK v : v = FlattenSeq(Indice)
    OBVIOUS
  <2>2. v[2 * (i - 1) + 1] = Indice[i][1] /\ v[2 * (i - 1) + 2] = Indice[i][2]
    BY ONLY <1>2, <2>1, DelIndice
  <2> QED
    BY ONLY <1>1, <1>2, <2>1, <2>2, m.indice = FlattenSeq(Indice)
<1>4. PICK p \in Nat, o \in 0..(T - 1) : p = a \div T /\ o = a % T /\ a = p * T + o
  BY <1>2, Division
<1>5. PICK d : d = <<p, o, l>>
  OBVIOUS
<1>6. d \in Bloques /\ d[1] = p /\ d[2] = o /\ d[3] = l
  BY <1>1, <1>2, <1>4, <1>5 DEF Bloques
<1>7. crearEstructuraParaUMC(m) = d
  BY ONLY <1>1, <1>3, <1>4, <1>5 DEF crearEstructuraParaUMC
<1>8. PICK L : L = leer[d]
  OBVIOUS
<1>9. /\ FlattenSeq([k \in DOMAIN L |-> Bytes(L[k])]) = Bytes(d)
      /\ \A k \in DOMAIN L :
           /\ L[k] \in Bloques /\ L[k][3] # 0 /\ L[k][2] + L[k][3] <= tamanioPag
           /\ L[k][1] * tamanioPag + L[k][2] + L[k][3] <= d[1] * tamanioPag + d[2] + d[3]
  BY ONLY <1>2, <1>6, <1>8, Lectura
<1>10. Pedidos(m) = L
  BY ONLY <1>7, <1>8 DEF Pedidos
<1>11. Sentencia(m) = Bytes(d)
  BY ONLY <1>9, <1>10 DEF Sentencia
<1>12. Bytes(d) = Literal(m.pc)
  <2>1. Bytes(d) = [j \in 1..l |-> p * T + o + j - 1]
    BY ONLY <1>1, <1>6 DEF Bytes
  <2>2. Literal(m.pc) = [j \in 1..l |-> a + j - 1]
    BY ONLY <1>1 DEF Literal
  <2> QED
    BY ONLY <1>4, <2>1, <2>2
<1>13. ASSUME NEW k \in DOMAIN L PROVE L[k][1] < PaginasDeCodigo
  <2>1. PICK x, y, z, P : x = L[k][1] /\ y = L[k][2] /\ z = L[k][3] /\ P = PaginasDeCodigo
    OBVIOUS
  <2>2. x \in Nat /\ y \in Nat /\ z \in Nat /\ z # 0 /\ P \in Nat
    <3>1. L[k] \in Bloques /\ z # 0
      BY ONLY <1>9, <2>1, k \in DOMAIN L
    <3>2. x \in Nat /\ y \in 0..(T - 1) /\ z \in Nat
      BY ONLY <1>1, <2>1, <3>1, DeBloques
    <3>3. P \in Nat
      BY <1>2, <2>1, EntraElCodigo
    <3> QED
      BY ONLY <1>2, <3>1, <3>2, <3>3
  <2>3. x * T + y + z <= p * T + o + l
    BY ONLY <1>1, <1>6, <1>9, <2>1, k \in DOMAIN L
  <2>4. p * T + o + l <= P * T
    <3>1. Tamanio <= P * T /\ Tamanio \in Nat
      BY <1>1, <1>2, <2>1, EntraElCodigo
    <3>2. PICK s, u : s = Tamanio /\ u = P * T
      OBVIOUS
    <3>3. u \in Nat
      BY ONLY <1>2, <2>2, <3>2, Producto
    <3>4. a + l <= u
      BY ONLY <1>2, <3>1, <3>2, <3>3
    <3> QED
      BY ONLY <1>4, <3>2, <3>4
  <2>5. ~(P <= x)
    <3>1. SUFFICES ASSUME P <= x PROVE FALSE
      OBVIOUS
    <3>2. P * T <= x * T
      BY ONLY <1>2, <2>2, <3>1, Producto
    <3>3. PICK u, v, w : u = P * T /\ v = x * T /\ w = p * T
      OBVIOUS
    <3>4. u \in Nat /\ v \in Nat /\ w \in Nat
      BY ONLY <1>2, <1>4, <2>2, <3>3, Producto
    <3>5. v + y + z <= w + o + l /\ w + o + l <= u /\ u <= v
      BY ONLY <2>3, <2>4, <3>2, <3>3
    <3> QED
      BY ONLY <1>2, <1>4, <2>2, <3>4, <3>5
  <2> QED
    BY ONLY <2>1, <2>2, <2>5
<1> QED
  BY ONLY <1>9, <1>10, <1>11, <1>12, <1>13

(* The invariant.                                                            *)

Valores == {BASURA} \cup {ins.v : ins \in {i \in Instrucciones : i.op = "valor"}}

Maquinas ==
  [pc : Int, indice : Seq(Nat), etiquetas : Seq(Posiciones), size : Nat, lista : Seq(Nat),
   ctx : Seq(Contexto \cup {LIBRE}), memoria : [Celdas -> Valores], fuera : BOOLEAN,
   programaAbortado : BOOLEAN, perdido : BOOLEAN, caida : BOOLEAN]

Palabra(d) == <<d.pagina, d.offset>> \in Celdas

\* The variables of a context are in the pages of the stack, and so is the one
\* that its call left for what it returns.
EnLaPila(c, b) ==
  /\ \A x \in DOMAIN c.args : Palabra(c.args[x])
  /\ \A x \in DOMAIN c.vars : Palabra(c.vars[x].direccion)
  /\ b # 1 => Palabra(c.retVar)

\* A machine with a PCB: the context of main is the first block, and no other
\* entry of the list is of it.
Entera(m) ==
  /\ m \in Maquinas
  /\ m.indice = FlattenSeq(Indice) /\ m.etiquetas = Etiquetas
  /\ m.size \in 1..MaxContextos /\ m.size <= Len(m.lista)
  /\ m.lista[1] = 1
  /\ \A n \in DOMAIN m.lista : m.lista[n] \in DOMAIN m.ctx /\ (n # 1 => m.lista[n] # 1)
  /\ \A b \in DOMAIN m.ctx : m.ctx[b] # LIBRE /\ b # 1 => m.ctx[b].retPos + 1 \in Posiciones
  /\ m.programaAbortado \/ \A b \in DOMAIN m.ctx : m.ctx[b] # LIBRE => EnLaPila(m.ctx[b], b)
  /\ m.fuera => m.programaAbortado \/ m.caida

Sana(m) == ~m.perdido /\ ~m.programaAbortado /\ ~m.caida

Puntero(d) == convertirDireccionAPuntero(d)

\* The addresses grow, in a context and from one to those above it.
Crecen(s) == \A x \in DOMAIN s : \A y \in DOMAIN s : x < y => Puntero(s[x]) < Puntero(s[y])
Debajo(s, r) == \A x \in DOMAIN s : \A y \in DOMAIN r : Puntero(s[x]) < Puntero(r[y])

Apilada(m) ==
  Sana(m) =>
    /\ \A i \in 1..m.size : \A j \in 1..m.size : i # j => m.lista[i] # m.lista[j]
    /\ \A i \in 1..m.size : Contextos(m)[i] # LIBRE /\ Crecen(SusDirecciones(Contextos(m)[i]))
    /\ \A i \in 1..m.size : \A j \in 1..m.size :
         i < j => Debajo(SusDirecciones(Contextos(m)[i]), SusDirecciones(Contextos(m)[j]))
    /\ Contextos(m)[1].args = <<>>

Buena(m) == Entera(m) /\ Apilada(m)

EnCPU == Buena(cpu) /\ (~cpu.caida => cpu.pc \in Posiciones)

Afuera == /\ cpu \in Maquinas /\ cpu.size = 0 /\ cpu.lista = <<>> /\ cpu.ctx = <<>>
          /\ ~cpu.caida
          /\ estado # "aborto" => ~cpu.fuera /\ ~cpu.programaAbortado

EnViaje(m) == Buena(m) /\ m.pc \in Posiciones

Inv ==
  /\ codigo \in [Posiciones -> Instrucciones \cup {SIN_LEER}]
  /\ estado \in {"nucleo", "cpu", "fin", "aborto"}
  /\ paquete # <<>> <=> estado \in {"nucleo", "aborto"}
  /\ quantum_aux \in Nat /\ \E q \in Quantums \cup {0} : quantum_aux <= q
  /\ programaBloqueado \in BOOLEAN
  /\ compartida \in Valores
  /\ estado = "cpu" => EnCPU
  /\ estado # "cpu" => Afuera
  /\ estado = "nucleo" => EnViaje(desserializarPCB(cpu, paquete))

(* Addresses.                                                                *)

\* There are pages of code and of stack.
LEMMA LasPaginas ==
  /\ tamanioPag \in Nat \ {0} /\ PaginasDeCodigo \in Nat \ {0} /\ Paginas \in Nat
  /\ PaginasDeCodigo < Paginas
  /\ Indice # <<>> /\ Len(Indice) \in Nat \ {0}
<1>1. tamanioPag \in Nat \ {0} /\ stack_size \in Nat \ {0}
  BY PaginaAssumption, StackAssumption
<1>2. Len(Indice) \in Nat \ {0} /\ Indice # <<>>
  BY IndiceAssumption
<1>3. 1 \in 1..Len(Indice)
  BY <1>2
<1>4. PaginasDeCodigo \in Nat \ {0}
  BY <1>3, EntraElCodigo
<1>5. Paginas = PaginasDeCodigo + stack_size
  BY DEF Paginas
<1> QED
  BY <1>1, <1>2, <1>4, <1>5

\* The fields of an address.
LEMMA DeDirecciones ==
  ASSUME NEW d \in Direcciones
  PROVE  d.pagina \in 0..Paginas /\ d.offset \in -1..(tamanioPag - 1)
BY DEF Direcciones

\* An address, by its fields.
LEMMA EsDireccion ==
  ASSUME NEW p \in 0..Paginas, NEW o \in -1..(tamanioPag - 1)
  PROVE  Direccion(p, o) \in Direcciones /\ Direccion(p, o).pagina = p /\ Direccion(p, o).offset = o
BY DEF Direccion, Direcciones

\* A word of the stack, by its fields.
LEMMA DePalabra ==
  ASSUME NEW d
  PROVE  Palabra(d) <=> /\ d.pagina \in PaginasDeCodigo..(Paginas - 1)
                        /\ d.offset \in 0..(tamanioPag - 1) /\ d.offset % 4 = 0
<1>1. PICK p, o : p = d.pagina /\ o = d.offset
  OBVIOUS
<1>2. <<p, o>>[2] = o
  OBVIOUS
<1>3. <<p, o>> \in Celdas <=> /\ <<p, o>> \in (PaginasDeCodigo..(Paginas - 1)) \X (0..(tamanioPag - 1))
                              /\ o % 4 = 0
  BY ONLY <1>2 DEF Celdas
<1>4. <<p, o>> \in Celdas <=> /\ p \in PaginasDeCodigo..(Paginas - 1) /\ o \in 0..(tamanioPag - 1)
                              /\ o % 4 = 0
  BY ONLY <1>3
<1> QED
  BY ONLY <1>1, <1>4 DEF Palabra

\* The pointer of a word is the word.
LEMMA VuelveDePuntero ==
  ASSUME NEW d, Palabra(d)
  PROVE  convertirPunteroADireccion(Puntero(d)) = Direccion(d.pagina, d.offset)
<1>1. PICK T, p, o, x : T = tamanioPag /\ p = d.pagina /\ o = d.offset /\ x = Puntero(d)
  OBVIOUS
<1>2. T \in Nat \ {0} /\ p \in Nat \ {0} /\ o \in 0..(T - 1)
  BY <1>1, LasPaginas, DePalabra
<1>3. x = p * T + o
  BY ONLY <1>1 DEF Puntero, convertirDireccionAPuntero
<1>4. ~(T > x)
  <2>1. 1 * T <= p * T /\ 1 * T = T /\ p * T \in Nat
    BY ONLY <1>2, Producto
  <2> QED
    BY ONLY <1>2, <1>3, <2>1
<1>5. x \div T = p /\ x % T = o
  BY ONLY <1>2, <1>3, Division2
<1> QED
  BY ONLY <1>1, <1>4, <1>5 DEF convertirPunteroADireccion

\* The pointers that there can be, the -1 of a name that is not there among them.
Punteros == -1 .. ((Paginas + 1) * tamanioPag - 1)

\* The pointer of an address is one of them.
LEMMA PunteroEnRango ==
  ASSUME NEW d \in Direcciones
  PROVE  Puntero(d) \in Punteros
<1>1. PICK T, p, o, x, N : /\ T = tamanioPag /\ p = d.pagina /\ o = d.offset /\ x = Puntero(d)
                           /\ N = Paginas
  OBVIOUS
<1>2. T \in Nat \ {0} /\ N \in Nat /\ p \in 0..N /\ o \in -1..(T - 1)
  BY <1>1, LasPaginas, DeDirecciones
<1>3. x = p * T + o
  BY ONLY <1>1 DEF Puntero, convertirDireccionAPuntero
<1>4. p * T \in Nat /\ p * T <= N * T /\ (N + 1) * T = N * T + T /\ N * T \in Nat
  BY ONLY <1>2, Producto
<1>5. x \in -1..((N + 1) * T - 1)
  BY ONLY <1>2, <1>3, <1>4
<1> QED
  BY ONLY <1>1, <1>5 DEF Punteros

\* And a pointer is that of an address.
LEMMA DireccionDePuntero ==
  ASSUME NEW x \in Punteros
  PROVE  convertirPunteroADireccion(x) \in Direcciones
<1>1. PICK T, N : T = tamanioPag /\ N = Paginas
  OBVIOUS
<1>2. T \in Nat \ {0} /\ N \in Nat
  BY <1>1, LasPaginas
<1>3. x \in -1..((N + 1) * T - 1) /\ (N + 1) * T \in Nat /\ (N + 1) * T = N * T + T /\ N * T \in Nat
  <2>1. (N + 1) * T = N * T + T /\ N * T \in Nat
    BY ONLY <1>2, Producto
  <2>2. x \in -1..((N + 1) * T - 1)
    BY ONLY <1>1, x \in Punteros DEF Punteros
  <2> QED
    BY ONLY <1>2, <2>1, <2>2
<1>4. CASE T > x
  <2>1. convertirPunteroADireccion(x) = Direccion(0, x)
    BY ONLY <1>1, <1>4 DEF convertirPunteroADireccion
  <2>2. 0 \in 0..Paginas /\ x \in -1..(tamanioPag - 1)
    BY ONLY <1>1, <1>2, <1>3, <1>4
  <2> QED
    BY ONLY <2>1, <2>2, EsDireccion
<1>5. CASE ~(T > x)
  <2>1. x \in Nat
    BY ONLY <1>2, <1>3, <1>5
  <2>2. PICK q \in Nat, r \in 0..(T - 1) : q = x \div T /\ r = x % T /\ x = q * T + r
    BY ONLY <1>2, <2>1, Division
  <2>3. q <= N
    <3>1. SUFFICES ASSUME N + 1 <= q PROVE FALSE
      BY <1>2, <2>2
    <3>2. (N + 1) * T <= q * T /\ q * T \in Nat
      BY ONLY <1>2, <2>2, <3>1, Producto
    <3> QED
      BY ONLY <1>3, <2>2, <3>2, <1>2
  <2>4. convertirPunteroADireccion(x) = Direccion(q, r)
    BY ONLY <1>1, <1>5, <2>2 DEF convertirPunteroADireccion
  <2>5. q \in 0..Paginas /\ r \in -1..(tamanioPag - 1)
    BY ONLY <1>1, <1>2, <2>2, <2>3
  <2> QED
    BY ONLY <2>4, <2>5, EsDireccion
<1> QED
  BY <1>4, <1>5

\* The word after a word is after it, and in the stack if there is room.
LEMMA ProximaBien ==
  ASSUME NEW d, Palabra(d)
  PROVE  /\ Proxima(d) \in Direcciones /\ Puntero(d) < Puntero(Proxima(d))
         /\ ~NoEntra(Proxima(d)) => Palabra(Proxima(d))
<1>1. PICK T, p, o, N, C : /\ T = tamanioPag /\ p = d.pagina /\ o = d.offset /\ N = Paginas
                           /\ C = PaginasDeCodigo
  OBVIOUS
<1>2. /\ T \in Nat \ {0} /\ N \in Nat /\ C \in Nat /\ p \in C..(N - 1) /\ o \in 0..(T - 1)
      /\ o % 4 = 0 /\ p \in Nat
  <2>1. d.pagina \in C..(N - 1) /\ d.offset \in 0..(T - 1) /\ d.offset % 4 = 0
    BY ONLY <1>1, DePalabra, Palabra(d)
  <2>2. T \in Nat \ {0} /\ N \in Nat /\ C \in Nat
    BY <1>1, LasPaginas
  <2> QED
    BY ONLY <1>1, <2>1, <2>2
<1>3. PICK q, r : q = (IF o + 4 >= T THEN p + 1 ELSE p) /\ r = (IF o + 4 >= T THEN 0 ELSE o + 4)
  OBVIOUS
<1>4. Proxima(d) = Direccion(q, r)
  BY ONLY <1>1, <1>3 DEF Proxima
<1>5. q \in 0..N /\ q \in C..N /\ q \in Nat /\ r \in 0..(T - 1) /\ r % 4 = 0
  <2>1. (o + 4) % 4 = 0
    BY ONLY <1>2
  <2> QED
    BY ONLY <1>2, <1>3, <2>1
<1>6. /\ Direccion(q, r) \in Direcciones /\ Direccion(q, r).pagina = q
      /\ Direccion(q, r).offset = r
  <2>1. q \in 0..Paginas /\ r \in -1..(tamanioPag - 1)
    BY ONLY <1>1, <1>2, <1>5
  <2> QED
    BY ONLY <2>1, EsDireccion
<1>7. PICK e : e = Proxima(d)
  OBVIOUS
<1>8. e \in Direcciones /\ e.pagina = q /\ e.offset = r
  BY ONLY <1>4, <1>6, <1>7
<1>9. Puntero(d) = p * T + o /\ Puntero(e) = q * T + r
  BY ONLY <1>1, <1>8 DEF Puntero, convertirDireccionAPuntero
<1>10. Puntero(d) < Puntero(e)
  <2>1. p * T \in Nat /\ (p + 1) * T = p * T + T
    BY ONLY <1>2, Producto
  <2> QED
    BY ONLY <1>2, <1>3, <1>9, <2>1
<1>11. ASSUME ~NoEntra(e) PROVE Palabra(e)
  <2>1. ~(q * T + r + 3 > T * N - 1)
    BY ONLY <1>1, <1>9, <1>11 DEF NoEntra, var_max, Puntero
  <2>2. q # N
    <3>1. SUFFICES ASSUME q = N PROVE FALSE
      OBVIOUS
    <3>2. PICK z : z = N * T
      OBVIOUS
    <3>3. z \in Nat /\ T * N = z /\ q * T = z
      BY ONLY <1>2, <3>1, <3>2
    <3> QED
      BY ONLY <1>2, <1>5, <2>1, <3>3
  <2>3. e.pagina \in PaginasDeCodigo..(Paginas - 1) /\ e.offset \in 0..(tamanioPag - 1) /\ e.offset % 4 = 0
    BY ONLY <1>1, <1>2, <1>5, <1>8, <2>2
  <2> QED
    BY ONLY <2>3, DePalabra
<1> QED
  BY ONLY <1>7, <1>8, <1>10, <1>11

\* The first word of the stack.
LEMMA LaPrimeraPalabra ==
  /\ Direccion(PaginasDeCodigo, 0) \in Direcciones /\ Palabra(Direccion(PaginasDeCodigo, 0))
<1>1. PICK T, N, C : T = tamanioPag /\ N = Paginas /\ C = PaginasDeCodigo
  OBVIOUS
<1>2. T \in Nat \ {0} /\ N \in Nat /\ C \in Nat /\ C < N
  BY <1>1, LasPaginas
<1>3. C \in 0..Paginas /\ 0 \in -1..(tamanioPag - 1)
  BY ONLY <1>1, <1>2
<1>4. PICK d : d = Direccion(C, 0)
  OBVIOUS
<1>5. d \in Direcciones /\ d.pagina = C /\ d.offset = 0
  BY ONLY <1>3, <1>4, EsDireccion
<1>6. d.pagina \in PaginasDeCodigo..(Paginas - 1) /\ d.offset \in 0..(tamanioPag - 1) /\ d.offset % 4 = 0
  BY ONLY <1>1, <1>2, <1>5
<1>7. Palabra(d)
  BY ONLY <1>6, DePalabra
<1> QED
  BY ONLY <1>1, <1>4, <1>5, <1>7

(* What the primitives do to a machine.                                      *)

\* The fields of a machine.
LEMMA DeMaquinas ==
  ASSUME NEW m \in Maquinas
  PROVE  /\ m.pc \in Int /\ m.size \in Nat /\ m.lista \in Seq(Nat)
         /\ m.ctx \in Seq(Contexto \cup {LIBRE}) /\ m.memoria \in [Celdas -> Valores]
         /\ m.fuera \in BOOLEAN /\ m.programaAbortado \in BOOLEAN
         /\ m.perdido \in BOOLEAN /\ m.caida \in BOOLEAN
         /\ m.indice \in Seq(Nat) /\ m.etiquetas \in Seq(Posiciones)
BY DEF Maquinas

\* A change of the pc or of a flag.
LEMMA CambiaMarca ==
  ASSUME NEW m \in Maquinas
  PROVE  /\ \A x \in Int : [m EXCEPT !.pc = x] \in Maquinas
         /\ [m EXCEPT !.fuera = TRUE] \in Maquinas
         /\ [m EXCEPT !.caida = TRUE] \in Maquinas
         /\ \A x \in BOOLEAN : [m EXCEPT !.programaAbortado = x] \in Maquinas
BY DEF Maquinas

\* What a machine keeps when it only writes in memory, or sets a flag.
MismaPila(n, m) == /\ n.indice = m.indice /\ n.etiquetas = m.etiquetas /\ n.size = m.size
                   /\ n.lista = m.lista /\ n.ctx = m.ctx /\ n.perdido = m.perdido
                   /\ m.programaAbortado => n.programaAbortado
                   /\ m.caida => n.caida

\* A machine with the same stack is as good.
LEMMA SigueBuena ==
  ASSUME NEW m, Buena(m), NEW n \in Maquinas, MismaPila(n, m),
         n.fuera => n.programaAbortado \/ n.caida
  PROVE  Buena(n)
<1>1. Entera(n)
  <2>1. Entera(m)
    BY DEF Buena
  <2> QED
    BY ONLY <2>1, n \in Maquinas, MismaPila(n, m), n.fuera => n.programaAbortado \/ n.caida
    DEF Entera, MismaPila
<1>2. Apilada(n)
  <2>1. Apilada(m)
    BY DEF Buena
  <2>2. Sana(n) => Sana(m)
    BY ONLY MismaPila(n, m) DEF Sana, MismaPila
  <2>3. Contextos(n) = Contextos(m) /\ n.size = m.size /\ n.lista = m.lista
    BY ONLY MismaPila(n, m) DEF MismaPila, Contextos
  <2> QED
    BY ONLY <2>1, <2>2, <2>3 DEF Apilada
<1> QED
  BY ONLY <1>1, <1>2 DEF Buena

\* Following NULL leaves the machine as it was, but for caida.
LEMMA CaeBien ==
  ASSUME NEW m, Buena(m)
  PROVE  Buena(Cae(m)) /\ Cae(m).caida /\ Cae(m).pc = m.pc
<1>1. m \in Maquinas
  BY DEF Buena, Entera
<1>2. PICK n : n = Cae(m)
  OBVIOUS
<1>3. n \in Maquinas /\ MismaPila(n, m) /\ n.caida = TRUE /\ n.pc = m.pc
  <2>1. n = [m EXCEPT !.caida = TRUE]
    BY ONLY <1>2 DEF Cae
  <2>2. n \in Maquinas
    BY <1>1, <2>1, CambiaMarca
  <2>3. MismaPila(n, m) /\ n.caida = TRUE /\ n.pc = m.pc
    BY <1>1, <2>1 DEF MismaPila, Maquinas
  <2> QED
    BY <2>2, <2>3
<1>4. Buena(n)
  BY <1>3, SigueBuena
<1> QED
  BY ONLY <1>2, <1>3, <1>4

\* So does aborting, but for programaAbortado.
LEMMA AbortaBien ==
  ASSUME NEW m, Buena(m), NEW n, n = [m EXCEPT !.programaAbortado = TRUE]
  PROVE  /\ Buena(n) /\ n.programaAbortado /\ n.pc = m.pc /\ n.size = m.size
         /\ n.caida = m.caida /\ n.ctx = m.ctx /\ n.lista = m.lista
<1>1. m \in Maquinas
  BY DEF Buena, Entera
<1>3. /\ n \in Maquinas /\ MismaPila(n, m) /\ n.programaAbortado = TRUE /\ n.pc = m.pc
      /\ n.caida = m.caida
  <2>2. n \in Maquinas
    BY <1>1, CambiaMarca
  <2>3. MismaPila(n, m) /\ n.programaAbortado = TRUE /\ n.pc = m.pc /\ n.caida = m.caida
    BY <1>1 DEF MismaPila, Maquinas
  <2> QED
    BY <2>2, <2>3
<1>4. Buena(n)
  BY <1>3, SigueBuena
<1> QED
  BY ONLY <1>3, <1>4 DEF MismaPila

\* So does a jump, but for the pc.
LEMMA PcBien ==
  ASSUME NEW m, Buena(m), NEW x \in Int, NEW n, n = [m EXCEPT !.pc = x]
  PROVE  /\ Buena(n) /\ n.pc = x /\ n.caida = m.caida /\ n.programaAbortado = m.programaAbortado
         /\ n.size = m.size /\ n.ctx = m.ctx /\ n.lista = m.lista /\ n.perdido = m.perdido
<1>1. m \in Maquinas /\ (m.fuera => m.programaAbortado \/ m.caida)
  BY DEF Buena, Entera
<1>3. /\ n \in Maquinas /\ MismaPila(n, m) /\ n.programaAbortado = m.programaAbortado /\ n.pc = x
      /\ n.caida = m.caida /\ n.fuera = m.fuera
  <2>2. n \in Maquinas
    BY <1>1, CambiaMarca
  <2>3. /\ MismaPila(n, m) /\ n.programaAbortado = m.programaAbortado /\ n.pc = x
        /\ n.caida = m.caida /\ n.fuera = m.fuera
    BY <1>1 DEF MismaPila, Maquinas
  <2> QED
    BY <2>2, <2>3
<1>4. Buena(n)
  BY <1>1, <1>3, SigueBuena
<1> QED
  BY ONLY <1>3, <1>4 DEF MismaPila

\* A pointer that may be written through: to a word, unless the process is lost.
EsPuntero(m, p) == /\ p \in Punteros
                   /\ m.programaAbortado \/ \E d : Palabra(d) /\ p = Puntero(d)

\* ESCRIBIR to a word of the stack, or by a process that is already lost.
LEMMA EscribeBien ==
  ASSUME NEW m, Buena(m), NEW v \in Valores, NEW d, Palabra(d) \/ m.programaAbortado,
         NEW n, n = Escribe(m, d, v)
  PROVE  /\ Buena(n) /\ MismaPila(n, m) /\ n.pc = m.pc /\ n.caida = m.caida
         /\ n.programaAbortado = m.programaAbortado
<1>1. m \in Maquinas /\ (m.fuera => m.programaAbortado \/ m.caida)
  BY DEF Buena, Entera
<1>2. CASE Palabra(d)
  <2>1. PICK w \in Celdas : w = <<d.pagina, d.offset>>
    BY <1>2 DEF Palabra
  <2>2. n = [m EXCEPT !.memoria[w] = v]
    BY ONLY <1>2, <2>1, n = Escribe(m, d, v) DEF Escribe, Palabra
  <2>3. /\ MismaPila(n, m) /\ n.pc = m.pc /\ n.caida = m.caida
        /\ n.programaAbortado = m.programaAbortado /\ n.fuera = m.fuera
    BY <1>1, <2>2 DEF MismaPila, Maquinas
  <2>4. n \in Maquinas
    <3>1. m.memoria \in [Celdas -> Valores]
      BY <1>1, DeMaquinas
    <3>2. PICK g : g = [m.memoria EXCEPT ![w] = v]
      OBVIOUS
    <3>3. g \in [Celdas -> Valores]
      BY ONLY <3>1, <3>2, v \in Valores
    <3>4. n = [m EXCEPT !.memoria = g]
      BY ONLY <2>2, <3>2
    <3> QED
      BY ONLY <1>1, <3>3, <3>4 DEF Maquinas
  <2> QED
    BY <1>1, <2>3, <2>4, SigueBuena
<1>3. CASE ~Palabra(d)
  <2>1. n = [m EXCEPT !.fuera = TRUE]
    BY ONLY <1>3, n = Escribe(m, d, v) DEF Escribe, Palabra
  <2>2. /\ MismaPila(n, m) /\ n.pc = m.pc /\ n.caida = m.caida
        /\ n.programaAbortado = m.programaAbortado
    BY <1>1, <2>1 DEF MismaPila, Maquinas
  <2>3. n \in Maquinas
    BY <1>1, <2>1, CambiaMarca
  <2> QED
    BY <1>3, <2>2, <2>3, SigueBuena
<1> QED
  BY <1>2, <1>3

\* asignar through such a pointer.
LEMMA AsignaBien ==
  ASSUME NEW m, Buena(m), NEW v \in Valores, NEW p, EsPuntero(m, p), NEW n, n = asignar(m, p, v)
  PROVE  /\ Buena(n) /\ MismaPila(n, m) /\ n.pc = m.pc /\ n.caida = m.caida
         /\ n.programaAbortado = m.programaAbortado
<1>1. PICK d : d = convertirPunteroADireccion(p)
  OBVIOUS
<1>2. Palabra(d) \/ m.programaAbortado
  <2>1. SUFFICES ASSUME NEW e, Palabra(e), p = Puntero(e) PROVE Palabra(d)
    BY DEF EsPuntero
  <2>2. d = Direccion(e.pagina, e.offset)
    BY <1>1, <2>1, VuelveDePuntero
  <2> QED
    BY <2>1, <2>2 DEF Direccion, Palabra
<1>3. n = Escribe(m, d, v)
  BY ONLY <1>1, n = asignar(m, p, v) DEF asignar
<1> QED
  BY <1>2, <1>3, EscribeBien

\* Reading gives a value of the program's.
LEMMA ValorBien ==
  ASSUME NEW m \in Maquinas, NEW p
  PROVE  dereferenciar(m, p) \in Valores
BY DEF dereferenciar, Maquinas, Valores

\* There is a last one.
LEMMA LaUltimaEs ==
  ASSUME NEW n \in Nat, NEW S, S \subseteq 1..n, S # {}
  PROVE  LaUltima(S) \in S
<1> DEFINE R == {y \in Nat : \E x \in S : y = n - x}
<1>1. R # {} /\ R \in SUBSET Nat
  <2>1. PICK x : x \in S
    OBVIOUS
  <2>2. x \in 1..n
    BY <2>1
  <2>3. n - x \in Nat
    BY <2>2
  <2>4. n - x \in R
    BY <2>1, <2>3
  <2> QED
    BY <2>4
<1>2. PICK y \in R : \A z \in R : y <= z
  <2> HIDE DEF R
  <2> QED
    BY <1>1, MenorExiste
<1>3. PICK i \in S : y = n - i
  OBVIOUS
<1>4. \A j \in S : j <= i
  <2> SUFFICES ASSUME NEW j \in S PROVE j <= i
    OBVIOUS
  <2>1. j \in 1..n /\ i \in 1..n
    OBVIOUS
  <2>2. n - j \in R
    BY <2>1
  <2>3. y <= n - j
    BY <1>2, <2>2
  <2> QED
    BY <1>3, <2>1, <2>3
<1>5. \E k \in S : \A j \in S : j <= k
  BY <1>4
<1> QED
  BY ONLY <1>5 DEF LaUltima

\* What obtenerPosicionVariable finds in a context.
LEMMA PosicionBien ==
  ASSUME NEW c \in Contexto, NEW b, NEW x, NEW p, p = Posicion(c, x), p # NULO
  PROVE  /\ p \in Punteros
         /\ EnLaPila(c, b) /\ p # -1 => \E d : Palabra(d) /\ p = Puntero(d)
<1>1. /\ DOMAIN c.args = 1..Len(c.args) /\ DOMAIN c.vars = 1..Len(c.vars)
      /\ Len(c.vars) \in Nat
      /\ \A i \in 1..Len(c.args) : c.args[i] \in Direcciones
      /\ \A i \in 1..Len(c.vars) : c.vars[i] \in Declaradas
  BY DelContexto
<1>2. CASE EsArgumento(x)
  <2>1. PICK i : i = Digito[x]
    OBVIOUS
  <2>2. i \in DOMAIN c.args /\ p = Puntero(c.args[i])
    BY ONLY <1>2, <2>1, p = Posicion(c, x), p # NULO DEF Posicion, Puntero
  <2>3. c.args[i] \in Direcciones
    BY <1>1, <2>2
  <2>4. p \in Punteros
    BY <2>2, <2>3, PunteroEnRango
  <2>5. EnLaPila(c, b) => Palabra(c.args[i])
    BY ONLY <2>2 DEF EnLaPila
  <2> QED
    BY ONLY <2>2, <2>4, <2>5
<1>3. CASE ~EsArgumento(x)
  <2>1. PICK S : S = {i \in DOMAIN c.vars : c.vars[i].etiqueta = x}
    OBVIOUS
  <2>2. p = IF S = {} THEN -1 ELSE Puntero(c.vars[LaUltima(S)].direccion)
    BY ONLY <1>3, <2>1, p = Posicion(c, x) DEF Posicion, Puntero
  <2>3. CASE S = {}
    <3>1. p = -1
      BY <2>2, <2>3
    <3>2. -1 \in Punteros
      <4>1. PICK z : z = (Paginas + 1) * tamanioPag
        OBVIOUS
      <4>2. z \in Nat
        BY <4>1, LasPaginas
      <4> QED
        BY ONLY <4>1, <4>2 DEF Punteros
    <3> QED
      BY ONLY <3>1, <3>2
  <2>4. CASE S # {}
    <3>1. PICK i : i = LaUltima(S)
      OBVIOUS
    <3>2. S \subseteq 1..Len(c.vars)
      BY <1>1, <2>1
    <3>3. i \in S
      BY <1>1, <2>4, <3>1, <3>2, LaUltimaEs
    <3>4. i \in DOMAIN c.vars /\ c.vars[i].direccion \in Direcciones /\ p = Puntero(c.vars[i].direccion)
      BY <1>1, <2>1, <2>2, <2>4, <3>1, <3>3 DEF Declaradas
    <3>5. p \in Punteros
      BY <3>4, PunteroEnRango
    <3>6. EnLaPila(c, b) => Palabra(c.vars[i].direccion)
      BY ONLY <3>4 DEF EnLaPila
    <3> QED
      BY ONLY <3>4, <3>5, <3>6
  <2> QED
    BY <2>3, <2>4
<1> QED
  BY <1>2, <1>3

\* The context in force.
LEMMA DeActual ==
  ASSUME NEW m, Buena(m)
  PROVE  /\ m.size \in Nat \ {0} /\ m.size \in DOMAIN m.lista /\ m.lista[m.size] \in DOMAIN m.ctx
         /\ Vivo(m) => Actual(m) \in Contexto
         /\ Vivo(m) /\ ~m.programaAbortado => EnLaPila(Actual(m), m.lista[m.size])
         /\ m.size # 1 => m.lista[m.size] # 1
<1>1. Entera(m) /\ m \in Maquinas
  BY DEF Buena, Entera
<1>2. m.size \in 1..MaxContextos /\ m.size <= Len(m.lista)
  BY <1>1 DEF Entera
<1>3. m.lista \in Seq(Nat) /\ m.ctx \in Seq(Contexto \cup {LIBRE})
  BY <1>1, DeMaquinas
<1>4. m.size \in Nat \ {0} /\ m.size \in DOMAIN m.lista
  BY <1>2, <1>3
<1>5. m.lista[m.size] \in DOMAIN m.ctx /\ (m.size # 1 => m.lista[m.size] # 1)
  BY <1>1, <1>4 DEF Entera
<1>6. Vivo(m) => Actual(m) \in Contexto
  BY ONLY <1>3, <1>5 DEF Vivo, Actual
<1>7. Vivo(m) /\ ~m.programaAbortado => EnLaPila(Actual(m), m.lista[m.size])
  BY ONLY <1>1, <1>5 DEF Entera, Vivo, Actual
<1> QED
  BY ONLY <1>4, <1>5, <1>6, <1>7

\* A name that was found, or the process is lost.
LEMMA ObtieneBien ==
  ASSUME NEW m, Buena(m), NEW X, NEW n, n = obtenerPosicionVariable(m, X)
  PROVE  /\ Buena(n) /\ n.pc = m.pc
         /\ ~n.caida => /\ Vivo(n) /\ \A x \in X : EsPuntero(n, Posicion(Actual(n), x))
                        /\ n.size = m.size /\ n.ctx = m.ctx /\ n.lista = m.lista
<1>1. CASE m.caida \/ ~Vivo(m) \/ \E x \in X : Posicion(Actual(m), x) = NULO
  <2>1. n = Cae(m)
    BY ONLY <1>1, n = obtenerPosicionVariable(m, X) DEF obtenerPosicionVariable
  <2> QED
    BY <2>1, CaeBien
<1>2. CASE ~(m.caida \/ ~Vivo(m) \/ \E x \in X : Posicion(Actual(m), x) = NULO)
  <2>1. ~m.caida /\ Vivo(m) /\ \A x \in X : Posicion(Actual(m), x) # NULO
    BY ONLY <1>2
  <2>2. PICK c : c = Actual(m)
    OBVIOUS
  <2>3. c \in Contexto /\ (~m.programaAbortado => EnLaPila(c, m.lista[m.size]))
    BY <2>1, <2>2, DeActual
  <2>4. \A x \in X : /\ Posicion(c, x) \in Punteros
                     /\ ~m.programaAbortado /\ Posicion(c, x) # -1 =>
                          \E d : Palabra(d) /\ Posicion(c, x) = Puntero(d)
    <3> SUFFICES ASSUME NEW x \in X
                 PROVE  /\ Posicion(c, x) \in Punteros
                        /\ ~m.programaAbortado /\ Posicion(c, x) # -1 =>
                             \E d : Palabra(d) /\ Posicion(c, x) = Puntero(d)
      OBVIOUS
    <3>1. Posicion(c, x) # NULO
      BY <2>1, <2>2
    <3>2. /\ Posicion(c, x) \in Punteros
          /\ EnLaPila(c, m.lista[m.size]) /\ Posicion(c, x) # -1 =>
                \E d : Palabra(d) /\ Posicion(c, x) = Puntero(d)
      BY <2>3, <3>1, PosicionBien
    <3> QED
      BY ONLY <2>3, <3>2
  <2>5. CASE \E x \in X : Posicion(c, x) = -1
    <3>1. n = [m EXCEPT !.programaAbortado = TRUE]
      BY ONLY <1>2, <2>2, <2>5, n = obtenerPosicionVariable(m, X) DEF obtenerPosicionVariable
    <3>2. /\ Buena(n) /\ n.programaAbortado /\ n.pc = m.pc /\ n.size = m.size
          /\ n.caida = m.caida /\ n.ctx = m.ctx /\ n.lista = m.lista
      BY <3>1, AbortaBien
    <3>3. Actual(n) = c /\ Vivo(n)
      BY ONLY <2>1, <2>2, <3>2 DEF Actual, Vivo
    <3> QED
      BY ONLY <2>4, <3>2, <3>3 DEF EsPuntero
  <2>6. CASE ~\E x \in X : Posicion(c, x) = -1
    <3>1. n = m
      BY ONLY <1>2, <2>2, <2>6, n = obtenerPosicionVariable(m, X) DEF obtenerPosicionVariable
    <3>2. \A x \in X : EsPuntero(m, Posicion(c, x))
      BY ONLY <2>4, <2>6 DEF EsPuntero
    <3> QED
      BY ONLY <2>1, <2>2, <3>1, <3>2, Buena(m)
  <2> QED
    BY <2>5, <2>6
<1> QED
  BY <1>1, <1>2

\* x = v.
LEMMA ConAsignaBien ==
  ASSUME NEW m, Buena(m), NEW v \in Valores, NEW x, NEW n, n = ConAsigna(m, x, v)
  PROVE  Buena(n) /\ n.pc = m.pc
<1>1. PICK k : k = obtenerPosicionVariable(m, {x})
  OBVIOUS
<1>2. Buena(k) /\ k.pc = m.pc /\ (~k.caida => EsPuntero(k, Posicion(Actual(k), x)))
  BY <1>1, ObtieneBien
<1>3. n = IF k.caida THEN k ELSE asignar(k, Posicion(Actual(k), x), v)
  BY ONLY <1>1, n = ConAsigna(m, x, v) DEF ConAsigna
<1>4. CASE ~k.caida
  <2>1. n = asignar(k, Posicion(Actual(k), x), v)
    BY ONLY <1>3, <1>4
  <2> QED
    BY <1>2, <1>4, <2>1, AsignaBien
<1> QED
  BY ONLY <1>2, <1>3, <1>4

\* x = y.
LEMMA ConCopiaBien ==
  ASSUME NEW m, Buena(m), NEW x, NEW y, NEW n, n = ConCopia(m, x, y)
  PROVE  Buena(n) /\ n.pc = m.pc
<1>1. PICK k : k = obtenerPosicionVariable(m, {y})
  OBVIOUS
<1>2. Buena(k) /\ k.pc = m.pc
  BY <1>1, ObtieneBien
<1>3. n = IF k.caida THEN k ELSE ConAsigna(k, x, Valor(k, y))
  BY ONLY <1>1, n = ConCopia(m, x, y) DEF ConCopia
<1>4. Valor(k, y) \in Valores
  BY <1>2, ValorBien DEF Valor, Buena, Entera
<1>5. CASE ~k.caida
  <2>1. n = ConAsigna(k, x, Valor(k, y))
    BY ONLY <1>3, <1>5
  <2> QED
    BY <1>2, <1>4, <2>1, ConAsignaBien
<1> QED
  BY ONLY <1>2, <1>3, <1>5

\* The addresses of a context, one by one.
LEMMA LasSuyas ==
  ASSUME NEW c \in Contexto, NEW s, s = SusDirecciones(c)
  PROVE  /\ s \in Seq(Direcciones) /\ Len(s) \in Nat /\ DOMAIN s = 1..Len(s)
         /\ c.vars = <<>> /\ c.args = <<>> => s = <<>>
         /\ c.vars # <<>> => /\ Len(c.vars) \in DOMAIN c.vars /\ Len(s) \in DOMAIN s
                             /\ s[Len(s)] = c.vars[Len(c.vars)].direccion
         /\ c.vars = <<>> /\ c.args # <<>> =>
              Len(c.args) \in DOMAIN c.args /\ Len(s) \in DOMAIN s /\ s[Len(s)] = c.args[Len(c.args)]
<1>1. PICK a, v, b : a = c.args /\ v = c.vars /\ b = [y \in DOMAIN v |-> v[y].direccion]
  OBVIOUS
<1>2. /\ a \in Seq(Direcciones) /\ v \in Seq(Declaradas) /\ DOMAIN v = 1..Len(v) /\ Len(v) \in Nat
      /\ Len(a) \in Nat /\ DOMAIN a = 1..Len(a) /\ \A i \in 1..Len(v) : v[i] \in Declaradas
  BY <1>1, DelContexto
<1>3. b \in Seq(Direcciones) /\ Len(b) = Len(v) /\ \A y \in 1..Len(v) : b[y] = v[y].direccion
  <2>1. \A y \in 1..Len(v) : v[y].direccion \in Direcciones
    BY <1>2 DEF Declaradas
  <2>2. b = [y \in 1..Len(v) |-> v[y].direccion]
    BY ONLY <1>1, <1>2
  <2>3. PICK n : n = Len(v)
    OBVIOUS
  <2> QED
    BY ONLY <1>2, <2>1, <2>2, <2>3
<1>4. s = a \o b
  BY ONLY <1>1, s = SusDirecciones(c) DEF SusDirecciones
<1>5. /\ s \in Seq(Direcciones) /\ Len(s) = Len(a) + Len(v)
      /\ \A x \in 1..Len(a) : s[x] = a[x]
      /\ \A x \in 1..Len(v) : s[Len(a) + x] = b[x]
  <2>1. /\ a \o b \in Seq(Direcciones) /\ Len(a \o b) = Len(a) + Len(b)
        /\ \A x \in 1..Len(a) : (a \o b)[x] = a[x]
        /\ \A x \in 1..Len(b) : (a \o b)[Len(a) + x] = b[x]
    <3>1. a \in Seq(Direcciones) /\ b \in Seq(Direcciones)
      BY ONLY <1>2, <1>3
    <3> QED
      BY ONLY <3>1, Pegadas
  <2> QED
    BY ONLY <1>3, <1>4, <2>1
<1>6. PICK la, lv : la = Len(a) /\ lv = Len(v)
  OBVIOUS
<1>7. /\ la \in Nat /\ lv \in Nat /\ Len(s) = la + lv /\ DOMAIN s = 1..(la + lv)
      /\ (v = <<>> <=> lv = 0) /\ (a = <<>> <=> la = 0)
  <2>1. /\ la \in Nat /\ lv \in Nat /\ Len(s) = la + lv /\ DOMAIN s = 1..(la + lv)
    BY ONLY <1>2, <1>5, <1>6
  <2>2. v = <<>> <=> lv = 0
    BY ONLY <1>2, <1>6
  <2>3. a = <<>> <=> la = 0
    BY ONLY <1>2, <1>6
  <2> QED
    BY ONLY <2>1, <2>2, <2>3
<1>8. ASSUME v = <<>>, a = <<>> PROVE s = <<>>
  BY ONLY <1>5, <1>7, <1>8
<1>9. ASSUME v # <<>>
      PROVE  lv \in DOMAIN v /\ Len(s) \in DOMAIN s /\ s[Len(s)] = v[lv].direccion
  <2>1. lv \in 1..lv /\ la + lv \in 1..(la + lv)
    BY ONLY <1>7, <1>9
  <2> QED
    BY ONLY <1>2, <1>3, <1>5, <1>6, <1>7, <2>1
<1>10. ASSUME v = <<>>, a # <<>>
       PROVE  la \in DOMAIN a /\ Len(s) \in DOMAIN s /\ s[Len(s)] = a[la]
  <2>1. la \in 1..la /\ la + lv = la
    BY ONLY <1>7, <1>10
  <2> QED
    BY ONLY <1>2, <1>5, <1>6, <1>7, <2>1
<1>11. s \in Seq(Direcciones) /\ Len(s) \in Nat /\ DOMAIN s = 1..Len(s)
  BY ONLY <1>5
<1>12. v = <<>> /\ a = <<>> => s = <<>>
  BY ONLY <1>8
<1>13. v # <<>> => Len(v) \in DOMAIN v /\ Len(s) \in DOMAIN s /\ s[Len(s)] = v[Len(v)].direccion
  BY ONLY <1>6, <1>9
<1>14. v = <<>> /\ a # <<>> => Len(a) \in DOMAIN a /\ Len(s) \in DOMAIN s /\ s[Len(s)] = a[Len(a)]
  BY ONLY <1>6, <1>10
<1> QED
  BY ONLY <1>1, <1>11, <1>12, <1>13, <1>14

\* No address of the stack is after u.
EsLaMayor(m, u) == \A i \in 1..m.size : \A y \in DOMAIN SusDirecciones(Contextos(m)[i]) :
                      Puntero(SusDirecciones(Contextos(m)[i])[y]) <= Puntero(u)

EsPosterior(m, d) == \A i \in 1..m.size : \A y \in DOMAIN SusDirecciones(Contextos(m)[i]) :
                       Puntero(SusDirecciones(Contextos(m)[i])[y]) < Puntero(d)

\* The contexts that count, while nothing was lost.
LEMMA DeContextos ==
  ASSUME NEW m, Buena(m), Sana(m)
  PROVE  /\ \A i \in 1..m.size : /\ Contextos(m)[i] = m.ctx[m.lista[i]]
                                 /\ Contextos(m)[i] \in Contexto
                                 /\ EnLaPila(Contextos(m)[i], m.lista[i])
         /\ Contextos(m)[m.size] = Actual(m)
<1>1. m.size \in Nat \ {0} /\ m.ctx \in Seq(Contexto \cup {LIBRE}) /\ ~m.programaAbortado /\ Entera(m)
      /\ m.lista \in Seq(Nat) /\ m.size <= Len(m.lista)
  BY DeActual, DeMaquinas DEF Buena, Entera, Sana
<1>2. ASSUME NEW i \in 1..m.size
      PROVE  /\ Contextos(m)[i] = m.ctx[m.lista[i]] /\ Contextos(m)[i] \in Contexto
             /\ EnLaPila(Contextos(m)[i], m.lista[i])
  <2>1. i \in DOMAIN m.lista /\ m.lista[i] \in DOMAIN m.ctx
    <3>1. i \in DOMAIN m.lista
      BY <1>1
    <3> QED
      BY <1>1, <3>1 DEF Entera
  <2>2. Contextos(m)[i] = m.ctx[m.lista[i]]
    BY DEF Contextos
  <2>3. Contextos(m)[i] # LIBRE
    BY DEF Buena, Apilada
  <2>4. m.ctx[m.lista[i]] \in Contexto
    BY ONLY <1>1, <2>1, <2>2, <2>3
  <2>5. EnLaPila(m.ctx[m.lista[i]], m.lista[i])
    BY ONLY <1>1, <2>1, <2>2, <2>3 DEF Entera
  <2> QED
    BY ONLY <2>2, <2>4, <2>5
<1>3. Contextos(m)[m.size] = Actual(m)
  BY <1>1 DEF Contextos, Actual
<1> QED
  BY ONLY <1>2, <1>3

\* The last address of the last context that has any is the greatest.
LEMMA UltimaMayor ==
  ASSUME NEW m, Buena(m), Sana(m), NEW k \in 1..m.size, NEW s, s = SusDirecciones(Contextos(m)[k]),
         s # <<>>, \A j \in 1..m.size : j > k => SusDirecciones(Contextos(m)[j]) = <<>>
  PROVE  EsLaMayor(m, s[Len(s)])
<1>1. m.size \in Nat
  BY DeActual
<1>2. /\ \A i \in 1..m.size : Crecen(SusDirecciones(Contextos(m)[i]))
      /\ \A i \in 1..m.size : \A j \in 1..m.size :
           i < j => Debajo(SusDirecciones(Contextos(m)[i]), SusDirecciones(Contextos(m)[j]))
  BY DEF Buena, Apilada
<1>3. \A i \in 1..m.size : SusDirecciones(Contextos(m)[i]) \in Seq(Direcciones)
  BY DeContextos, LasSuyas
<1>4. PICK n : n = Len(s)
  OBVIOUS
<1>5. s \in Seq(Direcciones) /\ n \in Nat /\ DOMAIN s = 1..n /\ n # 0
  BY <1>3, <1>4
<1>6. n \in DOMAIN s
  BY <1>5
<1>7. ASSUME NEW i \in 1..m.size, NEW y \in DOMAIN SusDirecciones(Contextos(m)[i])
      PROVE  Puntero(SusDirecciones(Contextos(m)[i])[y]) <= Puntero(s[n])
  <2>1. PICK r : r = SusDirecciones(Contextos(m)[i])
    OBVIOUS
  <2>2. r \in Seq(Direcciones) /\ r[y] \in Direcciones /\ s[n] \in Direcciones
    BY <1>3, <1>5, <1>6, <2>1
  <2>3. Puntero(r[y]) \in Int /\ Puntero(s[n]) \in Int
    <3>1. Puntero(r[y]) \in Punteros /\ Puntero(s[n]) \in Punteros
      BY <2>2, PunteroEnRango
    <3>2. PICK z : z = (Paginas + 1) * tamanioPag
      OBVIOUS
    <3>3. z \in Int
      BY <3>2, LasPaginas
    <3>4. Punteros = -1..(z - 1)
      BY ONLY <3>2 DEF Punteros
    <3> QED
      BY ONLY <3>1, <3>3, <3>4
  <2>4. CASE i < k
    <3>1. Debajo(r, s)
      BY ONLY <1>2, <2>1, <2>4, i \in 1..m.size, k \in 1..m.size, s = SusDirecciones(Contextos(m)[k])
    <3>2. Puntero(r[y]) < Puntero(s[n])
      BY ONLY <1>6, <2>1, <3>1, y \in DOMAIN SusDirecciones(Contextos(m)[i]) DEF Debajo
    <3> QED
      BY ONLY <2>1, <2>3, <3>2
  <2>5. CASE i = k
    <3>1. r = s /\ y \in 1..n
      BY ONLY <1>5, <2>1, <2>5, s = SusDirecciones(Contextos(m)[k]), y \in DOMAIN SusDirecciones(Contextos(m)[i])
    <3>2. CASE y = n
      BY ONLY <2>1, <2>3, <3>1, <3>2
    <3>3. CASE y # n
      <4>1. y < n
        BY ONLY <1>5, <3>1, <3>3
      <4>2. Crecen(s)
        BY ONLY <1>2, k \in 1..m.size, s = SusDirecciones(Contextos(m)[k])
      <4>3. Puntero(s[y]) < Puntero(s[n])
        BY ONLY <1>5, <1>6, <3>1, <4>1, <4>2 DEF Crecen
      <4> QED
        BY ONLY <2>1, <2>3, <3>1, <4>3
    <3> QED
      BY <3>2, <3>3
  <2>6. CASE i > k
    <3>1. r = <<>>
      BY <2>1, <2>6
    <3> QED
      BY <2>1, <3>1
  <2> QED
    BY <1>1, <2>4, <2>5, <2>6
<1> QED
  BY <1>4, <1>7 DEF EsLaMayor

\* What is declared: a letter, or the first arguments of a call.
Declara(m, x) == \/ ~EsArgumento(x) /\ x \in Letras
                 \/ EsArgumento(x) /\ m.size # 1 /\ (Sana(m) => Actual(m).vars = <<>>)

\* The address of a new variable is that of the word after one of the stack, after
\* all the others.
LEMMA NuevaTrasOtra ==
  ASSUME NEW m, Buena(m), ~m.programaAbortado, Vivo(m), NEW x, Declara(m, x),
         NEW d, d = NuevaDireccion(m, x), d # NULO, ~PrimeraDeTodas(m)
  PROVE  \E u : Palabra(u) /\ d = Proxima(u) /\ (Sana(m) => EsLaMayor(m, u))
<1>1. PICK c : c = Actual(m)
  OBVIOUS
<1>2. c \in Contexto /\ EnLaPila(c, m.lista[m.size]) /\ m.size \in Nat \ {0}
  BY <1>1, DeActual
<1>3. PICK V, A : V = Len(c.vars) /\ A = Len(c.args)
  OBVIOUS
<1>4. c.args \in Seq(Direcciones) /\ c.vars \in Seq(Declaradas)
  BY <1>2, DelContexto
<1>5. ASSUME NEW i \in DOMAIN c.vars, d = Proxima(c.vars[i].direccion),
             Sana(m) => c.vars # <<>> /\ i = V
      PROVE  \E u : Palabra(u) /\ d = Proxima(u) /\ (Sana(m) => EsLaMayor(m, u))
  <2>1. Palabra(c.vars[i].direccion)
    BY ONLY <1>2, i \in DOMAIN c.vars DEF EnLaPila
  <2>2. ASSUME Sana(m) PROVE EsLaMayor(m, c.vars[i].direccion)
    <3>1. PICK s : s = SusDirecciones(c)
      OBVIOUS
    <3>2. Len(s) \in DOMAIN s /\ s[Len(s)] = c.vars[V].direccion
      BY <1>2, <1>3, <1>5, <2>2, <3>1, LasSuyas
    <3>3. s = SusDirecciones(Contextos(m)[m.size])
      BY <1>1, <2>2, <3>1, DeContextos
    <3>4. \A j \in 1..m.size : ~(j > m.size)
      BY ONLY <1>2
    <3>5. s # <<>> /\ m.size \in 1..m.size
      BY ONLY <1>2, <3>2
    <3>6. EsLaMayor(m, s[Len(s)])
      BY <2>2, <3>3, <3>4, <3>5, UltimaMayor
    <3> QED
      BY ONLY <1>5, <2>2, <3>2, <3>6
  <2> QED
    BY ONLY <1>5, <2>1, <2>2
<1>6. ASSUME NEW i \in DOMAIN c.args, d = Proxima(c.args[i]),
             Sana(m) => c.vars = <<>> /\ c.args # <<>> /\ i = A
      PROVE  \E u : Palabra(u) /\ d = Proxima(u) /\ (Sana(m) => EsLaMayor(m, u))
  <2>1. Palabra(c.args[i])
    BY ONLY <1>2, i \in DOMAIN c.args DEF EnLaPila
  <2>2. ASSUME Sana(m) PROVE EsLaMayor(m, c.args[i])
    <3>1. PICK s : s = SusDirecciones(c)
      OBVIOUS
    <3>2. Len(s) \in DOMAIN s /\ s[Len(s)] = c.args[A]
      BY <1>2, <1>3, <1>6, <2>2, <3>1, LasSuyas
    <3>3. s = SusDirecciones(Contextos(m)[m.size])
      BY <1>1, <2>2, <3>1, DeContextos
    <3>4. \A j \in 1..m.size : ~(j > m.size)
      BY ONLY <1>2
    <3>5. s # <<>> /\ m.size \in 1..m.size
      BY ONLY <1>2, <3>2
    <3>6. EsLaMayor(m, s[Len(s)])
      BY <2>2, <3>3, <3>4, <3>5, UltimaMayor
    <3> QED
      BY ONLY <1>6, <2>2, <3>2, <3>6
  <2> QED
    BY ONLY <1>6, <2>1, <2>2
<1>7. ASSUME d = TrasElAnterior(m), Sana(m) => c.vars = <<>> /\ c.args = <<>>
      PROVE  \E u : Palabra(u) /\ d = Proxima(u) /\ (Sana(m) => EsLaMayor(m, u))
  <2>1. PICK k : k = m.size - 1
    OBVIOUS
  <2>2. PICK a : a = m.ctx[m.lista[k]]
    OBVIOUS
  <2>3. /\ m.size # 1 /\ a # LIBRE /\ Len(a.vars) \in DOMAIN a.vars
        /\ d = Proxima(a.vars[Len(a.vars)].direccion)
    BY ONLY <1>7, <2>1, <2>2, d # NULO DEF TrasElAnterior, proximaDireccion
  <2>4. k \in 1..m.size /\ k # 0
    BY ONLY <1>2, <2>1, <2>3
  <2>5. a \in Contexto /\ EnLaPila(a, m.lista[k])
    <3>1. Entera(m) /\ m.ctx \in Seq(Contexto \cup {LIBRE}) /\ m.lista \in Seq(Nat)
          /\ m.size <= Len(m.lista)
      BY DeMaquinas DEF Buena, Entera
    <3>2. k \in DOMAIN m.lista
      BY ONLY <1>2, <2>4, <3>1
    <3>3. m.lista[k] \in DOMAIN m.ctx
      BY ONLY <3>1, <3>2 DEF Entera
    <3>4. a \in Contexto
      BY ONLY <2>2, <2>3, <3>1, <3>3
    <3>5. EnLaPila(a, m.lista[k])
      BY ONLY <2>2, <2>3, <3>1, <3>3, ~m.programaAbortado DEF Entera
    <3> QED
      BY ONLY <3>4, <3>5
  <2>6. Palabra(a.vars[Len(a.vars)].direccion)
    BY ONLY <2>3, <2>5 DEF EnLaPila
  <2>7. ASSUME Sana(m) PROVE EsLaMayor(m, a.vars[Len(a.vars)].direccion)
    <3>1. PICK s : s = SusDirecciones(a)
      OBVIOUS
    <3>2. a.vars # <<>>
      <4>1. a.vars \in Seq(Declaradas)
        BY <2>5, DelContexto
      <4> QED
        BY ONLY <2>3, <4>1
    <3>3. Len(s) \in DOMAIN s /\ s[Len(s)] = a.vars[Len(a.vars)].direccion
      BY <2>5, <3>1, <3>2, LasSuyas
    <3>4. s = SusDirecciones(Contextos(m)[k])
      <4>1. Contextos(m)[k] = m.ctx[m.lista[k]]
        BY <2>4, <2>7, DeContextos
      <4> QED
        BY ONLY <2>2, <3>1, <4>1
    <3>5. ASSUME NEW j \in 1..m.size, j > k PROVE SusDirecciones(Contextos(m)[j]) = <<>>
      <4>1. j = m.size
        BY ONLY <1>2, <2>1, <3>5
      <4>2. Contextos(m)[j] = c
        BY <1>1, <2>7, <4>1, DeContextos
      <4>3. SusDirecciones(c) = <<>>
        BY <1>2, <1>7, <2>7, LasSuyas
      <4> QED
        BY ONLY <4>2, <4>3
    <3>6. s # <<>>
      BY ONLY <3>3
    <3>7. EsLaMayor(m, s[Len(s)])
      BY <2>4, <2>7, <3>4, <3>5, <3>6, UltimaMayor
    <3> QED
      BY ONLY <3>3, <3>7
  <2> QED
    BY ONLY <2>3, <2>6, <2>7
<1>8. CASE EsArgumento(x)
  <2>1. d = armarDireccionDeArgumento(m) /\ (Sana(m) => c.vars = <<>>)
    BY ONLY <1>1, <1>8, d = NuevaDireccion(m, x), ~PrimeraDeTodas(m), Declara(m, x)
    DEF NuevaDireccion, Declara
  <2>2. CASE c.args = <<>>
    <3>1. d = TrasElAnterior(m)
      BY ONLY <1>1, <2>1, <2>2 DEF armarDireccionDeArgumento
    <3> QED
      BY ONLY <1>7, <2>1, <2>2, <3>1
  <2>3. CASE c.args # <<>>
    <3>1. d = proximaDireccion(c.vars, A)
      BY ONLY <1>1, <1>3, <2>1, <2>3 DEF armarDireccionDeArgumento
    <3>2. A \in DOMAIN c.vars /\ d = Proxima(c.vars[A].direccion)
      BY ONLY <3>1, d # NULO DEF proximaDireccion
    <3>3. ~Sana(m)
      <4>1. c.vars # <<>>
        BY ONLY <3>2
      <4> QED
        BY ONLY <2>1, <4>1
    <3> QED
      BY ONLY <1>5, <3>2, <3>3
  <2> QED
    BY <2>2, <2>3
<1>9. CASE ~EsArgumento(x) /\ c.vars = <<>>
  <2>1. d = armarDirecccionDeFuncion(m)
    BY ONLY <1>1, <1>9, d = NuevaDireccion(m, x), ~PrimeraDeTodas(m) DEF NuevaDireccion
  <2>2. CASE c.args = <<>>
    <3>1. d = TrasElAnterior(m)
      BY ONLY <1>1, <2>1, <2>2 DEF armarDirecccionDeFuncion
    <3> QED
      BY ONLY <1>7, <1>9, <2>2, <3>1
  <2>3. CASE c.args # <<>>
    <3>1. d = proximaDireccionArg(c.args, A)
      BY ONLY <1>1, <1>3, <2>1, <2>3 DEF armarDirecccionDeFuncion
    <3>2. A \in DOMAIN c.args /\ d = Proxima(c.args[A])
      BY ONLY <3>1, d # NULO DEF proximaDireccionArg
    <3> QED
      BY ONLY <1>6, <1>9, <2>3, <3>2
  <2> QED
    BY <2>2, <2>3
<1>10. CASE ~EsArgumento(x) /\ c.vars # <<>>
  <2>1. d = proximaDireccion(c.vars, V)
    BY ONLY <1>1, <1>3, <1>10, d = NuevaDireccion(m, x), ~PrimeraDeTodas(m)
    DEF NuevaDireccion, armarProximaDireccion
  <2>2. V \in DOMAIN c.vars /\ d = Proxima(c.vars[V].direccion)
    BY ONLY <2>1, d # NULO DEF proximaDireccion
  <2> QED
    BY ONLY <1>5, <1>10, <2>2
<1> QED
  BY <1>8, <1>9, <1>10

\* The address of a new variable is after all the others, and in the stack if
\* there is room (the branches of definirVariable).
LEMMA NuevaBien ==
  ASSUME NEW m, Buena(m), ~m.programaAbortado, Vivo(m), NEW x, Declara(m, x),
         NEW d, d = NuevaDireccion(m, x), d # NULO
  PROVE  /\ d \in Direcciones /\ (~NoEntra(d) => Palabra(d))
         /\ Sana(m) => EsPosterior(m, d)
<1>1. CASE PrimeraDeTodas(m)
  <2>1. d = Direccion(PaginasDeCodigo, 0)
    BY ONLY <1>1, d = NuevaDireccion(m, x) DEF NuevaDireccion
  <2>2. ASSUME Sana(m) PROVE EsPosterior(m, d)
    <3>1. m.size = 1 /\ Actual(m).vars = <<>>
      BY ONLY <1>1 DEF PrimeraDeTodas
    <3>2. Actual(m).args = <<>> /\ Contextos(m)[m.size] = Actual(m) /\ Actual(m) \in Contexto
      <4>1. Contextos(m)[1].args = <<>>
        BY <2>2 DEF Buena, Apilada
      <4>2. Contextos(m)[m.size] = Actual(m) /\ Actual(m) \in Contexto
        BY <2>2, DeContextos, DeActual
      <4> QED
        BY ONLY <3>1, <4>1, <4>2
    <3>3. SusDirecciones(Actual(m)) = <<>>
      BY <3>1, <3>2, LasSuyas
    <3>4. \A i \in 1..m.size : SusDirecciones(Contextos(m)[i]) = <<>>
      BY ONLY <3>1, <3>2, <3>3
    <3> QED
      BY ONLY <3>4 DEF EsPosterior
  <2> QED
    BY <2>1, <2>2, LaPrimeraPalabra
<1>2. CASE ~PrimeraDeTodas(m)
  <2>1. PICK u : Palabra(u) /\ d = Proxima(u) /\ (Sana(m) => EsLaMayor(m, u))
    BY <1>2, NuevaTrasOtra
  <2>2. d \in Direcciones /\ Puntero(u) < Puntero(d) /\ (~NoEntra(d) => Palabra(d))
    BY <2>1, ProximaBien
  <2>3. ASSUME Sana(m) PROVE EsPosterior(m, d)
    <3>1. EsLaMayor(m, u)
      BY <2>1, <2>3
    <3>2. \A z : Palabra(z) => Puntero(z) \in Int
      <4> SUFFICES ASSUME NEW z, Palabra(z) PROVE Puntero(z) \in Int
        OBVIOUS
      <4>1. PICK T, p, o : T = tamanioPag /\ p = z.pagina /\ o = z.offset
        OBVIOUS
      <4>2. T \in Int /\ p \in Int /\ o \in Int
        BY <4>1, DePalabra, LasPaginas
      <4>3. Puntero(z) = p * T + o
        BY ONLY <4>1 DEF Puntero, convertirDireccionAPuntero
      <4> QED
        BY ONLY <4>2, <4>3
    <3>3. ASSUME NEW i \in 1..m.size, NEW y \in DOMAIN SusDirecciones(Contextos(m)[i])
          PROVE  Puntero(SusDirecciones(Contextos(m)[i])[y]) < Puntero(d)
      <4>1. PICK z : z = SusDirecciones(Contextos(m)[i])[y]
        OBVIOUS
      <4>2. Puntero(z) <= Puntero(u)
        BY ONLY <3>1, <4>1, i \in 1..m.size, y \in DOMAIN SusDirecciones(Contextos(m)[i]) DEF EsLaMayor
      <4>3. z \in Direcciones
        <5>1. SusDirecciones(Contextos(m)[i]) \in Seq(Direcciones)
          BY <2>3, DeContextos, LasSuyas
        <5> QED
          BY <4>1, <5>1
      <4>4. Puntero(z) \in Int /\ Puntero(u) \in Int /\ Puntero(d) \in Int
        <5>1. Puntero(z) \in Punteros /\ Puntero(d) \in Punteros
          BY <2>2, <4>3, PunteroEnRango
        <5>2. PICK w : w = (Paginas + 1) * tamanioPag
          OBVIOUS
        <5>3. w \in Int
          BY <5>2, LasPaginas
        <5>4. Punteros = -1..(w - 1)
          BY ONLY <5>2 DEF Punteros
        <5> QED
          BY ONLY <2>1, <3>2, <5>1, <5>3, <5>4
      <4> QED
        BY ONLY <2>2, <4>1, <4>2, <4>4
    <3> QED
      BY ONLY <3>3 DEF EsPosterior
  <2> QED
    BY <2>2, <2>3
<1> QED
  BY <1>1, <1>2

\* One more, after all the others.
LEMMA UnaMas ==
  ASSUME NEW s \in Seq(Direcciones), NEW d \in Direcciones, NEW r, r = Append(s, d),
         \A y \in DOMAIN s : Puntero(s[y]) < Puntero(d)
  PROVE  /\ Crecen(s) => Crecen(r)
         /\ \A q : Debajo(q, s) /\ (\A y \in DOMAIN q : Puntero(q[y]) < Puntero(d)) => Debajo(q, r)
<1>1. PICK n : n = Len(s)
  OBVIOUS
<1>2. /\ n \in Nat /\ DOMAIN s = 1..n /\ DOMAIN r = 1..(n + 1) /\ r[n + 1] = d
      /\ \A y \in 1..n : r[y] = s[y]
  BY <1>1
<1>3. ASSUME Crecen(s), NEW x \in DOMAIN r, NEW y \in DOMAIN r, x < y
      PROVE  Puntero(r[x]) < Puntero(r[y])
  <2>1. x \in 1..n
    BY ONLY <1>2, <1>3
  <2>2. CASE y = n + 1
    BY ONLY <1>2, <2>1, <2>2, \A z \in DOMAIN s : Puntero(s[z]) < Puntero(d)
  <2>3. CASE y # n + 1
    <3>1. y \in 1..n
      BY ONLY <1>2, <2>3, y \in DOMAIN r
    <3> QED
      BY ONLY <1>2, <1>3, <2>1, <3>1 DEF Crecen
  <2> QED
    BY <2>2, <2>3
<1>4. ASSUME NEW q, Debajo(q, s), \A z \in DOMAIN q : Puntero(q[z]) < Puntero(d)
      PROVE  Debajo(q, r)
  <2>1. ASSUME NEW x \in DOMAIN q, NEW y \in DOMAIN r PROVE Puntero(q[x]) < Puntero(r[y])
    <3>1. CASE y = n + 1
      BY ONLY <1>2, <1>4, <3>1, x \in DOMAIN q
    <3>2. CASE y # n + 1
      <4>1. y \in 1..n
        BY ONLY <1>2, <3>2, y \in DOMAIN r
      <4> QED
        BY ONLY <1>2, <1>4, <4>1, x \in DOMAIN q DEF Debajo
    <3> QED
      BY <3>1, <3>2
  <2> QED
    BY ONLY <2>1 DEF Debajo
<1> QED
  BY ONLY <1>3, <1>4 DEF Crecen

\* An argument more is one address more.
LEMMA MasUnArgumento ==
  ASSUME NEW c \in Contexto, c.vars = <<>>, NEW d \in Direcciones, NEW e,
         e = [c EXCEPT !.args = Append(@, d)]
  PROVE  SusDirecciones(e) = Append(SusDirecciones(c), d)
<1>1. PICK a, b, q : /\ a = c.args /\ b = [y \in DOMAIN c.vars |-> c.vars[y].direccion]
                     /\ q = Append(a, d)
  OBVIOUS
<1>2. a \in Seq(Direcciones) /\ q \in Seq(Direcciones)
  BY <1>1, DelContexto
<1>3. b = <<>>
  BY <1>1
<1>4. e.args = q /\ e.vars = c.vars
  BY ONLY <1>1, e = [c EXCEPT !.args = Append(@, d)], c \in Contexto DEF Contexto
<1>5. SusDirecciones(e) = q \o b /\ SusDirecciones(c) = a \o b
  BY ONLY <1>1, <1>4 DEF SusDirecciones
<1>6. q \o <<>> = q /\ a \o <<>> = a
  BY ONLY <1>2
<1> QED
  BY ONLY <1>1, <1>3, <1>5, <1>6

\* So is a variable more, whatever the arguments.
LEMMA MasUnaVariable ==
  ASSUME NEW c \in Contexto, NEW x \in Letras, NEW d \in Direcciones, NEW e,
         e = [c EXCEPT !.vars = Append(@, [etiqueta |-> x, direccion |-> d])]
  PROVE  SusDirecciones(e) = Append(SusDirecciones(c), d)
<1>1. PICK a, v, w, b, q :
        /\ a = c.args /\ v = c.vars /\ w = Append(v, [etiqueta |-> x, direccion |-> d])
        /\ b = [y \in DOMAIN v |-> v[y].direccion] /\ q = [y \in DOMAIN w |-> w[y].direccion]
  OBVIOUS
<1>2. /\ a \in Seq(Direcciones) /\ v \in Seq(Declaradas) /\ Len(v) \in Nat /\ DOMAIN v = 1..Len(v)
      /\ \A y \in 1..Len(v) : v[y] \in Declaradas
  BY <1>1, DelContexto
<1>3. PICK n : n = Len(v)
  OBVIOUS
<1>4. /\ n \in Nat /\ DOMAIN v = 1..n /\ DOMAIN w = 1..(n + 1)
      /\ w[n + 1] = [etiqueta |-> x, direccion |-> d]
      /\ \A y \in 1..n : w[y] = v[y]
  BY ONLY <1>1, <1>2, <1>3
<1>5. b \in Seq(Direcciones) /\ Len(b) = n
  <2>1. \A y \in 1..n : v[y].direccion \in Direcciones
    BY <1>2, <1>3 DEF Declaradas
  <2>2. b = [y \in 1..n |-> v[y].direccion]
    BY ONLY <1>1, <1>4
  <2> QED
    BY ONLY <1>4, <2>1, <2>2
<1>6. q = Append(b, d)
  <2>1. q = [y \in 1..(n + 1) |-> w[y].direccion]
    BY ONLY <1>1, <1>4
  <2>2. \A y \in 1..n : q[y] = b[y]
    BY ONLY <1>1, <1>4, <2>1
  <2>3. w[n + 1].direccion = d
    BY ONLY <1>4
  <2>4. q[n + 1] = d
    BY ONLY <1>4, <2>1, <2>3
  <2>5. PICK g : g = Append(b, d)
    OBVIOUS
  <2>6. g \in Seq(Direcciones) /\ Len(g) = n + 1 /\ g[n + 1] = d /\ \A y \in 1..n : g[y] = b[y]
    <3>1. PICK D : D = Direcciones
      OBVIOUS
    <3>2. b \in Seq(D) /\ Len(b) = n /\ d \in D /\ n \in Nat
      BY ONLY <1>4, <1>5, <3>1, d \in Direcciones
    <3>3. g \in Seq(D) /\ Len(g) = n + 1 /\ g[n + 1] = d
      BY ONLY <2>5, <3>2
    <3>4. \A y \in 1..n : g[y] = b[y]
      BY ONLY <2>5, <3>2
    <3> QED
      BY ONLY <3>1, <3>3, <3>4
  <2>7. \A y \in 1..(n + 1) : q[y] = g[y]
    <3> SUFFICES ASSUME NEW y \in 1..(n + 1) PROVE q[y] = g[y]
      OBVIOUS
    <3>1. y = n + 1 \/ y \in 1..n
      BY ONLY <1>4, y \in 1..(n + 1)
    <3> QED
      BY ONLY <2>2, <2>4, <2>6, <3>1
  <2>8. q = [y \in 1..(n + 1) |-> q[y]] /\ g = [y \in 1..(n + 1) |-> g[y]]
    <3>1. DOMAIN g = 1..(n + 1)
      BY ONLY <1>4, <2>6
    <3> QED
      BY ONLY <2>1, <2>6, <3>1
  <2>9. q = g
    BY ONLY <2>7, <2>8
  <2> QED
    BY ONLY <2>5, <2>9
<1>7. e.args = a /\ e.vars = w
  BY ONLY <1>1, e = [c EXCEPT !.vars = Append(@, [etiqueta |-> x, direccion |-> d])], c \in Contexto
  DEF Contexto
<1>8. SusDirecciones(e) = a \o q /\ SusDirecciones(c) = a \o b
  BY ONLY <1>1, <1>7 DEF SusDirecciones
<1>9. a \o Append(b, d) = Append(a \o b, d)
  <2>1. PICK l, r, k : l = a \o Append(b, d) /\ r = Append(a \o b, d) /\ k = Len(a)
    OBVIOUS
  <2>2. Append(b, d) \in Seq(Direcciones) /\ Len(Append(b, d)) = n + 1 /\ Append(b, d)[n + 1] = d
        /\ \A y \in 1..n : Append(b, d)[y] = b[y]
    BY ONLY <1>5, d \in Direcciones
  <2>3. /\ l \in Seq(Direcciones) /\ Len(l) = k + (n + 1)
        /\ \A y \in 1..k : l[y] = a[y]
        /\ \A y \in 1..(n + 1) : l[k + y] = Append(b, d)[y]
    <3>1. a \in Seq(Direcciones) /\ Append(b, d) \in Seq(Direcciones)
      BY ONLY <1>2, <2>2
    <3>2. /\ a \o Append(b, d) \in Seq(Direcciones) /\ Len(a \o Append(b, d)) = Len(a) + Len(Append(b, d))
          /\ \A y \in 1..Len(a) : (a \o Append(b, d))[y] = a[y]
          /\ \A y \in 1..Len(Append(b, d)) : (a \o Append(b, d))[Len(a) + y] = Append(b, d)[y]
      BY ONLY <3>1, Pegadas
    <3> QED
      BY ONLY <2>1, <2>2, <3>2
  <2>4. /\ a \o b \in Seq(Direcciones) /\ Len(a \o b) = k + n
        /\ \A y \in 1..k : (a \o b)[y] = a[y]
        /\ \A y \in 1..n : (a \o b)[k + y] = b[y]
    <3>1. a \in Seq(Direcciones) /\ b \in Seq(Direcciones)
      BY ONLY <1>2, <1>5
    <3>2. /\ a \o b \in Seq(Direcciones) /\ Len(a \o b) = Len(a) + Len(b)
          /\ \A y \in 1..Len(a) : (a \o b)[y] = a[y]
          /\ \A y \in 1..Len(b) : (a \o b)[Len(a) + y] = b[y]
      BY ONLY <3>1, Pegadas
    <3> QED
      BY ONLY <1>5, <2>1, <3>2
  <2>5. PICK ab : ab = a \o b
    OBVIOUS
  <2>6. /\ r \in Seq(Direcciones) /\ Len(r) = k + n + 1 /\ r[k + n + 1] = d
        /\ \A y \in 1..(k + n) : r[y] = ab[y]
    BY ONLY <2>1, <2>4, <2>5, d \in Direcciones
  <2>7. k \in Nat
    BY ONLY <1>2, <2>1
  <2>8. ASSUME NEW y \in 1..Len(l) PROVE l[y] = r[y]
    <3>1. y \in 1..(k + n + 1)
      BY ONLY <1>4, <2>3, <2>7, y \in 1..Len(l)
    <3>2. CASE y \in 1..k
      <4>1. y \in 1..(k + n)
        BY ONLY <1>4, <2>7, <3>2
      <4> QED
        BY ONLY <2>3, <2>4, <2>5, <2>6, <3>2, <4>1
    <3>3. CASE y = k + n + 1
      <4>1. y = k + (n + 1) /\ n + 1 \in 1..(n + 1)
        BY ONLY <1>4, <2>7, <3>3
      <4> QED
        BY ONLY <2>2, <2>3, <2>6, <3>3, <4>1
    <3>4. CASE y \notin 1..k /\ y # k + n + 1
      <4>1. PICK z : z = y - k
        OBVIOUS
      <4>2. z \in 1..n /\ z \in 1..(n + 1) /\ y = k + z /\ y \in 1..(k + n)
        BY ONLY <1>4, <2>7, <3>1, <3>4, <4>1
      <4> QED
        BY ONLY <2>2, <2>3, <2>4, <2>5, <2>6, <4>2
    <3> QED
      BY <3>2, <3>3, <3>4
  <2>9. Len(l) = Len(r)
    BY ONLY <1>4, <2>3, <2>6, <2>7
  <2>10. l = r
    BY ONLY <2>3, <2>6, <2>8, <2>9, Iguales
  <2> QED
    BY ONLY <2>1, <2>10
<1> QED
  BY ONLY <1>6, <1>8, <1>9

\* The context in force becomes e, and programaAbortado is ab.
ConActual(m, e, ab) ==
  [m EXCEPT !.ctx = [m.ctx EXCEPT ![m.lista[m.size]] = e], !.programaAbortado = ab]

\* e is the context in force of m with one variable more.
UnaVariableMas(m, e, ab) ==
  /\ e.retPos = Actual(m).retPos
  /\ ab = TRUE \/ EnLaPila(e, m.lista[m.size])
  /\ ab = FALSE /\ Sana(m) => \E d \in Direcciones :
       SusDirecciones(e) = Append(SusDirecciones(Actual(m)), d) /\ EsPosterior(m, d)
  /\ ab = FALSE /\ Sana(m) /\ m.size = 1 => e.args = Actual(m).args

\* The context in force changes, with one variable more.
LEMMA CambiaActual ==
  ASSUME NEW m, Buena(m), ~m.programaAbortado, Vivo(m), NEW e \in Contexto,
         NEW ab \in BOOLEAN, UnaVariableMas(m, e, ab), NEW n, n = ConActual(m, e, ab)
  PROVE  /\ Buena(n) /\ n.pc = m.pc /\ n.size = m.size /\ n.caida = m.caida
         /\ n.programaAbortado = ab /\ n.perdido = m.perdido /\ Actual(n) = e
<1>1. PICK k, b, g : k = m.size /\ b = m.lista[k] /\ g = [m.ctx EXCEPT ![b] = e]
  OBVIOUS
<1>2. /\ k \in Nat \ {0} /\ k \in DOMAIN m.lista /\ b \in DOMAIN m.ctx
      /\ m.ctx \in Seq(Contexto \cup {LIBRE}) /\ m.lista \in Seq(Nat) /\ (k # 1 => b # 1)
      /\ m \in Maquinas /\ Entera(m)
  BY <1>1, DeActual, DeMaquinas DEF Buena, Entera
<1>3. /\ g \in Seq(Contexto \cup {LIBRE}) /\ DOMAIN g = DOMAIN m.ctx /\ g[b] = e
      /\ \A x \in DOMAIN m.ctx : x # b => g[x] = m.ctx[x]
  <2>1. PICK C : C = Contexto \cup {LIBRE}
    OBVIOUS
  <2>2. m.ctx \in Seq(C) /\ e \in C
    BY ONLY <1>2, <2>1, e \in Contexto
  <2>3. g \in Seq(C)
    BY ONLY <1>1, <1>2, <2>2
  <2> QED
    BY ONLY <1>1, <1>2, <2>1, <2>3
<1>4. n = [m EXCEPT !.ctx = g, !.programaAbortado = ab]
  BY ONLY <1>1, n = ConActual(m, e, ab) DEF ConActual
<1>5. n \in Maquinas
  BY ONLY <1>2, <1>3, <1>4, ab \in BOOLEAN DEF Maquinas
<1>6. /\ n.pc = m.pc /\ n.size = k /\ n.caida = m.caida /\ n.programaAbortado = ab
      /\ n.perdido = m.perdido /\ n.ctx = g /\ n.lista = m.lista /\ n.fuera = m.fuera
      /\ n.indice = m.indice /\ n.etiquetas = m.etiquetas
  BY ONLY <1>1, <1>2, <1>4 DEF Maquinas
<1>7. Entera(n)
  <2>1. \A x \in DOMAIN m.ctx : m.ctx[x] # LIBRE /\ x # 1 => m.ctx[x].retPos + 1 \in Posiciones
    BY ONLY <1>2 DEF Entera
  <2>2. m.ctx[b] # LIBRE /\ e.retPos = m.ctx[b].retPos
    BY ONLY <1>1, Vivo(m), UnaVariableMas(m, e, ab) DEF Vivo, Actual, UnaVariableMas
  <2>3. \A x \in DOMAIN g : g[x] # LIBRE /\ x # 1 => g[x].retPos + 1 \in Posiciones
    BY ONLY <1>2, <1>3, <2>1, <2>2
  <2>4. ab = TRUE \/ \A x \in DOMAIN g : g[x] # LIBRE => EnLaPila(g[x], x)
    <3>1. ab = TRUE \/ EnLaPila(e, b)
      BY ONLY <1>1, UnaVariableMas(m, e, ab) DEF UnaVariableMas
    <3>2. \A x \in DOMAIN m.ctx : m.ctx[x] # LIBRE => EnLaPila(m.ctx[x], x)
      BY ONLY <1>2, ~m.programaAbortado DEF Entera
    <3> QED
      BY ONLY <1>3, <3>1, <3>2
  <2>5. n.fuera => n.programaAbortado \/ n.caida
    BY ONLY <1>2, <1>6, ~m.programaAbortado DEF Entera
  <2>6. /\ m.indice = FlattenSeq(Indice) /\ m.etiquetas = Etiquetas
        /\ m.size \in 1..MaxContextos /\ m.size <= Len(m.lista)
        /\ m.lista[1] = 1
        /\ \A x \in DOMAIN m.lista : m.lista[x] \in DOMAIN m.ctx /\ (x # 1 => m.lista[x] # 1)
    BY ONLY <1>2 DEF Entera
  <2> QED
    BY ONLY <1>1, <1>3, <1>5, <1>6, <2>3, <2>4, <2>5, <2>6 DEF Entera
<1>8. Actual(n) = e
  BY ONLY <1>1, <1>3, <1>6 DEF Actual
<1>9. ASSUME Sana(n)
      PROVE  /\ \A i \in 1..n.size : \A j \in 1..n.size : i # j => n.lista[i] # n.lista[j]
             /\ \A i \in 1..n.size : Contextos(n)[i] # LIBRE /\ Crecen(SusDirecciones(Contextos(n)[i]))
             /\ \A i \in 1..n.size : \A j \in 1..n.size :
                  i < j => Debajo(SusDirecciones(Contextos(n)[i]), SusDirecciones(Contextos(n)[j]))
             /\ Contextos(n)[1].args = <<>>
  <2>1. Sana(m) /\ ab = FALSE
    BY ONLY <1>6, <1>9, ~m.programaAbortado, ab \in BOOLEAN DEF Sana
  <2>2. PICK d \in Direcciones : SusDirecciones(e) = Append(SusDirecciones(Actual(m)), d) /\ EsPosterior(m, d)
    BY ONLY <2>1, UnaVariableMas(m, e, ab) DEF UnaVariableMas
  <2>3. /\ \A i \in 1..k : \A j \in 1..k : i # j => m.lista[i] # m.lista[j]
        /\ \A i \in 1..k : Contextos(m)[i] # LIBRE /\ Crecen(SusDirecciones(Contextos(m)[i]))
        /\ \A i \in 1..k : \A j \in 1..k :
             i < j => Debajo(SusDirecciones(Contextos(m)[i]), SusDirecciones(Contextos(m)[j]))
        /\ Contextos(m)[1].args = <<>>
    BY ONLY <1>1, <2>1, Buena(m) DEF Buena, Apilada
  <2>4. /\ \A i \in 1..k : /\ Contextos(m)[i] = m.ctx[m.lista[i]]
                           /\ Contextos(m)[i] \in Contexto
        /\ Contextos(m)[k] = Actual(m)
    BY <1>1, <2>1, DeContextos
  <2>5. k \in 1..k /\ 1 \in 1..k /\ \A i \in 1..k : i \in DOMAIN m.lista /\ m.lista[i] \in DOMAIN m.ctx
    <3>1. m.size <= Len(m.lista)
      BY ONLY <1>2 DEF Entera
    <3>2. \A i \in 1..k : i \in DOMAIN m.lista
      BY ONLY <1>1, <1>2, <3>1
    <3>3. \A i \in 1..k : m.lista[i] \in DOMAIN m.ctx
      BY ONLY <1>2, <3>2 DEF Entera
    <3> QED
      BY ONLY <1>2, <3>2, <3>3
  <2>6. Contextos(n)[k] = e
    BY ONLY <1>1, <1>3, <1>6, <2>5 DEF Contextos
  <2>7. ASSUME NEW i \in 1..k, i # k PROVE Contextos(n)[i] = Contextos(m)[i]
    <3>1. m.lista[i] # b
      BY ONLY <1>1, <2>3, <2>5, <2>7, i \in 1..k
    <3>2. Contextos(n)[i] = g[m.lista[i]]
      BY ONLY <1>6, i \in 1..k DEF Contextos
    <3> QED
      BY ONLY <1>3, <2>4, <2>5, <3>1, <3>2, i \in 1..k
  <2>8. PICK s : s = SusDirecciones(Actual(m))
    OBVIOUS
  <2>9. PICK r : r = SusDirecciones(e)
    OBVIOUS
  <2>10. s \in Seq(Direcciones) /\ s = SusDirecciones(Contextos(m)[k]) /\ r = Append(s, d)
    <3>1. Actual(m) \in Contexto
      BY ONLY <2>4, <2>5
    <3>2. s \in Seq(Direcciones)
      BY <2>8, <3>1, LasSuyas
    <3> QED
      BY ONLY <2>2, <2>4, <2>8, <2>9, <3>2
  <2>11. \A i \in 1..k : \A y \in DOMAIN SusDirecciones(Contextos(m)[i]) :
            Puntero(SusDirecciones(Contextos(m)[i])[y]) < Puntero(d)
    BY ONLY <1>1, <2>2 DEF EsPosterior
  <2>12. \A y \in DOMAIN s : Puntero(s[y]) < Puntero(d)
    BY ONLY <2>5, <2>10, <2>11
  <2>13. /\ Crecen(s) => Crecen(r)
         /\ \A q : Debajo(q, s) /\ (\A y \in DOMAIN q : Puntero(q[y]) < Puntero(d)) => Debajo(q, r)
    <3>1. s \in Seq(Direcciones) /\ r = Append(s, d)
      BY ONLY <2>10
    <3> QED
      BY ONLY <2>12, <3>1, UnaMas, d \in Direcciones
  <2>14. Crecen(r)
    BY ONLY <2>3, <2>5, <2>10, <2>13
  <2>15. \A i \in 1..k : Contextos(n)[i] # LIBRE /\ Crecen(SusDirecciones(Contextos(n)[i]))
    <3> SUFFICES ASSUME NEW i \in 1..k
                 PROVE  Contextos(n)[i] # LIBRE /\ Crecen(SusDirecciones(Contextos(n)[i]))
      OBVIOUS
    <3>1. CASE i = k
      <4>1. e # LIBRE
        BY LibreAssumption
      <4> QED
        BY ONLY <2>6, <2>9, <2>14, <3>1, <4>1
    <3>2. CASE i # k
      BY ONLY <2>3, <2>7, <3>2, i \in 1..k
    <3> QED
      BY <3>1, <3>2
  <2>16. \A i \in 1..k : \A j \in 1..k :
           i < j => Debajo(SusDirecciones(Contextos(n)[i]), SusDirecciones(Contextos(n)[j]))
    <3> SUFFICES ASSUME NEW i \in 1..k, NEW j \in 1..k, i < j
                 PROVE  Debajo(SusDirecciones(Contextos(n)[i]), SusDirecciones(Contextos(n)[j]))
      OBVIOUS
    <3>1. i # k /\ Contextos(n)[i] = Contextos(m)[i]
      <4>1. i # k
        BY ONLY <1>2, i \in 1..k, j \in 1..k, i < j
      <4> QED
        BY ONLY <2>7, <4>1, i \in 1..k
    <3>2. Debajo(SusDirecciones(Contextos(m)[i]), SusDirecciones(Contextos(m)[j]))
      BY ONLY <2>3, i \in 1..k, j \in 1..k, i < j
    <3>3. CASE j = k
      <4>1. PICK q : q = SusDirecciones(Contextos(m)[i])
        OBVIOUS
      <4>2. Debajo(q, s) /\ \A y \in DOMAIN q : Puntero(q[y]) < Puntero(d)
        BY ONLY <2>10, <2>11, <3>2, <3>3, <4>1, i \in 1..k
      <4>3. Debajo(q, r)
        BY ONLY <2>13, <4>2
      <4> QED
        BY ONLY <2>6, <2>9, <3>1, <3>3, <4>1, <4>3
    <3>4. CASE j # k
      BY ONLY <2>7, <3>1, <3>2, <3>4, j \in 1..k
    <3> QED
      BY <3>3, <3>4
  <2>17. Contextos(n)[1].args = <<>>
    <3>1. CASE k = 1
      <4>1. e.args = Actual(m).args
        BY ONLY <1>1, <2>1, <3>1, UnaVariableMas(m, e, ab) DEF UnaVariableMas
      <4> QED
        BY ONLY <2>3, <2>4, <2>6, <3>1, <4>1
    <3>2. CASE k # 1
      BY ONLY <2>3, <2>5, <2>7, <3>2
    <3> QED
      BY <3>1, <3>2
  <2>18. \A i \in 1..k : \A j \in 1..k : i # j => n.lista[i] # n.lista[j]
    BY ONLY <1>6, <2>3
  <2> QED
    BY ONLY <1>6, <2>15, <2>16, <2>17, <2>18
<1>10. Apilada(n)
  BY ONLY <1>9 DEF Apilada
<1> QED
  BY ONLY <1>1, <1>6, <1>7, <1>8, <1>10 DEF Buena

\* A context with one variable or argument more.
LEMMA Agranda ==
  ASSUME NEW c \in Contexto, NEW d \in Direcciones, NEW b
  PROVE  /\ \A e : e = [c EXCEPT !.args = Append(@, d)] =>
              /\ e \in Contexto /\ e.retPos = c.retPos /\ e.vars = c.vars
              /\ EnLaPila(c, b) /\ Palabra(d) => EnLaPila(e, b)
         /\ \A x \in Letras : \A e : e = [c EXCEPT !.vars = Append(@, [etiqueta |-> x, direccion |-> d])] =>
              /\ e \in Contexto /\ e.retPos = c.retPos /\ e.args = c.args
              /\ EnLaPila(c, b) /\ Palabra(d) => EnLaPila(e, b)
<1>1. PICK A, V : A = c.args /\ V = c.vars
  OBVIOUS
<1>2. A \in Seq(Direcciones) /\ V \in Seq(Declaradas) /\ Len(A) \in Nat /\ Len(V) \in Nat
  BY <1>1, DelContexto
<1>3. ASSUME NEW e, e = [c EXCEPT !.args = Append(@, d)]
      PROVE  /\ e \in Contexto /\ e.retPos = c.retPos /\ e.vars = c.vars
             /\ EnLaPila(c, b) /\ Palabra(d) => EnLaPila(e, b)
  <2>1. PICK B : B = Append(A, d)
    OBVIOUS
  <2>2. B \in Seq(Direcciones)
    BY ONLY <1>2, <2>1, d \in Direcciones
  <2>3. e = [c EXCEPT !.args = B]
    BY ONLY <1>1, <1>3, <2>1
  <2>4. e \in Contexto
    BY ONLY <2>2, <2>3, c \in Contexto DEF Contexto
  <2>5. e.retPos = c.retPos /\ e.vars = c.vars /\ e.retVar = c.retVar /\ e.args = B
    BY ONLY <2>3, c \in Contexto DEF Contexto
  <2>6. ASSUME EnLaPila(c, b), Palabra(d) PROVE EnLaPila(e, b)
    <3>1. ASSUME NEW y \in DOMAIN B PROVE Palabra(B[y])
      <4>1. CASE y \in DOMAIN A
        <5>1. B[y] = A[y]
          BY ONLY <1>2, <2>1, <4>1, d \in Direcciones
        <5> QED
          BY ONLY <1>1, <2>6, <4>1, <5>1 DEF EnLaPila
      <4>2. CASE y \notin DOMAIN A
        <5>1. B[y] = d
          BY ONLY <1>2, <2>1, <4>2, d \in Direcciones, y \in DOMAIN B
        <5> QED
          BY ONLY <2>6, <5>1
      <4> QED
        BY <4>1, <4>2
    <3> QED
      BY ONLY <2>5, <2>6, <3>1 DEF EnLaPila
  <2> QED
    BY ONLY <2>4, <2>5, <2>6
<1>4. ASSUME NEW x \in Letras, NEW e,
             e = [c EXCEPT !.vars = Append(@, [etiqueta |-> x, direccion |-> d])]
      PROVE  /\ e \in Contexto /\ e.retPos = c.retPos /\ e.args = c.args
             /\ EnLaPila(c, b) /\ Palabra(d) => EnLaPila(e, b)
  <2>1. PICK w, B : w = [etiqueta |-> x, direccion |-> d] /\ B = Append(V, w)
    OBVIOUS
  <2>2. w \in Declaradas /\ w.direccion = d
    BY ONLY <2>1, d \in Direcciones, x \in Letras DEF Declaradas
  <2>3. B \in Seq(Declaradas)
    BY ONLY <1>2, <2>1, <2>2
  <2>4. e = [c EXCEPT !.vars = B]
    BY ONLY <1>1, <1>4, <2>1
  <2>5. e \in Contexto
    BY ONLY <2>3, <2>4, c \in Contexto DEF Contexto, Declaradas
  <2>6. e.retPos = c.retPos /\ e.args = c.args /\ e.retVar = c.retVar /\ e.vars = B
    BY ONLY <2>4, c \in Contexto DEF Contexto
  <2>7. ASSUME EnLaPila(c, b), Palabra(d) PROVE EnLaPila(e, b)
    <3>1. ASSUME NEW y \in DOMAIN B PROVE Palabra(B[y].direccion)
      <4>1. CASE y \in DOMAIN V
        <5>1. B[y] = V[y]
          BY ONLY <1>2, <2>1, <2>2, <4>1
        <5> QED
          BY ONLY <1>1, <2>7, <4>1, <5>1 DEF EnLaPila
      <4>2. CASE y \notin DOMAIN V
        <5>1. B[y] = w
          BY ONLY <1>2, <2>1, <2>2, <4>2, y \in DOMAIN B
        <5> QED
          BY ONLY <2>2, <2>7, <5>1
      <4> QED
        BY <4>1, <4>2
    <3> QED
      BY ONLY <2>6, <2>7, <3>1 DEF EnLaPila
  <2> QED
    BY ONLY <2>5, <2>6, <2>7
<1> QED
  BY ONLY <1>3, <1>4

\* The machine with the variable, and whether that aborted it.
Definida(m, x, d, ab) == [ConVariable(m, x, d) EXCEPT !.programaAbortado = ab]

\* The machine may go on with x at d, and aborts if d is not in the stack.
SeDefine(m, x, d, ab) ==
  /\ ~m.programaAbortado /\ Vivo(m) /\ Declara(m, x)
  /\ Sana(m) => EsPosterior(m, d)
  /\ ab = TRUE \/ Palabra(d)

\* The variable is counted, with or without room for it.
LEMMA ConVariableBien ==
  ASSUME NEW m, Buena(m), NEW x, NEW d \in Direcciones, NEW ab \in BOOLEAN,
         SeDefine(m, x, d, ab), NEW n, n = Definida(m, x, d, ab)
  PROVE  /\ Buena(n) /\ n.pc = m.pc /\ n.size = m.size /\ n.caida = m.caida
         /\ n.programaAbortado = ab /\ n.perdido = m.perdido
         /\ EsArgumento(x) => Actual(n).vars = Actual(m).vars
<1>0. /\ ~m.programaAbortado /\ Vivo(m) /\ Declara(m, x) /\ (Sana(m) => EsPosterior(m, d))
      /\ ab = TRUE \/ Palabra(d)
  BY ONLY SeDefine(m, x, d, ab) DEF SeDefine
<1>1. PICK b, c : b = m.lista[m.size] /\ c = Actual(m)
  OBVIOUS
<1>2. c \in Contexto /\ c = m.ctx[b] /\ EnLaPila(c, b) /\ b \in DOMAIN m.ctx /\ m \in Maquinas
  <2>1. c \in Contexto /\ EnLaPila(c, b) /\ b \in DOMAIN m.ctx /\ m \in Maquinas
    BY <1>0, <1>1, DeActual DEF Buena, Entera
  <2> QED
    BY ONLY <1>1, <2>1 DEF Actual
<1>3. ASSUME NEW e \in Contexto, ConVariable(m, x, d) = [m EXCEPT !.ctx = [m.ctx EXCEPT ![b] = e]]
      PROVE  n = ConActual(m, e, ab)
  <2>1. PICK g : g = [m.ctx EXCEPT ![b] = e]
    OBVIOUS
  <2>2. n = [[m EXCEPT !.ctx = g] EXCEPT !.programaAbortado = ab]
    BY ONLY <1>3, <2>1, n = Definida(m, x, d, ab) DEF Definida
  <2>3. n = [m EXCEPT !.ctx = g, !.programaAbortado = ab]
    BY ONLY <2>2
  <2> QED
    BY ONLY <1>1, <2>1, <2>3 DEF ConActual
<1>4. CASE EsArgumento(x)
  <2>1. m.size # 1 /\ (Sana(m) => c.vars = <<>>)
    BY ONLY <1>0, <1>1, <1>4 DEF Declara
  <2>2. PICK e : e = [c EXCEPT !.args = Append(@, d)]
    OBVIOUS
  <2>3. ConVariable(m, x, d) = [m EXCEPT !.ctx = [m.ctx EXCEPT ![b] = e]]
    <3>1. ~PrimeraDeTodas(m)
      BY ONLY <2>1 DEF PrimeraDeTodas
    <3>2. ConVariable(m, x, d) = [m EXCEPT !.ctx[b].args = Append(@, d)]
      BY ONLY <1>1, <1>4, <3>1 DEF ConVariable
    <3> QED
      BY ONLY <1>2, <2>2, <3>2
  <2>4. /\ e \in Contexto /\ e.retPos = c.retPos /\ e.vars = c.vars
        /\ Palabra(d) => EnLaPila(e, b)
    BY <1>2, <2>2, Agranda
  <2>5. n = ConActual(m, e, ab)
    BY <1>3, <2>3, <2>4
  <2>6. ab = FALSE /\ Sana(m) => \E z \in Direcciones :
              SusDirecciones(e) = Append(SusDirecciones(Actual(m)), z) /\ EsPosterior(m, z)
    <3>1. Sana(m) => SusDirecciones(e) = Append(SusDirecciones(c), d)
      BY <1>0, <1>2, <2>1, <2>2, MasUnArgumento
    <3> QED
      BY ONLY <1>1, <3>1, <1>0, d \in Direcciones
  <2>7. ab = TRUE \/ EnLaPila(e, b)
    BY <1>0, <2>4
  <2>8. /\ Buena(n) /\ n.pc = m.pc /\ n.size = m.size /\ n.caida = m.caida
        /\ n.programaAbortado = ab /\ n.perdido = m.perdido /\ Actual(n) = e
    <3>1. ab = FALSE /\ Sana(m) /\ m.size = 1 => e.args = Actual(m).args
      BY ONLY <2>1
    <3>2. e.retPos = Actual(m).retPos /\ (ab = TRUE \/ EnLaPila(e, m.lista[m.size]))
      BY ONLY <1>1, <2>4, <2>7
    <3>3. UnaVariableMas(m, e, ab)
      BY ONLY <2>6, <3>1, <3>2 DEF UnaVariableMas
    <3>4. e \in Contexto
      BY ONLY <2>4
    <3> QED
      BY ONLY <2>5, <3>3, <3>4, CambiaActual, <1>0, Buena(m), ab \in BOOLEAN
  <2> QED
    BY ONLY <1>1, <2>4, <2>8
<1>5. CASE ~EsArgumento(x)
  <2>1. x \in Letras
    BY ONLY <1>0, <1>5 DEF Declara
  <2>2. PICK e : e = [c EXCEPT !.vars = Append(@, [etiqueta |-> x, direccion |-> d])]
    OBVIOUS
  <2>3. ConVariable(m, x, d) = [m EXCEPT !.ctx = [m.ctx EXCEPT ![b] = e]]
    <3>2. ConVariable(m, x, d) = [m EXCEPT !.ctx[b].vars = Append(@, [etiqueta |-> x, direccion |-> d])]
      BY ONLY <1>1, <1>5 DEF ConVariable
    <3> QED
      BY ONLY <1>2, <2>2, <3>2
  <2>4. /\ e \in Contexto /\ e.retPos = c.retPos /\ e.args = c.args
        /\ Palabra(d) => EnLaPila(e, b)
    BY ONLY d \in Direcciones, <1>2, <2>1, <2>2, Agranda, SMTT(40)
  <2>5. n = ConActual(m, e, ab)
    BY <1>3, <2>3, <2>4
  <2>6. ab = FALSE /\ Sana(m) => \E z \in Direcciones :
              SusDirecciones(e) = Append(SusDirecciones(Actual(m)), z) /\ EsPosterior(m, z)
    <3>1. SusDirecciones(e) = Append(SusDirecciones(c), d)
      BY <1>0, <1>2, <2>1, <2>2, MasUnaVariable
    <3> QED
      BY ONLY <1>1, <3>1, <1>0, d \in Direcciones
  <2>7. ab = TRUE \/ EnLaPila(e, b)
    BY <1>0, <2>4
  <2>8. /\ Buena(n) /\ n.pc = m.pc /\ n.size = m.size /\ n.caida = m.caida
        /\ n.programaAbortado = ab /\ n.perdido = m.perdido /\ Actual(n) = e
    <3>1. ab = FALSE /\ Sana(m) /\ m.size = 1 => e.args = Actual(m).args
      BY ONLY <1>1, <2>4
    <3>2. e.retPos = Actual(m).retPos /\ (ab = TRUE \/ EnLaPila(e, m.lista[m.size]))
      BY ONLY <1>1, <2>4, <2>7
    <3>3. UnaVariableMas(m, e, ab)
      BY ONLY <2>6, <3>1, <3>2 DEF UnaVariableMas
    <3>4. e \in Contexto
      BY ONLY <2>4
    <3> QED
      BY ONLY <2>5, <3>3, <3>4, CambiaActual, <1>0, Buena(m), ab \in BOOLEAN
  <2> QED
    BY ONLY <1>5, <2>8
<1> QED
  BY <1>4, <1>5

\* variables x; and the pointer that the primitive returns.
LEMMA DefineBien ==
  ASSUME NEW m, Buena(m), NEW x, Declara(m, x), NEW n, n = definirVariable(m, x)
  PROVE  /\ Buena(n) /\ n.pc = m.pc
         /\ ~n.caida => /\ n.size = m.size /\ EsPuntero(n, PunteroDefinido(m, x))
                        /\ Sana(n) => /\ Sana(m)
                                      /\ EsArgumento(x) => Actual(n).vars = Actual(m).vars
<1>1. PICK d : d = NuevaDireccion(m, x)
  OBVIOUS
<1>2. 1 \in Punteros
  <2>1. PICK N, T : N = Paginas /\ T = tamanioPag
    OBVIOUS
  <2>2. N \in Nat \ {0} /\ T \in Nat \ {0} /\ T % 4 = 0
    BY <2>1, LasPaginas, PaginaAssumption
  <2>3. N * T \in Nat /\ (N + 1) * T = N * T + T /\ 1 <= N
    BY ONLY <2>2, Producto
  <2>4. 1 * T <= N * T /\ 1 * T = T
    BY ONLY <2>2, <2>3, Producto
  <2>5. T >= 2
    BY ONLY <2>2
  <2>6. 1 \in -1..((N + 1) * T - 1)
    BY ONLY <2>2, <2>3, <2>4, <2>5
  <2> QED
    BY ONLY <2>1, <2>6 DEF Punteros
<1>3. CASE m.caida \/ m.programaAbortado
  <2>1. n = m
    BY ONLY <1>3, n = definirVariable(m, x) DEF definirVariable
  <2>2. ~m.caida => PunteroDefinido(m, x) = 1
    BY ONLY <1>3 DEF PunteroDefinido
  <2> QED
    BY ONLY <1>2, <1>3, <2>1, <2>2, Buena(m) DEF EsPuntero, Sana
<1>4. CASE ~(m.caida \/ m.programaAbortado) /\ (~Vivo(m) \/ d = NULO)
  <2>1. n = Cae(m)
    BY ONLY <1>1, <1>4, n = definirVariable(m, x) DEF definirVariable
  <2> QED
    BY <2>1, CaeBien
<1>5. CASE ~(m.caida \/ m.programaAbortado) /\ ~(~Vivo(m) \/ d = NULO)
  <2>1. ~m.programaAbortado /\ ~m.caida /\ Vivo(m) /\ d # NULO
    BY ONLY <1>5
  <2>2. d \in Direcciones /\ (~NoEntra(d) => Palabra(d)) /\ (Sana(m) => EsPosterior(m, d))
    BY <1>1, <2>1, NuevaBien
  <2>3. n = IF NoEntra(d) THEN [ConVariable(m, x, d) EXCEPT !.programaAbortado = TRUE]
            ELSE Escribe(ConVariable(m, x, d), d, BASURA)
    BY ONLY <1>1, <1>5, n = definirVariable(m, x) DEF definirVariable
  <2>4. PunteroDefinido(m, x) = IF NoEntra(d) THEN 1 ELSE Puntero(d)
    BY ONLY <1>1, <2>1 DEF PunteroDefinido, Puntero
  <2>5. CASE NoEntra(d)
    <3>1. n = Definida(m, x, d, TRUE)
      BY ONLY <2>3, <2>5 DEF Definida
    <3>2. TRUE = TRUE \/ Palabra(d)
      OBVIOUS
    <3>3. Buena(n) /\ n.pc = m.pc /\ n.size = m.size /\ n.programaAbortado = TRUE
      <4>1. d \in Direcciones /\ (Sana(m) => EsPosterior(m, d))
        BY ONLY <2>2
      <4>2. PICK ab \in BOOLEAN : ab = TRUE
        OBVIOUS
      <4>3. n = Definida(m, x, d, ab) /\ SeDefine(m, x, d, ab)
        BY ONLY <2>1, <3>1, <3>2, <4>1, <4>2, Declara(m, x) DEF SeDefine
      <4>4. Buena(n) /\ n.pc = m.pc /\ n.size = m.size /\ n.caida = m.caida /\ n.programaAbortado = ab
            /\ n.perdido = m.perdido /\ (EsArgumento(x) => Actual(n).vars = Actual(m).vars)
        BY ONLY <4>1, <4>3, ConVariableBien, Buena(m), ab \in BOOLEAN
      <4> QED
        BY ONLY <4>2, <4>4
    <3>4. EsPuntero(n, PunteroDefinido(m, x)) /\ ~Sana(n)
      BY ONLY <1>2, <2>4, <2>5, <3>3 DEF EsPuntero, Sana
    <3> QED
      BY ONLY <3>3, <3>4
  <2>6. CASE ~NoEntra(d)
    <3>1. PICK k : k = ConVariable(m, x, d)
      OBVIOUS
    <3>2. k = Definida(m, x, d, FALSE)
      <4>1. PICK g : k = [m EXCEPT !.ctx = g]
        BY ONLY <3>1 DEF ConVariable
      <4>2. m \in Maquinas /\ m.programaAbortado = FALSE
        BY <2>1, DeMaquinas DEF Buena, Entera
      <4>3. k = [k EXCEPT !.programaAbortado = FALSE]
        BY ONLY <4>1, <4>2 DEF Maquinas
      <4> QED
        BY ONLY <3>1, <4>3 DEF Definida
    <3>3. Palabra(d) /\ (FALSE = TRUE \/ Palabra(d))
      BY <2>2, <2>6
    <3>4. /\ Buena(k) /\ k.pc = m.pc /\ k.size = m.size /\ k.caida = m.caida
          /\ k.programaAbortado = FALSE /\ k.perdido = m.perdido
          /\ EsArgumento(x) => Actual(k).vars = Actual(m).vars
      <4>1. d \in Direcciones /\ (Sana(m) => EsPosterior(m, d))
        BY ONLY <2>2
      <4>2. PICK ab \in BOOLEAN : ab = FALSE
        OBVIOUS
      <4>3. k = Definida(m, x, d, ab) /\ SeDefine(m, x, d, ab)
        BY ONLY <2>1, <3>2, <3>3, <4>1, <4>2, Declara(m, x) DEF SeDefine
      <4>4. Buena(k) /\ k.pc = m.pc /\ k.size = m.size /\ k.caida = m.caida /\ k.programaAbortado = ab
            /\ k.perdido = m.perdido /\ (EsArgumento(x) => Actual(k).vars = Actual(m).vars)
        BY ONLY <4>1, <4>3, ConVariableBien, Buena(m), ab \in BOOLEAN
      <4> QED
        BY ONLY <4>2, <4>4
    <3>5. n = Escribe(k, d, BASURA) /\ BASURA \in Valores
      BY ONLY <2>3, <2>6, <3>1 DEF Valores
    <3>6. /\ Buena(n) /\ MismaPila(n, k) /\ n.pc = k.pc /\ n.caida = k.caida
          /\ n.programaAbortado = k.programaAbortado
      BY <3>3, <3>4, <3>5, EscribeBien
    <3>7. EsPuntero(n, PunteroDefinido(m, x))
      <4>1. Puntero(d) \in Punteros
        BY <2>2, PunteroEnRango
      <4> QED
        BY ONLY <2>4, <2>6, <3>3, <4>1 DEF EsPuntero
    <3>8. Actual(n) = Actual(k) /\ n.size = k.size /\ n.perdido = k.perdido
      BY ONLY <3>6 DEF MismaPila, Actual
    <3> QED
      BY ONLY <2>1, <3>4, <3>6, <3>7, <3>8 DEF Sana
  <2> QED
    BY <2>5, <2>6
<1> QED
  BY <1>3, <1>4, <1>5

\* An argument is defined and gets its value.
LEMMA ConArgumentoBien ==
  ASSUME NEW m, Buena(m), m.size # 1, Sana(m) => Actual(m).vars = <<>>,
         NEW k \in 1..2, NEW v \in Valores, NEW n, n = ConArgumento(m, k, v)
  PROVE  /\ Buena(n) /\ n.pc = m.pc
         /\ ~n.caida => n.size # 1 /\ (Sana(n) => Actual(n).vars = <<>>)
<1>1. PICK x : x = CHOOSE z \in DOMAIN Digito : Digito[z] = k
  OBVIOUS
<1>2. EsArgumento(x)
  <2>1. DOMAIN Digito = {"0", "1"} /\ Digito["0"] = 1 /\ Digito["1"] = 2
    BY DEF Digito
  <2>2. \E z \in DOMAIN Digito : Digito[z] = k
    BY <2>1
  <2> QED
    BY ONLY <1>1, <2>2 DEF EsArgumento
<1>3. Declara(m, x)
  BY <1>2 DEF Declara
<1>4. PICK h : h = definirVariable(m, x)
  OBVIOUS
<1>5. /\ Buena(h) /\ h.pc = m.pc
      /\ ~h.caida => /\ h.size = m.size /\ EsPuntero(h, PunteroDefinido(m, x))
                     /\ Sana(h) => Sana(m) /\ Actual(h).vars = Actual(m).vars
  BY <1>2, <1>3, <1>4, DefineBien
<1>6. n = IF h.caida THEN h ELSE asignar(h, PunteroDefinido(m, x), v)
  BY ONLY <1>1, <1>4, n = ConArgumento(m, k, v) DEF ConArgumento
<1>7. CASE h.caida
  BY ONLY <1>5, <1>6, <1>7
<1>8. CASE ~h.caida
  <2>1. n = asignar(h, PunteroDefinido(m, x), v)
    BY ONLY <1>6, <1>8
  <2>2. /\ Buena(n) /\ MismaPila(n, h) /\ n.pc = h.pc /\ n.caida = h.caida
        /\ n.programaAbortado = h.programaAbortado
    BY <1>5, <1>8, <2>1, AsignaBien
  <2>3. Actual(n) = Actual(h) /\ n.size = h.size /\ n.perdido = h.perdido
    BY ONLY <2>2 DEF MismaPila, Actual
  <2> QED
    BY ONLY <1>5, <1>8, <2>2, <2>3, m.size # 1, Sana(m) => Actual(m).vars = <<>> DEF Sana
<1> QED
  BY <1>7, <1>8

\* Block b, which was free or is new, is that of context c, and the others are as
\* they were.
BloqueNuevo(m, c, b, g) ==
  /\ g \in Seq(Contexto \cup {LIBRE}) /\ DOMAIN g = DOMAIN m.ctx \cup {b} /\ b \in Nat /\ b # 1
  /\ g[b] = c
  /\ b \in DOMAIN m.ctx => m.ctx[b] = LIBRE
  /\ \A x \in DOMAIN m.ctx : x # b => g[x] = m.ctx[x]

\* The context of a call: empty, with a place to return to.
ContextoNuevo(m, c) ==
  /\ c \in Contexto /\ c.args = <<>> /\ c.vars = <<>> /\ c.retPos + 1 \in Posiciones
  /\ m.programaAbortado \/ Palabra(c.retVar)

\* A context goes on top of the stack; perdido is q.
Apila(m, b, g, q, x) ==
  [m EXCEPT !.lista = Append(m.lista, b), !.size = m.size + 1, !.ctx = g, !.perdido = q, !.pc = x]

\* perdido goes up when the entry in force is not the new one.
SePierde(m, b, q) ==
  /\ q \in BOOLEAN
  /\ q = FALSE => m.perdido = FALSE /\ Append(m.lista, b)[m.size + 1] = b

\* The stack with a new context on top is as good.
LEMMA ApilaBien ==
  ASSUME NEW m, Buena(m), m.size < MaxContextos, NEW c, ContextoNuevo(m, c),
         NEW b, NEW g, BloqueNuevo(m, c, b, g), NEW q, SePierde(m, b, q),
         NEW x \in Int, NEW n, n = Apila(m, b, g, q, x)
  PROVE  /\ Buena(n) /\ n.pc = x /\ n.size # 1 /\ n.caida = m.caida
         /\ n.programaAbortado = m.programaAbortado
         /\ Sana(n) => Actual(n).vars = <<>>
<1>0. q \in BOOLEAN /\ (q = FALSE => m.perdido = FALSE /\ Append(m.lista, b)[m.size + 1] = b)
  BY ONLY SePierde(m, b, q) DEF SePierde
<1>1. PICK k, L : k = m.size /\ L = Append(m.lista, b)
  OBVIOUS
<1>2. /\ k \in Nat \ {0} /\ k \in DOMAIN m.lista /\ m.lista \in Seq(Nat) /\ Len(m.lista) \in Nat
      /\ m \in Maquinas /\ Entera(m) /\ k < MaxContextos /\ k <= Len(m.lista)
  BY <1>1, DeActual, DeMaquinas DEF Buena, Entera
<1>3. /\ g \in Seq(Contexto \cup {LIBRE}) /\ DOMAIN g = DOMAIN m.ctx \cup {b} /\ b \in Nat /\ b # 1
      /\ g[b] = c /\ (b \in DOMAIN m.ctx => m.ctx[b] = LIBRE)
      /\ \A y \in DOMAIN m.ctx : y # b => g[y] = m.ctx[y]
  BY ONLY BloqueNuevo(m, c, b, g) DEF BloqueNuevo
<1>4. /\ c \in Contexto /\ c.args = <<>> /\ c.vars = <<>> /\ c.retPos + 1 \in Posiciones
      /\ m.programaAbortado \/ Palabra(c.retVar)
  BY ONLY ContextoNuevo(m, c) DEF ContextoNuevo
<1>5. /\ L \in Seq(Nat) /\ Len(L) = Len(m.lista) + 1 /\ L[Len(m.lista) + 1] = b
      /\ \A y \in DOMAIN m.lista : y \in DOMAIN L /\ L[y] = m.lista[y]
      /\ \A y \in DOMAIN L : y \notin DOMAIN m.lista => L[y] = b /\ y # 1
  BY ONLY <1>1, <1>2, <1>3, SMTT(40)
<1>6. n = [m EXCEPT !.lista = L, !.size = k + 1, !.ctx = g, !.perdido = q, !.pc = x]
  BY ONLY <1>1, n = Apila(m, b, g, q, x) DEF Apila
<1>7. n \in Maquinas
  <2>1. m \in Maquinas /\ k + 1 \in Nat /\ L \in Seq(Nat) /\ g \in Seq(Contexto \cup {LIBRE})
    BY ONLY <1>2, <1>3, <1>5
  <2>2. PICK z : z = k + 1
    OBVIOUS
  <2>3. n = [m EXCEPT !.lista = L, !.size = z, !.ctx = g, !.perdido = q, !.pc = x] /\ z \in Nat
    BY ONLY <1>6, <2>1, <2>2
  <2> QED
    BY ONLY <1>0, <2>1, <2>3, x \in Int DEF Maquinas
<1>8. /\ n.pc = x /\ n.size = k + 1 /\ n.caida = m.caida /\ n.programaAbortado = m.programaAbortado
      /\ n.perdido = q /\ n.ctx = g /\ n.lista = L /\ n.fuera = m.fuera
      /\ n.indice = m.indice /\ n.etiquetas = m.etiquetas
  BY ONLY <1>2, <1>6 DEF Maquinas
<1>9. Entera(n)
  <2>1. /\ m.indice = FlattenSeq(Indice) /\ m.etiquetas = Etiquetas
        /\ m.lista[1] = 1
        /\ \A y \in DOMAIN m.lista : m.lista[y] \in DOMAIN m.ctx /\ (y # 1 => m.lista[y] # 1)
        /\ \A y \in DOMAIN m.ctx : m.ctx[y] # LIBRE /\ y # 1 => m.ctx[y].retPos + 1 \in Posiciones
        /\ m.programaAbortado \/ \A y \in DOMAIN m.ctx : m.ctx[y] # LIBRE => EnLaPila(m.ctx[y], y)
        /\ m.fuera => m.programaAbortado \/ m.caida
    BY ONLY <1>2 DEF Entera
  <2>2. L[1] = 1
    BY ONLY <1>2, <1>5, <2>1
  <2>3. \A y \in DOMAIN L : L[y] \in DOMAIN g /\ (y # 1 => L[y] # 1)
    <3> SUFFICES ASSUME NEW y \in DOMAIN L PROVE L[y] \in DOMAIN g /\ (y # 1 => L[y] # 1)
      OBVIOUS
    <3>1. CASE y \in DOMAIN m.lista
      <4>1. L[y] = m.lista[y] /\ m.lista[y] \in DOMAIN m.ctx /\ (y # 1 => m.lista[y] # 1)
        BY ONLY <1>5, <2>1, <3>1
      <4> QED
        BY ONLY <1>3, <4>1
    <3>2. CASE y \notin DOMAIN m.lista
      <4>1. L[y] = b
        BY ONLY <1>5, <3>2, y \in DOMAIN L
      <4> QED
        BY ONLY <1>3, <4>1
    <3> QED
      BY <3>1, <3>2
  <2>4. \A y \in DOMAIN g : g[y] # LIBRE /\ y # 1 => g[y].retPos + 1 \in Posiciones
    BY ONLY <1>3, <1>4, <2>1
  <2>5. EnLaPila(c, b) \/ m.programaAbortado
    BY ONLY <1>4 DEF EnLaPila
  <2>6. m.programaAbortado \/ \A y \in DOMAIN g : g[y] # LIBRE => EnLaPila(g[y], y)
    BY ONLY <1>3, <2>1, <2>5
  <2>7. k + 1 \in 1..MaxContextos /\ k + 1 <= Len(L)
    <3>1. MaxContextos \in Nat
      BY MaxAssumption
    <3> QED
      BY ONLY <1>2, <1>5, <3>1
  <2> QED
    BY ONLY <1>7, <1>8, <2>1, <2>2, <2>3, <2>4, <2>6, <2>7 DEF Entera
<1>10. ASSUME Sana(n)
       PROVE  /\ Actual(n).vars = <<>>
              /\ \A i \in 1..n.size : \A j \in 1..n.size : i # j => n.lista[i] # n.lista[j]
              /\ \A i \in 1..n.size : Contextos(n)[i] # LIBRE /\ Crecen(SusDirecciones(Contextos(n)[i]))
              /\ \A i \in 1..n.size : \A j \in 1..n.size :
                   i < j => Debajo(SusDirecciones(Contextos(n)[i]), SusDirecciones(Contextos(n)[j]))
              /\ Contextos(n)[1].args = <<>>
  <2>1. Sana(m) /\ q = FALSE
    <3>1. m.perdido \in BOOLEAN
      BY <1>2, DeMaquinas
    <3>2. q = FALSE
      BY ONLY <1>0, <1>8, <1>10 DEF Sana
    <3>3. m.perdido = FALSE
      BY ONLY <1>0, <3>2
    <3> QED
      BY ONLY <1>8, <1>10, <3>2, <3>3 DEF Sana
  <2>2. L[k + 1] = b
    BY ONLY <1>0, <1>1, <2>1
  <2>3. /\ \A i \in 1..k : \A j \in 1..k : i # j => m.lista[i] # m.lista[j]
        /\ \A i \in 1..k : Contextos(m)[i] # LIBRE /\ Crecen(SusDirecciones(Contextos(m)[i]))
        /\ \A i \in 1..k : \A j \in 1..k :
             i < j => Debajo(SusDirecciones(Contextos(m)[i]), SusDirecciones(Contextos(m)[j]))
        /\ Contextos(m)[1].args = <<>>
    BY ONLY <1>1, <2>1, Buena(m) DEF Buena, Apilada
  <2>4. ASSUME NEW i \in 1..k
        PROVE  L[i] = m.lista[i] /\ L[i] # b /\ Contextos(n)[i] = Contextos(m)[i] /\ i \in 1..(k + 1)
    <3>1. i \in DOMAIN m.lista /\ i \in 1..(k + 1)
      BY ONLY <1>2, i \in 1..k
    <3>2. L[i] = m.lista[i] /\ m.lista[i] \in DOMAIN m.ctx
      BY ONLY <1>2, <1>5, <3>1 DEF Entera
    <3>3. Contextos(m)[i] = m.ctx[m.lista[i]]
      BY ONLY <1>1, i \in 1..k DEF Contextos
    <3>4. m.lista[i] # b
      BY ONLY <1>3, <2>3, <3>2, <3>3, i \in 1..k
    <3>5. Contextos(n)[i] = g[L[i]]
      BY ONLY <1>8, <3>1 DEF Contextos
    <3> QED
      BY ONLY <1>3, <3>1, <3>2, <3>3, <3>4, <3>5
  <2>5. Contextos(n)[k + 1] = c /\ Actual(n) = c
    <3>1. k + 1 \in 1..(k + 1)
      BY ONLY <1>2
    <3>2. Contextos(n)[k + 1] = g[L[k + 1]] /\ Actual(n) = g[L[k + 1]]
      BY ONLY <1>8, <3>1 DEF Contextos, Actual
    <3> QED
      BY ONLY <1>3, <2>2, <3>2
  <2>6. SusDirecciones(c) = <<>> /\ c # LIBRE
    BY <1>4, LasSuyas, LibreAssumption
  <2>7. \A i \in 1..(k + 1) : i = k + 1 \/ i \in 1..k
    BY ONLY <1>2
  <2>8. \A i \in 1..(k + 1) : \A j \in 1..(k + 1) : i # j => L[i] # L[j]
    BY ONLY <2>2, <2>3, <2>4, <2>7
  <2>9. \A i \in 1..(k + 1) : Contextos(n)[i] # LIBRE /\ Crecen(SusDirecciones(Contextos(n)[i]))
    <3> SUFFICES ASSUME NEW i \in 1..(k + 1)
                 PROVE  Contextos(n)[i] # LIBRE /\ Crecen(SusDirecciones(Contextos(n)[i]))
      OBVIOUS
    <3>1. CASE i = k + 1
      <4>1. Crecen(<<>>)
        BY DEF Crecen
      <4> QED
        BY ONLY <2>5, <2>6, <3>1, <4>1
    <3>2. CASE i \in 1..k
      BY ONLY <2>3, <2>4, <3>2
    <3> QED
      BY <2>7, <3>1, <3>2
  <2>10. \A i \in 1..(k + 1) : \A j \in 1..(k + 1) :
           i < j => Debajo(SusDirecciones(Contextos(n)[i]), SusDirecciones(Contextos(n)[j]))
    <3> SUFFICES ASSUME NEW i \in 1..(k + 1), NEW j \in 1..(k + 1), i < j
                 PROVE  Debajo(SusDirecciones(Contextos(n)[i]), SusDirecciones(Contextos(n)[j]))
      OBVIOUS
    <3>1. i \in 1..k
      BY ONLY <1>2, i \in 1..(k + 1), j \in 1..(k + 1), i < j
    <3>2. CASE j = k + 1
      <4>1. \A s : Debajo(s, <<>>)
        BY DEF Debajo
      <4> QED
        BY ONLY <2>5, <2>6, <3>2, <4>1
    <3>3. CASE j \in 1..k
      BY ONLY <2>3, <2>4, <3>1, <3>3, i < j
    <3> QED
      BY <2>7, <3>2, <3>3
  <2>11. Contextos(n)[1].args = <<>>
    <3>1. 1 \in 1..k
      BY ONLY <1>2
    <3> QED
      BY ONLY <2>3, <2>4, <3>1
  <2> QED
    BY ONLY <1>4, <1>8, <2>5, <2>8, <2>9, <2>10, <2>11
<1>11. Apilada(n)
  BY ONLY <1>10 DEF Apilada
<1>12. n.size # 1
  BY ONLY <1>2, <1>8
<1> QED
  BY ONLY <1>8, <1>9, <1>10, <1>11, <1>12 DEF Buena

\* The context that a call makes.
LEMMA ContextoDeLlamada ==
  ASSUME NEW m, Buena(m), m.pc \in Posiciones, m.pc + 1 \in Posiciones, NEW p, EsPuntero(m, p),
         NEW c, c = [pos |-> m.size, args |-> <<>>, vars |-> <<>>, retPos |-> m.pc,
                     retVar |-> convertirPunteroADireccion(p)]
  PROVE  ContextoNuevo(m, c)
<1>1. PICK r : r = convertirPunteroADireccion(p)
  OBVIOUS
<1>2. c = [pos |-> m.size, args |-> <<>>, vars |-> <<>>, retPos |-> m.pc, retVar |-> r]
  BY ONLY <1>1, c = [pos |-> m.size, args |-> <<>>, vars |-> <<>>, retPos |-> m.pc,
                     retVar |-> convertirPunteroADireccion(p)]
<1>3. p \in Punteros /\ (m.programaAbortado \/ \E d : Palabra(d) /\ p = Puntero(d))
  BY ONLY EsPuntero(m, p) DEF EsPuntero
<1>4. r \in Direcciones
  BY <1>1, <1>3, DireccionDePuntero
<1>5. m.size \in Nat
  BY DeActual
<1>6. /\ <<>> \in Seq(Direcciones) /\ <<>> \in Seq([etiqueta : Letras, direccion : Direcciones])
  OBVIOUS
<1>7. c \in Contexto /\ c.args = <<>> /\ c.vars = <<>> /\ c.retPos = m.pc /\ c.retVar = r
  BY ONLY <1>2, <1>4, <1>5, <1>6, m.pc \in Posiciones DEF Contexto
<1>8. m.programaAbortado \/ Palabra(r)
  <2> SUFFICES ASSUME ~m.programaAbortado PROVE Palabra(r)
    OBVIOUS
  <2>1. PICK d : Palabra(d) /\ p = Puntero(d)
    BY <1>3
  <2>2. r = Direccion(d.pagina, d.offset)
    BY <1>1, <2>1, VuelveDePuntero
  <2>3. r.pagina = d.pagina /\ r.offset = d.offset
    BY ONLY <2>2 DEF Direccion
  <2> QED
    BY ONLY <2>1, <2>3 DEF Palabra
<1> QED
  BY ONLY <1>7, <1>8, m.pc + 1 \in Posiciones DEF ContextoNuevo

\* Whether the block of the entry that is next is free.
Reusable(m) == m.size < Len(m.lista) /\ m.ctx[m.lista[m.size + 1]] = LIBRE

\* The block that malloc gives.
ElBloque(m, reusa) == IF reusa = TRUE THEN m.lista[m.size + 1] ELSE Len(m.ctx) + 1

ConElBloque(m, c, reusa) ==
  IF reusa = TRUE THEN [m.ctx EXCEPT ![ElBloque(m, reusa)] = c] ELSE Append(m.ctx, c)

\* malloc gives a block that no live context is in, the freed one or a new one.
LEMMA BloqueBien ==
  ASSUME NEW m, Buena(m), NEW c \in Contexto, NEW reusa \in BOOLEAN, reusa = TRUE => Reusable(m)
  PROVE  BloqueNuevo(m, c, ElBloque(m, reusa), ConElBloque(m, c, reusa))
<1>1. PICK C, X, L, b, g : /\ C = Contexto \cup {LIBRE} /\ X = m.ctx /\ L = m.lista
                           /\ b = ElBloque(m, reusa) /\ g = ConElBloque(m, c, reusa)
  OBVIOUS
<1>2. /\ m.size \in Nat \ {0} /\ L \in Seq(Nat) /\ X \in Seq(C) /\ L[1] \in DOMAIN X
      /\ \A y \in DOMAIN L : L[y] \in DOMAIN X /\ (y # 1 => L[y] # 1)
  <2>1. /\ m.size \in Nat \ {0} /\ m.size \in DOMAIN L /\ L \in Seq(Nat) /\ X \in Seq(C)
        /\ \A y \in DOMAIN L : L[y] \in DOMAIN X /\ (y # 1 => L[y] # 1)
    BY <1>1, DeActual, DeMaquinas DEF Buena, Entera
  <2>2. 1 \in DOMAIN L
    BY ONLY <2>1
  <2> QED
    BY ONLY <2>1, <2>2
<1>3. c \in C
  BY ONLY <1>1, c \in Contexto
<1>4. /\ g \in Seq(C) /\ DOMAIN g = DOMAIN X \cup {b} /\ b \in Nat /\ b # 1 /\ g[b] = c
      /\ b \in DOMAIN X => X[b] = LIBRE
      /\ \A x \in DOMAIN X : x # b => g[x] = X[x]
  <2>1. CASE reusa = TRUE
    <3>1. b = L[m.size + 1] /\ g = [X EXCEPT ![b] = c]
      BY ONLY <1>1, <2>1 DEF ElBloque, ConElBloque
    <3>2. m.size < Len(L) /\ X[b] = LIBRE
      BY ONLY <1>1, <2>1, <3>1, reusa = TRUE => Reusable(m) DEF Reusable
    <3>3. m.size + 1 \in DOMAIN L /\ m.size + 1 # 1
      BY ONLY <1>2, <3>2
    <3>4. b \in DOMAIN X /\ b # 1
      BY ONLY <1>2, <3>1, <3>3
    <3>5. g \in Seq(C) /\ DOMAIN g = DOMAIN X /\ g[b] = c /\ \A x \in DOMAIN X : x # b => g[x] = X[x]
      BY ONLY <1>2, <1>3, <3>1, <3>4
    <3>6. b \in Nat
      BY ONLY <1>2, <3>4
    <3> QED
      BY ONLY <3>2, <3>4, <3>5, <3>6
  <2>2. CASE reusa # TRUE
    <3>1. b = Len(X) + 1 /\ g = Append(X, c)
      BY ONLY <1>1, <2>2 DEF ElBloque, ConElBloque
    <3>2. Len(X) \in Nat \ {0}
      BY ONLY <1>2
    <3> QED
      BY ONLY <1>2, <1>3, <3>1, <3>2
  <2> QED
    BY <2>1, <2>2
<1> QED
  BY ONLY <1>1, <1>4 DEF BloqueNuevo

\* A call.
LEMMA LlamaBien ==
  ASSUME NEW m, Buena(m), m.size < MaxContextos, m.pc \in Posiciones, m.pc + 1 \in Posiciones,
         NEW l \in DOMAIN Etiquetas, NEW p, EsPuntero(m, p),
         NEW reusa \in BOOLEAN, reusa = TRUE => Reusable(m),
         NEW n, n = llamarConRetorno(m, l, p, reusa)
  PROVE  /\ Buena(n) /\ n.pc + 1 \in Posiciones /\ n.size # 1 /\ n.caida = m.caida
         /\ Sana(n) => Actual(n).vars = <<>>
<1>1. PICK c : c = [pos |-> m.size, args |-> <<>>, vars |-> <<>>, retPos |-> m.pc,
                    retVar |-> convertirPunteroADireccion(p)]
  OBVIOUS
<1>2. PICK b, g : b = ElBloque(m, reusa) /\ g = ConElBloque(m, c, reusa)
  OBVIOUS
<1>3. PICK q : q = (m.perdido \/ Append(m.lista, b)[m.size + 1] # b)
  OBVIOUS
<1>4. ContextoNuevo(m, c) /\ c \in Contexto
  <2>1. ContextoNuevo(m, c)
    BY <1>1, ContextoDeLlamada
  <2> QED
    BY ONLY <2>1 DEF ContextoNuevo
<1>5. BloqueNuevo(m, c, b, g)
  BY <1>2, <1>4, BloqueBien
<1>6. PICK x : x = m.etiquetas[l] - 1
  OBVIOUS
<1>7. x \in Int /\ x + 1 \in Posiciones
  <2>1. m.etiquetas = Etiquetas
    BY DEF Buena, Entera
  <2>2. Etiquetas[l] \in Posiciones /\ Posiciones \subseteq Int
    BY EtiquetasAssumption DEF Posiciones
  <2>3. PICK e : e = Etiquetas[l]
    OBVIOUS
  <2>4. e \in Int /\ x = e - 1 /\ e \in Posiciones
    BY ONLY <1>6, <2>1, <2>2, <2>3
  <2>5. x \in Int /\ x + 1 = e
    BY ONLY <2>4
  <2> QED
    BY ONLY <2>4, <2>5
<1>8. n = Apila(m, b, g, q, x)
  <2>1. CASE reusa = TRUE
    <3>1. b = m.lista[m.size + 1] /\ g = [m.ctx EXCEPT ![b] = c]
      BY ONLY <1>2, <2>1 DEF ElBloque, ConElBloque
    <3>2. n = irAlLabel([m EXCEPT !.lista = Append(m.lista, b), !.size = @ + 1, !.ctx = g,
                                  !.perdido = q], l)
      BY ONLY <1>1, <1>3, <2>1, <3>1, n = llamarConRetorno(m, l, p, reusa) DEF llamarConRetorno
    <3> QED
      BY <1>6, <3>2 DEF irAlLabel, Apila, Buena, Entera, Maquinas
  <2>2. CASE reusa = FALSE
    <3>1. b = Len(m.ctx) + 1 /\ g = Append(m.ctx, c)
      BY ONLY <1>2, <2>2 DEF ElBloque, ConElBloque
    <3>2. n = irAlLabel([m EXCEPT !.lista = Append(m.lista, b), !.size = @ + 1, !.ctx = g,
                                  !.perdido = q], l)
      BY ONLY <1>1, <1>3, <2>2, <3>1, n = llamarConRetorno(m, l, p, reusa) DEF llamarConRetorno
    <3> QED
      BY <1>6, <3>2 DEF irAlLabel, Apila, Buena, Entera, Maquinas
  <2> QED
    BY <2>1, <2>2
<1>9. SePierde(m, b, q)
  <2>1. m.perdido \in BOOLEAN
    BY DeMaquinas DEF Buena, Entera
  <2> QED
    BY ONLY <1>3, <2>1 DEF SePierde
<1>10. /\ Buena(n) /\ n.pc = x /\ n.size # 1 /\ n.caida = m.caida
       /\ Sana(n) => Actual(n).vars = <<>>
  <2>1. x \in Int /\ ContextoNuevo(m, c)
    BY <1>4, <1>7
  <2> QED
    BY ONLY <1>5, <1>8, <1>9, <2>1, ApilaBien, Buena(m), m.size < MaxContextos
<1> QED
  BY ONLY <1>7, <1>10

\* A machine that is in a call, or fell.
Llamada(m) == /\ Buena(m)
              /\ ~m.caida => m.size # 1 /\ (Sana(m) => Actual(m).vars = <<>>)

\* One argument of a call, which may be the one that aborts the process.
LEMMA UnArgumento ==
  ASSUME NEW m, Llamada(m), NEW k \in 1..2, NEW v \in Valores, NEW n, n = ConArgumento(m, k, v)
  PROVE  Llamada(n) /\ n.pc = m.pc
<1>1. Buena(m)
  BY ONLY Llamada(m) DEF Llamada
<1>2. CASE m.caida
  <2>1. n = m
    BY ONLY <1>2, n = ConArgumento(m, k, v) DEF ConArgumento, definirVariable
  <2> QED
    BY ONLY <2>1, Llamada(m)
<1>3. CASE ~m.caida
  <2>1. m.size # 1 /\ (Sana(m) => Actual(m).vars = <<>>)
    BY ONLY <1>3, Llamada(m) DEF Llamada
  <2>2. /\ Buena(n) /\ n.pc = m.pc
        /\ ~n.caida => n.size # 1 /\ (Sana(n) => Actual(n).vars = <<>>)
    BY <1>1, <2>1, ConArgumentoBien
  <2> QED
    BY ONLY <2>2 DEF Llamada
<1> QED
  BY <1>2, <1>3

\* The machines after each argument: f is that of the call, a the names and n the
\* machine that their values are taken in.
EsCon(h, f, n, a) ==
  h = [k \in 0..Len(a) |-> IF k = 0 THEN f ELSE ConArgumento(h[k - 1], k, Valor(n, a[k]))]

\* There are such machines.
LEMMA HayCon ==
  ASSUME NEW f, NEW n, NEW a, Len(a) \in 0..2
  PROVE  \E h : EsCon(h, f, n, a)
<1>1. PICK N, u : N = Len(a) /\ u = ConArgumento(f, 1, Valor(n, a[1]))
  OBVIOUS
<1>2. PICK w : w = ConArgumento(u, 2, Valor(n, a[2]))
  OBVIOUS
<1>3. PICK h : h = [k \in 0..N |-> IF k = 0 THEN f ELSE IF k = 1 THEN u ELSE w]
  OBVIOUS
<1>4. N \in 0..2
  BY <1>1
<1>5. \A k \in 0..N :
        h[k] = IF k = 0 THEN f ELSE ConArgumento(h[k - 1], k, Valor(n, a[k]))
  <2> SUFFICES ASSUME NEW k \in 0..N
               PROVE  h[k] = IF k = 0 THEN f ELSE ConArgumento(h[k - 1], k, Valor(n, a[k]))
    OBVIOUS
  <2>1. CASE k = 0
    BY ONLY <1>3, <2>1, k \in 0..N
  <2>2. CASE k = 1
    <3>1. h[k] = u /\ k - 1 = 0 /\ h[0] = f
      BY ONLY <1>3, <1>4, <2>2, k \in 0..N
    <3> QED
      BY ONLY <1>1, <2>2, <3>1
  <2>3. CASE k = 2
    <3>1. h[k] = w /\ k - 1 = 1 /\ h[1] = u
      BY ONLY <1>3, <1>4, <2>3, k \in 0..N
    <3> QED
      BY ONLY <1>2, <2>3, <3>1
  <2>4. k = 0 \/ k = 1 \/ k = 2
    BY ONLY <1>4, k \in 0..N
  <2> QED
    BY <2>1, <2>2, <2>3, <2>4
<1>6. PICK F : F = [k \in 0..N |-> IF k = 0 THEN f ELSE ConArgumento(h[k - 1], k, Valor(n, a[k]))]
  OBVIOUS
<1>7. DOMAIN h = 0..N /\ DOMAIN F = 0..N /\ \A k \in 0..N : F[k] = h[k]
  BY ONLY <1>3, <1>5, <1>6
<1>8. h = F
  <2>1. h = [k \in 0..N |-> h[k]] /\ F = [k \in 0..N |-> F[k]]
    BY ONLY <1>3, <1>6
  <2> QED
    BY ONLY <1>7, <2>1
<1> QED
  BY ONLY <1>1, <1>6, <1>8 DEF EsCon

\* The arguments of a call, one after the other.
LEMMA ArgumentosBien ==
  ASSUME NEW f, Llamada(f), NEW n \in Maquinas, NEW a, Len(a) \in 0..2, NEW h, EsCon(h, f, n, a)
  PROVE  Llamada(h[Len(a)]) /\ h[Len(a)].pc = f.pc
<1>1. PICK N : N = Len(a)
  OBVIOUS
<1>2. /\ h[0] = f
      /\ \A k \in 1..N : h[k] = ConArgumento(h[k - 1], k, Valor(n, a[k]))
  <2>1. PICK F : F = [k \in 0..N |-> IF k = 0 THEN f ELSE ConArgumento(h[k - 1], k, Valor(n, a[k]))]
    OBVIOUS
  <2>2. h = F
    BY ONLY <1>1, <2>1, EsCon(h, f, n, a) DEF EsCon
  <2>3. N \in 0..2
    BY <1>1
  <2>4. F[0] = f /\ \A k \in 1..N : F[k] = ConArgumento(h[k - 1], k, Valor(n, a[k]))
    BY ONLY <2>1, <2>3
  <2> QED
    BY ONLY <2>2, <2>4
<1>3. \A y : Valor(n, y) \in Valores
  BY ValorBien DEF Valor
<1>4. N = 0 \/ N = 1 \/ N = 2
  BY <1>1
<1>5. ASSUME NEW k \in 1..N, Llamada(h[k - 1]), h[k - 1].pc = f.pc
      PROVE  Llamada(h[k]) /\ h[k].pc = f.pc
  <2>1. k \in 1..2 /\ Valor(n, a[k]) \in Valores /\ h[k] = ConArgumento(h[k - 1], k, Valor(n, a[k]))
    BY ONLY <1>2, <1>3, <1>4, k \in 1..N
  <2> QED
    BY ONLY <1>5, <2>1, UnArgumento
<1>6. Llamada(h[0]) /\ h[0].pc = f.pc
  BY <1>2
<1>7. ASSUME N # 0 PROVE Llamada(h[1]) /\ h[1].pc = f.pc
  <2>1. 1 \in 1..N /\ 1 - 1 = 0
    BY ONLY <1>4, <1>7
  <2> QED
    BY ONLY <1>5, <1>6, <2>1
<1>8. ASSUME N = 2 PROVE Llamada(h[2]) /\ h[2].pc = f.pc
  <2>1. 2 \in 1..N /\ 2 - 1 = 1
    BY ONLY <1>8
  <2>2. N # 0
    BY ONLY <1>8
  <2> QED
    BY ONLY <1>5, <1>7, <2>1, <2>2
<1> QED
  BY ONLY <1>1, <1>4, <1>6, <1>7, <1>8

\* x <- f args.
LEMMA ConLlamadaBien ==
  ASSUME NEW m, Buena(m), m.size < MaxContextos, m.pc \in Posiciones, m.pc + 1 \in Posiciones,
         NEW ins, ins.l \in DOMAIN Etiquetas, Len(ins.args) \in 0..2,
         NEW reusa \in BOOLEAN, reusa = TRUE => Reusable(m),
         NEW r, r = ConLlamada(m, ins, reusa)
  PROVE  Buena(r) /\ r.pc + 1 \in Posiciones
<1>1. PICK n : n = obtenerPosicionVariable(m, {ins.x} \cup ToSet(ins.args))
  OBVIOUS
<1>2. /\ Buena(n) /\ n.pc = m.pc
      /\ ~n.caida => /\ EsPuntero(n, Posicion(Actual(n), ins.x))
                     /\ n.size = m.size /\ n.ctx = m.ctx /\ n.lista = m.lista
  <2>1. /\ Buena(n) /\ n.pc = m.pc
        /\ ~n.caida => /\ \A x \in {ins.x} \cup ToSet(ins.args) : EsPuntero(n, Posicion(Actual(n), x))
                       /\ n.size = m.size /\ n.ctx = m.ctx /\ n.lista = m.lista
    BY <1>1, ObtieneBien, ZenonT(60)
  <2>2. ins.x \in {ins.x} \cup ToSet(ins.args)
    OBVIOUS
  <2> QED
    BY ONLY <2>1, <2>2
<1>3. PICK f : f = llamarConRetorno(n, ins.l, Posicion(Actual(n), ins.x), reusa)
  OBVIOUS
<1>4. CASE n.caida
  <2>1. r = n
    BY ONLY <1>1, <1>4, r = ConLlamada(m, ins, reusa) DEF ConLlamada
  <2> QED
    BY ONLY <1>2, <2>1, m.pc + 1 \in Posiciones
<1>5. CASE ~n.caida
  <2>1. reusa = TRUE => Reusable(n)
    BY ONLY <1>2, <1>5, reusa = TRUE => Reusable(m) DEF Reusable
  <2>2. /\ n.size < MaxContextos /\ n.pc \in Posiciones /\ n.pc + 1 \in Posiciones
        /\ EsPuntero(n, Posicion(Actual(n), ins.x)) /\ Buena(n)
    BY ONLY <1>2, <1>5, m.size < MaxContextos, m.pc \in Posiciones, m.pc + 1 \in Posiciones
  <2>3. /\ Buena(f) /\ f.pc + 1 \in Posiciones /\ f.size # 1
        /\ Sana(f) => Actual(f).vars = <<>>
    <3>1. PICK p, l : p = Posicion(Actual(n), ins.x) /\ l = ins.l
      OBVIOUS
    <3>2. f = llamarConRetorno(n, l, p, reusa) /\ EsPuntero(n, p) /\ l \in DOMAIN Etiquetas
      BY ONLY <1>3, <2>2, <3>1, ins.l \in DOMAIN Etiquetas
    <3>3. Buena(n) /\ n.size < MaxContextos /\ n.pc \in Posiciones /\ n.pc + 1 \in Posiciones
      BY ONLY <2>2
    <3> QED
      BY ONLY <2>1, <3>2, <3>3, LlamaBien, reusa \in BOOLEAN, ZenonT(60)
  <2>4. Llamada(f) /\ f.pc + 1 \in Posiciones
    BY ONLY <2>3 DEF Llamada
  <2>5. \E h : EsCon(h, f, n, ins.args)
    BY HayCon
  <2>6. PICK h : h = CHOOSE z : EsCon(z, f, n, ins.args)
    OBVIOUS
  <2>7. EsCon(h, f, n, ins.args)
    BY ONLY <2>5, <2>6
  <2>8. r = h[Len(ins.args)]
    BY ONLY <1>1, <1>3, <1>5, <2>6, r = ConLlamada(m, ins, reusa) DEF ConLlamada, EsCon
  <2>9. n \in Maquinas
    BY ONLY <1>2 DEF Buena, Entera
  <2>10. Llamada(r) /\ r.pc = f.pc
    BY <2>4, <2>7, <2>8, <2>9, ArgumentosBien
  <2> QED
    BY ONLY <2>4, <2>10 DEF Llamada
<1> QED
  BY <1>4, <1>5

\* The context in force is freed.
Desapila(m, x) ==
  [m EXCEPT !.pc = x, !.ctx = [m.ctx EXCEPT ![m.lista[m.size]] = LIBRE], !.size = m.size - 1]

\* The stack without the context in force is as good.
LEMMA DesapilaBien ==
  ASSUME NEW m, Buena(m), m.size > 1, NEW x \in Int, NEW n, n = Desapila(m, x)
  PROVE  Buena(n) /\ n.pc = x
<1>1. PICK k, b, g : k = m.size /\ b = m.lista[k] /\ g = [m.ctx EXCEPT ![b] = LIBRE]
  OBVIOUS
<1>2. /\ k \in Nat /\ k > 1 /\ k \in DOMAIN m.lista /\ b \in DOMAIN m.ctx
      /\ m.ctx \in Seq(Contexto \cup {LIBRE}) /\ m.lista \in Seq(Nat)
      /\ m \in Maquinas /\ Entera(m)
  BY <1>1, DeActual, DeMaquinas DEF Buena, Entera
<1>3. /\ g \in Seq(Contexto \cup {LIBRE}) /\ DOMAIN g = DOMAIN m.ctx /\ g[b] = LIBRE
      /\ \A y \in DOMAIN m.ctx : y # b => g[y] = m.ctx[y]
  <2>1. PICK C : C = Contexto \cup {LIBRE}
    OBVIOUS
  <2>2. m.ctx \in Seq(C) /\ LIBRE \in C
    BY ONLY <1>2, <2>1
  <2>3. g \in Seq(C)
    BY ONLY <1>1, <1>2, <2>2
  <2> QED
    BY ONLY <1>1, <1>2, <2>1, <2>3
<1>4. PICK z : z = k - 1
  OBVIOUS
<1>5. z \in Nat \ {0} /\ z < k
  BY ONLY <1>2, <1>4
<1>6. n = [m EXCEPT !.pc = x, !.ctx = g, !.size = z]
  BY ONLY <1>1, <1>4, n = Desapila(m, x) DEF Desapila
<1>7. n \in Maquinas
  BY ONLY <1>2, <1>3, <1>5, <1>6, x \in Int DEF Maquinas
<1>8. /\ n.pc = x /\ n.size = z /\ n.caida = m.caida /\ n.programaAbortado = m.programaAbortado
      /\ n.perdido = m.perdido /\ n.ctx = g /\ n.lista = m.lista /\ n.fuera = m.fuera
      /\ n.indice = m.indice /\ n.etiquetas = m.etiquetas
  BY ONLY <1>2, <1>6 DEF Maquinas
<1>9. Entera(n)
  <2>1. /\ m.indice = FlattenSeq(Indice) /\ m.etiquetas = Etiquetas
        /\ m.size \in 1..MaxContextos /\ m.size <= Len(m.lista)
        /\ m.lista[1] = 1
        /\ \A y \in DOMAIN m.lista : m.lista[y] \in DOMAIN m.ctx /\ (y # 1 => m.lista[y] # 1)
        /\ \A y \in DOMAIN m.ctx : m.ctx[y] # LIBRE /\ y # 1 => m.ctx[y].retPos + 1 \in Posiciones
        /\ m.programaAbortado \/ \A y \in DOMAIN m.ctx : m.ctx[y] # LIBRE => EnLaPila(m.ctx[y], y)
        /\ m.fuera => m.programaAbortado \/ m.caida
    BY ONLY <1>2 DEF Entera
  <2>2. z \in 1..MaxContextos /\ z <= Len(m.lista)
    <3>1. MaxContextos \in Nat /\ Len(m.lista) \in Nat
      BY <1>2, MaxAssumption
    <3> QED
      BY ONLY <1>1, <1>2, <1>5, <2>1, <3>1
  <2>3. \A y \in DOMAIN g : g[y] # LIBRE /\ y # 1 => g[y].retPos + 1 \in Posiciones
    BY ONLY <1>3, <2>1
  <2>4. m.programaAbortado \/ \A y \in DOMAIN g : g[y] # LIBRE => EnLaPila(g[y], y)
    BY ONLY <1>3, <2>1
  <2> QED
    BY ONLY <1>3, <1>7, <1>8, <2>1, <2>2, <2>3, <2>4 DEF Entera
<1>10. ASSUME Sana(n)
       PROVE  /\ \A i \in 1..n.size : \A j \in 1..n.size : i # j => n.lista[i] # n.lista[j]
              /\ \A i \in 1..n.size : Contextos(n)[i] # LIBRE /\ Crecen(SusDirecciones(Contextos(n)[i]))
              /\ \A i \in 1..n.size : \A j \in 1..n.size :
                   i < j => Debajo(SusDirecciones(Contextos(n)[i]), SusDirecciones(Contextos(n)[j]))
              /\ Contextos(n)[1].args = <<>>
  <2>1. Sana(m)
    BY ONLY <1>8, <1>10 DEF Sana
  <2>2. /\ \A i \in 1..k : \A j \in 1..k : i # j => m.lista[i] # m.lista[j]
        /\ \A i \in 1..k : Contextos(m)[i] # LIBRE /\ Crecen(SusDirecciones(Contextos(m)[i]))
        /\ \A i \in 1..k : \A j \in 1..k :
             i < j => Debajo(SusDirecciones(Contextos(m)[i]), SusDirecciones(Contextos(m)[j]))
        /\ Contextos(m)[1].args = <<>>
    BY ONLY <1>1, <2>1, Buena(m) DEF Buena, Apilada
  <2>3. ASSUME NEW i \in 1..z PROVE i \in 1..k /\ Contextos(n)[i] = Contextos(m)[i]
    <3>1. i \in 1..k /\ k \in 1..k /\ i # k /\ i \in DOMAIN m.lista
      <4>1. k \in 1..Len(m.lista) /\ Len(m.lista) \in Nat
        BY ONLY <1>2
      <4> QED
        BY ONLY <1>2, <1>5, <4>1, i \in 1..z
    <3>2. m.lista[i] # b /\ m.lista[i] \in DOMAIN m.ctx
      <4>1. m.lista[i] # b
        BY ONLY <1>1, <2>2, <3>1
      <4>2. m.lista[i] \in DOMAIN m.ctx
        BY ONLY <1>2, <3>1 DEF Entera
      <4> QED
        BY ONLY <4>1, <4>2
    <3>3. Contextos(n)[i] = g[m.lista[i]] /\ Contextos(m)[i] = m.ctx[m.lista[i]]
      BY ONLY <1>1, <1>8, <3>1, i \in 1..z DEF Contextos
    <3> QED
      BY ONLY <1>3, <3>1, <3>2, <3>3
  <2>4. 1 \in 1..z
    BY ONLY <1>5
  <2>5. \A i \in 1..z : \A j \in 1..z : i # j => n.lista[i] # n.lista[j]
    BY ONLY <1>8, <2>2, <2>3
  <2>6. \A i \in 1..z : Contextos(n)[i] # LIBRE /\ Crecen(SusDirecciones(Contextos(n)[i]))
    BY ONLY <2>2, <2>3
  <2>7. \A i \in 1..z : \A j \in 1..z :
          i < j => Debajo(SusDirecciones(Contextos(n)[i]), SusDirecciones(Contextos(n)[j]))
    BY ONLY <2>2, <2>3
  <2> QED
    BY ONLY <1>8, <2>2, <2>3, <2>4, <2>5, <2>6, <2>7
<1>11. Apilada(n)
  BY ONLY <1>10 DEF Apilada
<1> QED
  BY ONLY <1>8, <1>9, <1>11 DEF Buena

\* return.
LEMMA RetornaBien ==
  ASSUME NEW m, Buena(m), Vivo(m), m.size > 1, NEW v \in Valores, NEW n, n = retornar(m, v)
  PROVE  Buena(n) /\ n.pc + 1 \in Posiciones
<1>1. PICK c, b, p : c = Actual(m) /\ b = m.lista[m.size] /\ p = Puntero(c.retVar)
  OBVIOUS
<1>2. /\ m.size \in Nat /\ b \in DOMAIN m.ctx /\ b # 1 /\ c \in Contexto
      /\ ~m.programaAbortado => EnLaPila(c, b)
  BY <1>1, DeActual
<1>3. c = m.ctx[b] /\ c # LIBRE
  BY ONLY <1>1, Vivo(m) DEF Actual, Vivo
<1>4. c.retPos \in Int /\ c.retPos + 1 \in Posiciones /\ c.retVar \in Direcciones
  <2>1. c.retPos \in Posiciones /\ c.retVar \in Direcciones
    BY ONLY <1>2 DEF Contexto
  <2>2. Posiciones \subseteq Int
    BY DEF Posiciones
  <2>3. c.retPos + 1 \in Posiciones
    BY ONLY <1>2, <1>3, Buena(m) DEF Buena, Entera
  <2> QED
    BY ONLY <2>1, <2>2, <2>3
<1>5. EsPuntero(m, p)
  <2>1. p \in Punteros
    BY <1>1, <1>4, PunteroEnRango
  <2>2. ~m.programaAbortado => Palabra(c.retVar)
    BY ONLY <1>2 DEF EnLaPila
  <2> QED
    BY ONLY <1>1, <2>1, <2>2 DEF EsPuntero
<1>6. PICK h : h = asignar(m, p, v)
  OBVIOUS
<1>7. /\ Buena(h) /\ MismaPila(h, m) /\ h.pc = m.pc /\ h.caida = m.caida
      /\ h.programaAbortado = m.programaAbortado
  BY <1>5, <1>6, AsignaBien
<1>8. h.size = m.size /\ h.lista = m.lista /\ h.ctx = m.ctx
  BY ONLY <1>7 DEF MismaPila
<1>9. n = Desapila(h, c.retPos)
  <2>1. n = [h EXCEPT !.pc = c.retPos, !.ctx[b] = LIBRE, !.size = m.size - 1]
    BY ONLY <1>1, <1>6, n = retornar(m, v) DEF retornar, Puntero
  <2> QED
    BY ONLY <1>1, <1>8, <2>1 DEF Desapila
<1>10. Buena(n) /\ n.pc = c.retPos
  <2>1. h.size > 1
    BY ONLY <1>8, m.size > 1
  <2> QED
    BY <1>4, <1>7, <1>9, <2>1, DesapilaBien
<1> QED
  BY ONLY <1>4, <1>10

\* return y.
LEMMA ConRetornoBien ==
  ASSUME NEW m, Buena(m), m.size > 1, NEW y, NEW n,
         n = obtenerPosicionVariable(m, {y}),
         NEW r, r = IF n.caida THEN n ELSE retornar(n, Valor(n, y))
  PROVE  Buena(r) /\ (~r.caida => r.pc + 1 \in Posiciones)
<1>1. Buena(n) /\ n.pc = m.pc /\ (~n.caida => Vivo(n) /\ n.size = m.size)
  BY ObtieneBien
<1>2. CASE n.caida
  BY ONLY <1>1, <1>2, r = IF n.caida THEN n ELSE retornar(n, Valor(n, y))
<1>3. CASE ~n.caida
  <2>1. r = retornar(n, Valor(n, y))
    BY ONLY <1>3, r = IF n.caida THEN n ELSE retornar(n, Valor(n, y))
  <2>2. Valor(n, y) \in Valores
    BY <1>1, ValorBien DEF Valor, Buena, Entera
  <2>3. Vivo(n) /\ n.size > 1
    BY ONLY <1>1, <1>3, m.size > 1
  <2> QED
    BY <1>1, <2>1, <2>2, <2>3, RetornaBien
<1> QED
  BY <1>2, <1>3

\* A machine whose contexts are all live can be packed.
LEMMA SePuedeEmpacar ==
  ASSUME NEW m, Buena(m), \A i \in 1..m.size : Contextos(m)[i] # LIBRE
  PROVE  /\ EnPCB(m)
         /\ \A i \in 1..m.size : /\ m.lista[i] \in DOMAIN m.ctx /\ (i # 1 => m.lista[i] # 1)
                                 /\ Contextos(m)[i] = m.ctx[m.lista[i]]
                                 /\ Contextos(m)[i] \in Contexto
<1>1. /\ m.size \in Nat /\ m.lista \in Seq(Nat) /\ m.ctx \in Seq(Contexto \cup {LIBRE})
      /\ m.etiquetas \in Seq(Posiciones) /\ m.indice = FlattenSeq(Indice)
      /\ m.size <= Len(m.lista)
      /\ \A y \in DOMAIN m.lista : m.lista[y] \in DOMAIN m.ctx /\ (y # 1 => m.lista[y] # 1)
  BY DeMaquinas DEF Buena, Entera
<1>2. ASSUME NEW i \in 1..m.size
      PROVE  /\ m.lista[i] \in DOMAIN m.ctx /\ (i # 1 => m.lista[i] # 1)
             /\ Contextos(m)[i] = m.ctx[m.lista[i]]
             /\ Contextos(m)[i] \in Contexto
  <2>1. i \in DOMAIN m.lista
    BY ONLY <1>1, i \in 1..m.size
  <2>2. Contextos(m)[i] = m.ctx[m.lista[i]]
    BY ONLY i \in 1..m.size DEF Contextos
  <2>3. Contextos(m)[i] # LIBRE
    BY i \in 1..m.size
  <2> QED
    BY ONLY <1>1, <2>1, <2>2, <2>3
<1>3. m.indice \in Seq(Nat) /\ Len(m.indice) = 2 * Len(Indice) /\ Len(Indice) \in Nat
  BY <1>1, DelIndice, LasPaginas
<1>4. \E k \in Nat : Len(m.indice) = 2 * k
  BY ONLY <1>3
<1> QED
  BY ONLY <1>1, <1>2, <1>3, <1>4 DEF EnPCB

\* A packet is as long as was counted, and it is not empty.
LEMMA PaqueteEntero ==
  ASSUME NEW m, EnPCB(m)
  PROVE  /\ SubSeq(serializarPCB(m), 1, sizeTotal(m)) = serializarPCB(m)
         /\ serializarPCB(m) # <<>>
<1>1. PICK s, T, U : s = serializarPCB(m) /\ T = sizeTotal(m) /\ U = Elementos \cup {CabeceraDe(m)}
  OBVIOUS
<1>2. s \in Seq(U) /\ Len(s) = T
  BY <1>1, PCBVuelve
<1>3. PICK f : Suma(f, LargosDe(m), m.size)
  BY TiposDelPCB, Acumula
<1>4. T = Base(m) + f[m.size] /\ f[m.size] \in Nat
  BY <1>1, <1>3, Cuenta, TiposDelPCB, DeSuma
<1>5. Base(m) \in Nat /\ Base(m) # 0
  <2>1. PICK a, e : a = Len(m.indice) /\ e = Len(m.etiquetas)
    OBVIOUS
  <2>2. a \in Nat /\ e \in Nat
    BY <2>1, TiposDelPCB
  <2>3. Base(m) = 1 + a + e
    BY ONLY <2>1 DEF Base
  <2> QED
    BY ONLY <2>2, <2>3
<1>6. T # 0
  BY ONLY <1>4, <1>5
<1>7. SubSeq(s, 1, T) = s
  BY ONLY <1>2
<1>8. s # <<>>
  BY ONLY <1>2, <1>6
<1> QED
  BY ONLY <1>1, <1>7, <1>8

\* A machine without its PCB.
LEMMA SinPCBEs ==
  ASSUME NEW m \in Maquinas, NEW s, s = SinPCB(m)
  PROVE  /\ s \in Maquinas /\ s.memoria = m.memoria /\ s.fuera = m.fuera
         /\ s.programaAbortado = m.programaAbortado /\ s.perdido = m.perdido /\ s.caida = m.caida
         /\ s.size = 0 /\ s.lista = <<>> /\ s.ctx = <<>>
<1>1. PICK I, E, K : I = <<>> /\ E = <<>> /\ K = <<>>
  OBVIOUS
<1>2. I \in Seq(Nat) /\ E \in Seq(Posiciones) /\ K \in Seq(Contexto \cup {LIBRE})
  BY ONLY <1>1
<1>3. s = [m EXCEPT !.pc = 0, !.indice = I, !.etiquetas = E, !.size = 0, !.lista = I, !.ctx = K]
  BY ONLY <1>1, s = SinPCB(m) DEF SinPCB
<1>4. m \in Maquinas /\ 0 \in Int /\ 0 \in Nat
  OBVIOUS
<1>5. s \in Maquinas
  BY ONLY <1>2, <1>3, <1>4 DEF Maquinas
<1>6. /\ s.memoria = m.memoria /\ s.fuera = m.fuera
      /\ s.programaAbortado = m.programaAbortado /\ s.perdido = m.perdido /\ s.caida = m.caida
      /\ s.size = 0 /\ s.lista = I /\ s.ctx = K
  BY ONLY <1>3, <1>4 DEF Maquinas
<1> QED
  BY ONLY <1>1, <1>5, <1>6

\* What comes out of the packet.
Llegada(m) ==
  [SinPCB(m) EXCEPT !.pc = m.pc, !.indice = m.indice, !.etiquetas = m.etiquetas,
                    !.size = m.size, !.lista = [i \in 1..m.size |-> i], !.ctx = Contextos(m)]

\* Its fields.
LEMMA DeLlegada ==
  ASSUME NEW m, Buena(m), \A i \in 1..m.size : Contextos(m)[i] # LIBRE, NEW r, r = Llegada(m)
  PROVE  /\ r \in Maquinas /\ r.pc = m.pc /\ r.indice = m.indice /\ r.etiquetas = m.etiquetas
         /\ r.size = m.size /\ r.lista = [i \in 1..m.size |-> i] /\ r.ctx = Contextos(m)
         /\ r.memoria = m.memoria /\ r.fuera = m.fuera /\ r.programaAbortado = m.programaAbortado
         /\ r.perdido = m.perdido /\ r.caida = m.caida
         /\ Contextos(r) = Contextos(m)
<1>1. m \in Maquinas /\ m.size \in Nat /\ m.pc \in Int /\ m.indice \in Seq(Nat)
      /\ m.etiquetas \in Seq(Posiciones)
  BY DeMaquinas DEF Buena, Entera
<1>2. PICK L, C : L = [i \in 1..m.size |-> i] /\ C = Contextos(m)
  OBVIOUS
<1>3. L \in Seq(Nat)
  BY ONLY <1>1, <1>2
<1>4. C \in Seq(Contexto \cup {LIBRE}) /\ C = [i \in 1..m.size |-> C[i]]
  <2>1. \A i \in 1..m.size : C[i] \in Contexto
    BY <1>2, SePuedeEmpacar
  <2>2. PICK W, k : W = Contexto \cup {LIBRE} /\ k = m.size
    OBVIOUS
  <2>3. C = [i \in 1..k |-> m.ctx[m.lista[i]]]
    BY ONLY <1>2, <2>2 DEF Contextos
  <2>4. \A i \in 1..k : C[i] \in W
    BY ONLY <2>1, <2>2
  <2>5. C \in [1..k -> W]
    BY ONLY <2>3, <2>4
  <2>6. k \in Nat
    BY ONLY <1>1, <2>2
  <2>7. C \in Seq(W)
    BY ONLY <2>5, <2>6
  <2>8. C = [i \in 1..k |-> C[i]]
    BY ONLY <2>5
  <2> QED
    BY ONLY <2>2, <2>7, <2>8
<1>5. PICK s : s = SinPCB(m)
  OBVIOUS
<1>6. /\ s \in Maquinas /\ s.memoria = m.memoria /\ s.fuera = m.fuera
      /\ s.programaAbortado = m.programaAbortado /\ s.perdido = m.perdido /\ s.caida = m.caida
  BY <1>1, <1>5, SinPCBEs
<1>7. PICK k, p, I, E : k = m.size /\ p = m.pc /\ I = m.indice /\ E = m.etiquetas
  OBVIOUS
<1>8. r = [s EXCEPT !.pc = p, !.indice = I, !.etiquetas = E, !.size = k, !.lista = L, !.ctx = C]
  BY ONLY <1>2, <1>5, <1>7, r = Llegada(m) DEF Llegada
<1>9. /\ r \in Maquinas /\ r.pc = p /\ r.indice = I /\ r.etiquetas = E
      /\ r.size = k /\ r.lista = L /\ r.ctx = C
      /\ r.memoria = s.memoria /\ r.fuera = s.fuera /\ r.programaAbortado = s.programaAbortado
      /\ r.perdido = s.perdido /\ r.caida = s.caida
  <2>1. k \in Nat /\ p \in Int /\ I \in Seq(Nat) /\ E \in Seq(Posiciones) /\ L \in Seq(Nat)
        /\ C \in Seq(Contexto \cup {LIBRE}) /\ s \in Maquinas
    BY ONLY <1>1, <1>3, <1>4, <1>6, <1>7
  <2> QED
    BY ONLY <1>8, <2>1 DEF Maquinas
<1>10. Contextos(r) = Contextos(m)
  <2>1. Contextos(r) = [i \in 1..k |-> C[L[i]]]
    BY ONLY <1>9 DEF Contextos
  <2>2. \A i \in 1..k : L[i] = i
    BY ONLY <1>2, <1>7
  <2>3. Contextos(r) = [i \in 1..k |-> C[i]]
    BY ONLY <2>1, <2>2
  <2> QED
    BY ONLY <1>2, <1>4, <1>7, <2>3
<1> QED
  BY ONLY <1>2, <1>6, <1>7, <1>9, <1>10

\* It is as good as what was packed.
LEMMA LlegaBien ==
  ASSUME NEW m, Buena(m), \A i \in 1..m.size : Contextos(m)[i] # LIBRE, NEW r, r = Llegada(m)
  PROVE  Buena(r)
<1>1. PICK k, C, L : k = m.size /\ C = Contextos(m) /\ L = [i \in 1..k |-> i]
  OBVIOUS
<1>2. /\ r \in Maquinas /\ r.indice = m.indice /\ r.etiquetas = m.etiquetas
      /\ r.size = k /\ r.lista = L /\ r.ctx = C
      /\ r.fuera = m.fuera /\ r.programaAbortado = m.programaAbortado
      /\ r.perdido = m.perdido /\ r.caida = m.caida
      /\ Contextos(r) = C
  BY <1>1, DeLlegada
<1>3. \A i \in 1..k : /\ m.lista[i] \in DOMAIN m.ctx /\ (i # 1 => m.lista[i] # 1)
                      /\ C[i] = m.ctx[m.lista[i]] /\ C[i] \in Contexto /\ C[i] # LIBRE
  BY <1>1, SePuedeEmpacar
<1>4. /\ m.indice = FlattenSeq(Indice) /\ m.etiquetas = Etiquetas
      /\ k \in 1..MaxContextos
      /\ \A y \in DOMAIN m.ctx : m.ctx[y] # LIBRE /\ y # 1 => m.ctx[y].retPos + 1 \in Posiciones
      /\ m.programaAbortado \/ \A y \in DOMAIN m.ctx : m.ctx[y] # LIBRE => EnLaPila(m.ctx[y], y)
      /\ m.fuera => m.programaAbortado \/ m.caida
  BY ONLY <1>1, Buena(m) DEF Buena, Entera
<1>5. k \in Nat \ {0} /\ Len(L) = k /\ DOMAIN L = 1..k /\ DOMAIN C = 1..k /\ \A i \in 1..k : L[i] = i
  <2>1. k \in Nat \ {0}
    BY <1>1, DeActual
  <2>2. DOMAIN C = 1..k
    BY ONLY <1>1 DEF Contextos
  <2> QED
    BY ONLY <1>1, <2>1, <2>2
<1>6. Entera(r)
  <2>1. \A y \in DOMAIN C : C[y] # LIBRE /\ y # 1 => C[y].retPos + 1 \in Posiciones
    BY ONLY <1>3, <1>4, <1>5
  <2>2. m.programaAbortado \/ \A y \in DOMAIN C : C[y] # LIBRE => EnLaPila(C[y], y)
    <3>1. ASSUME ~m.programaAbortado, NEW y \in 1..k PROVE EnLaPila(C[y], y)
      <4>1. EnLaPila(C[y], m.lista[y])
        BY ONLY <1>3, <1>4, <3>1, y \in 1..k
      <4>2. y # 1 => m.lista[y] # 1
        BY ONLY <1>3, y \in 1..k
      <4> QED
        BY ONLY <4>1, <4>2 DEF EnLaPila
    <3> QED
      BY ONLY <1>5, <3>1
  <2>3. L[1] = 1 /\ k <= Len(L) /\ \A n \in DOMAIN L : L[n] \in DOMAIN C /\ (n # 1 => L[n] # 1)
    BY ONLY <1>5
  <2> QED
    BY ONLY <1>2, <1>4, <2>1, <2>2, <2>3 DEF Entera
<1>7. Apilada(r)
  <2>1. ASSUME Sana(r)
        PROVE  /\ \A i \in 1..k : \A j \in 1..k : i # j => L[i] # L[j]
               /\ \A i \in 1..k : C[i] # LIBRE /\ Crecen(SusDirecciones(C[i]))
               /\ \A i \in 1..k : \A j \in 1..k :
                    i < j => Debajo(SusDirecciones(C[i]), SusDirecciones(C[j]))
               /\ C[1].args = <<>>
    <3>1. Sana(m)
      BY ONLY <1>2, <2>1 DEF Sana
    <3>2. /\ \A i \in 1..k : C[i] # LIBRE /\ Crecen(SusDirecciones(C[i]))
          /\ \A i \in 1..k : \A j \in 1..k :
               i < j => Debajo(SusDirecciones(C[i]), SusDirecciones(C[j]))
          /\ C[1].args = <<>>
      BY ONLY <1>1, <3>1, Buena(m) DEF Buena, Apilada
    <3> QED
      BY ONLY <1>5, <3>2
  <2>2. r.size = k /\ r.lista = L /\ Contextos(r) = C
    BY ONLY <1>2
  <2> QED
    BY ONLY <2>1, <2>2 DEF Apilada
<1> QED
  BY ONLY <1>6, <1>7 DEF Buena

\* A PCB that is packed and unpacked in a CPU that has none.
LEMMA ViajeBien ==
  ASSUME NEW m, Buena(m), m.pc \in Posiciones, \A i \in 1..m.size : Contextos(m)[i] # LIBRE
  PROVE  /\ desserializarPCB(SinPCB(m), serializarPCB(m)) = Llegada(m)
         /\ EnViaje(desserializarPCB(SinPCB(m), serializarPCB(m)))
         /\ serializarPCB(m) # <<>> /\ SubSeq(serializarPCB(m), 1, sizeTotal(m)) = serializarPCB(m)
<1>1. EnPCB(m)
  BY SePuedeEmpacar
<1>2. desserializarPCB(SinPCB(m), serializarPCB(m)) = Llegada(m)
  BY <1>1, PCBVuelve DEF Llegada
<1>3. Buena(Llegada(m)) /\ Llegada(m).pc = m.pc
  BY LlegaBien, DeLlegada
<1>4. serializarPCB(m) # <<>> /\ SubSeq(serializarPCB(m), 1, sizeTotal(m)) = serializarPCB(m)
  BY <1>1, PaqueteEntero
<1> QED
  BY ONLY <1>2, <1>3, <1>4, m.pc \in Posiciones DEF EnViaje

\* The PCB of a new process.
LEMMA InicialBien ==
  ASSUME NEW m, m = PCBInicial
  PROVE  /\ Buena(m) /\ m.pc \in Posiciones /\ ~m.caida /\ ~m.fuera /\ ~m.programaAbortado
         /\ \A i \in 1..m.size : Contextos(m)[i] # LIBRE
<1>1. PICK c, X : /\ c = [pos |-> 0, args |-> <<>>, vars |-> <<>>, retPos |-> 0,
                          retVar |-> Direccion(0, 0)]
                  /\ X = <<c>>
  OBVIOUS
<1>2. 0 \in Posiciones
  BY LasPaginas DEF Posiciones
<1>3. c \in Contexto /\ c.args = <<>> /\ c.vars = <<>>
  <2>1. PICK d : d = Direccion(0, 0)
    OBVIOUS
  <2>2. d \in Direcciones
    <3>1. 0 \in 0..Paginas /\ 0 \in -1..(tamanioPag - 1)
      BY LasPaginas
    <3> QED
      BY <2>1, <3>1, EsDireccion
  <2>3. <<>> \in Seq(Direcciones) /\ <<>> \in Seq([etiqueta : Letras, direccion : Direcciones])
    OBVIOUS
  <2> QED
    BY ONLY <1>1, <1>2, <2>1, <2>2, <2>3 DEF Contexto
<1>4. X \in Seq(Contexto \cup {LIBRE}) /\ Len(X) = 1 /\ DOMAIN X = {1} /\ X[1] = c
  BY ONLY <1>1, <1>3
<1>5. PICK I, M, L : I = FlattenSeq(Indice) /\ M = [w \in Celdas |-> BASURA] /\ L = <<1>>
  OBVIOUS
<1>6. I \in Seq(Nat) /\ M \in [Celdas -> Valores] /\ L \in Seq(Nat) /\ Etiquetas \in Seq(Posiciones)
      /\ Len(L) = 1 /\ DOMAIN L = {1} /\ L[1] = 1
  <2>1. I \in Seq(Nat)
    BY <1>5, DelIndice
  <2>2. M \in [Celdas -> Valores]
    BY ONLY <1>5 DEF Valores
  <2>3. Etiquetas \in Seq(Posiciones)
    BY EtiquetasAssumption
  <2> QED
    BY ONLY <1>5, <2>1, <2>2, <2>3
<1>7. m = [pc |-> 0, indice |-> I, etiquetas |-> Etiquetas, size |-> 1, lista |-> L, ctx |-> X,
           memoria |-> M, fuera |-> FALSE, programaAbortado |-> FALSE, perdido |-> FALSE,
           caida |-> FALSE]
  BY ONLY <1>1, <1>5, m = PCBInicial DEF PCBInicial
<1>8. /\ m.pc = 0 /\ m.indice = I /\ m.etiquetas = Etiquetas /\ m.size = 1 /\ m.lista = L /\ m.ctx = X
      /\ ~m.fuera /\ ~m.programaAbortado /\ ~m.perdido /\ ~m.caida
  BY ONLY <1>7
<1>9. m \in Maquinas
  BY ONLY <1>4, <1>6, <1>7 DEF Maquinas
<1>10. \A i \in 1..1 : i = 1
  OBVIOUS
<1>11. Contextos(m)[1] = c
  BY ONLY <1>4, <1>6, <1>8 DEF Contextos
<1>12. c # LIBRE
  BY <1>3, LibreAssumption
<1>13. Entera(m)
  <2>1. EnLaPila(c, 1)
    BY ONLY <1>3 DEF EnLaPila
  <2>2. 1 \in 1..MaxContextos
    BY MaxAssumption
  <2> QED
    BY ONLY <1>4, <1>5, <1>6, <1>8, <1>9, <2>1, <2>2 DEF Entera
<1>14. Apilada(m)
  <2>1. SusDirecciones(c) = <<>>
    BY <1>3, LasSuyas
  <2>2. Crecen(SusDirecciones(c))
    BY ONLY <2>1 DEF Crecen
  <2> QED
    BY ONLY <1>3, <1>8, <1>10, <1>11, <1>12, <2>2 DEF Apilada
<1>15. \A i \in 1..m.size : Contextos(m)[i] # LIBRE
  BY ONLY <1>8, <1>10, <1>11, <1>12
<1> QED
  BY ONLY <1>2, <1>8, <1>13, <1>14, <1>15 DEF Buena

\* The PCB that mandarCodigoAUmc makes.
LEMMA InvInicial ==
  ASSUME Init
  PROVE  Inv
<1>1. PICK m : m = PCBInicial
  OBVIOUS
<1>2. /\ Buena(m) /\ m.pc \in Posiciones /\ ~m.caida /\ ~m.fuera /\ ~m.programaAbortado
      /\ \A i \in 1..m.size : Contextos(m)[i] # LIBRE
  BY <1>1, InicialBien
<1>3. /\ EnViaje(desserializarPCB(SinPCB(m), serializarPCB(m))) /\ serializarPCB(m) # <<>>
  BY <1>2, ViajeBien
<1>4. cpu = SinPCB(m) /\ paquete = serializarPCB(m) /\ estado = "nucleo"
  BY ONLY <1>1, Init DEF Init
<1>5. Afuera
  <2>1. m \in Maquinas
    BY ONLY <1>2 DEF Buena, Entera
  <2> QED
    BY <1>2, <1>4, <2>1, SinPCBEs DEF Afuera
<1>6. /\ codigo \in [Posiciones -> Instrucciones \cup {SIN_LEER}]
      /\ quantum_aux \in Nat /\ (\E q \in Quantums \cup {0} : quantum_aux <= q)
      /\ programaBloqueado \in BOOLEAN /\ compartida \in Valores
  <2>1. /\ codigo = [i \in Posiciones |-> SIN_LEER] /\ quantum_aux = 0
        /\ programaBloqueado = FALSE /\ compartida = BASURA
    BY ONLY Init DEF Init
  <2>2. compartida \in Valores
    BY ONLY <2>1 DEF Valores
  <2>3. codigo \in [Posiciones -> Instrucciones \cup {SIN_LEER}]
    BY ONLY <2>1
  <2>4. quantum_aux \in Nat /\ quantum_aux <= 0
    BY ONLY <2>1
  <2>5. \E q \in Quantums \cup {0} : quantum_aux <= q
    BY ONLY <2>4
  <2> QED
    BY ONLY <2>1, <2>2, <2>3, <2>4, <2>5
<1> QED
  BY ONLY <1>3, <1>4, <1>5, <1>6 DEF Inv

\* The instruction that is run is the one at the pc.
LEMMA LaDelPc ==
  ASSUME Inv, estado = "cpu", ~cpu.caida, NEW i \in Posiciones, Literal(i) = Sentencia(cpu)
  PROVE  i = cpu.pc
<1>1. cpu.pc \in Posiciones /\ cpu.indice = FlattenSeq(Indice)
  BY DEF Inv, EnCPU, Buena, Entera
<1>2. Sentencia(cpu) = Literal(cpu.pc)
  BY <1>1, LeeLaDelPc
<1> QED
  BY <1>1, <1>2, LiteralUnico

\* What is known of it.
LEMMA DeInstruccion ==
  ASSUME NEW i \in Posiciones, NEW ins \in Permitidas[i + 1]
  PROVE  /\ ins \in Instrucciones
         /\ ins.op = "variables" => ~EsArgumento(ins.x) /\ ins.x \in Letras
         /\ ins.op = "valor" => ins.v \in Valores
         /\ ins.op \in {"llama", "goto"} => ins.l \in DOMAIN Etiquetas
         /\ ins.op = "llama" => Len(ins.args) \in 0..2
         /\ ins.op \notin {"return", "end", "goto"} => i + 1 \in Posiciones
<1>1. /\ DOMAIN Permitidas = 1..Len(Indice)
      /\ \A n \in DOMAIN Permitidas : \A j \in Permitidas[n] :
           /\ j.op = "variables" => ~EsArgumento(j.x)
           /\ j.op \in {"llama", "goto"} => j.l \in DOMAIN Etiquetas
           /\ j.op = "llama" => j.args \in Seq(STRING) /\ Len(j.args) <= 2
      /\ \A j \in Permitidas[Len(Indice)] : j.op \in {"return", "end", "goto"}
  BY PermitidasAssumption
<1>2. Len(Indice) \in Nat
  BY LasPaginas
<1>3. i \in 0..(Len(Indice) - 1)
  BY DEF Posiciones
<1>4. i + 1 \in 1..Len(Indice)
  BY ONLY <1>2, <1>3
<1>5. PICK n : n = i + 1
  OBVIOUS
<1>6. n \in DOMAIN Permitidas /\ ins \in Permitidas[n]
  BY ONLY <1>1, <1>4, <1>5, ins \in Permitidas[i + 1]
<1>7. ins \in Instrucciones
  BY ONLY <1>6 DEF Instrucciones
<1>8. /\ ins.op = "variables" => ~EsArgumento(ins.x)
      /\ ins.op \in {"llama", "goto"} => ins.l \in DOMAIN Etiquetas
      /\ ins.op = "llama" => ins.args \in Seq(STRING) /\ Len(ins.args) <= 2
  BY ONLY <1>1, <1>6
<1>9. ins.op = "llama" => Len(ins.args) \in 0..2
  <2>1. ASSUME NEW a \in Seq(STRING), Len(a) <= 2 PROVE Len(a) \in 0..2
    <3>1. PICK N : N = Len(a)
      OBVIOUS
    <3>2. N \in Nat /\ N <= 2
      BY <2>1, <3>1
    <3>3. N \in 0..2
      BY ONLY <3>2
    <3> QED
      BY ONLY <3>1, <3>3
  <2> QED
    BY ONLY <1>8, <2>1
<1>10. ins.op = "variables" => ins.x \in Letras
  BY ONLY <1>7 DEF Letras
<1>11. ins.op = "valor" => ins.v \in Valores
  BY ONLY <1>7 DEF Valores
<1>12. ASSUME ins.op \notin {"return", "end", "goto"} PROVE i + 1 \in Posiciones
  <2>1. n # Len(Indice)
    BY ONLY <1>1, <1>6, <1>12
  <2>2. i + 1 \in 0..(Len(Indice) - 1)
    BY ONLY <1>2, <1>3, <1>5, <2>1
  <2> QED
    BY ONLY <2>2 DEF Posiciones
<1> QED
  BY ONLY <1>7, <1>8, <1>9, <1>10, <1>11, <1>12

\* What running ins finds: the machine, and what the code is after it.
LEMMA AlCorrer ==
  ASSUME Inv, Sigue, NEW ins,
         \E i \in Posiciones : /\ ins \in Permitidas[i + 1]
                               /\ codigo[i] \in {SIN_LEER, ins}
                               /\ Literal(i) = Sentencia(cpu)
                               /\ codigo' = [codigo EXCEPT ![i] = ins]
  PROVE  /\ estado = "cpu" /\ Buena(cpu) /\ ~cpu.caida /\ ~cpu.programaAbortado
         /\ cpu.pc \in Posiciones /\ ins \in Permitidas[cpu.pc + 1]
         /\ codigo' \in [Posiciones -> Instrucciones \cup {SIN_LEER}]
<1>1. /\ estado = "cpu" /\ ~cpu.caida /\ ~cpu.programaAbortado
  BY ONLY Sigue DEF Sigue
<1>2. Buena(cpu) /\ cpu.pc \in Posiciones
  BY ONLY <1>1, Inv DEF Inv, EnCPU
<1>3. PICK i \in Posiciones : /\ ins \in Permitidas[i + 1]
                              /\ Literal(i) = Sentencia(cpu)
                              /\ codigo' = [codigo EXCEPT ![i] = ins]
  OBVIOUS
<1>4. i = cpu.pc
  BY <1>1, <1>3, LaDelPc
<1>5. ins \in Permitidas[cpu.pc + 1]
  BY ONLY <1>3, <1>4
<1>6. ins \in Instrucciones
  BY <1>3, DeInstruccion
<1>7. codigo \in [Posiciones -> Instrucciones \cup {SIN_LEER}]
  BY ONLY Inv DEF Inv
<1>8. codigo' \in [Posiciones -> Instrucciones \cup {SIN_LEER}]
  BY ONLY <1>3, <1>6, <1>7
<1> QED
  BY ONLY <1>1, <1>2, <1>5, <1>8

\* What an instruction finds when it is run.
LEMMA AlEjecutar ==
  ASSUME Inv, NEW ins, NEW n, Ejecuta(ins, n)
  PROVE  /\ estado = "cpu" /\ Buena(cpu) /\ ~cpu.caida /\ ~cpu.programaAbortado
         /\ cpu.pc \in Posiciones /\ ins \in Permitidas[cpu.pc + 1]
         /\ ins.op \notin {"return", "end", "goto"} => cpu.pc + 1 \in Posiciones
<1>1. /\ Sigue
      /\ \E i \in Posiciones : /\ ins \in Permitidas[i + 1]
                               /\ codigo[i] \in {SIN_LEER, ins}
                               /\ Literal(i) = Sentencia(cpu)
                               /\ codigo' = [codigo EXCEPT ![i] = ins]
  BY ONLY Ejecuta(ins, n) DEF Ejecuta
<1>2. /\ estado = "cpu" /\ Buena(cpu) /\ ~cpu.caida /\ ~cpu.programaAbortado
      /\ cpu.pc \in Posiciones /\ ins \in Permitidas[cpu.pc + 1]
  BY <1>1, AlCorrer
<1> QED
  BY <1>2, DeInstruccion

\* An instruction that leaves the machine well, with a pc to go on from.
LEMMA EjecutaBien ==
  ASSUME Inv, NEW ins, NEW n, Ejecuta(ins, n), Buena(n), n.caida \/ n.pc + 1 \in Posiciones,
         programaBloqueado' \in BOOLEAN, compartida' \in Valores
  PROVE  Inv'
<1>1. /\ Sigue
      /\ \E i \in Posiciones : /\ ins \in Permitidas[i + 1]
                               /\ codigo[i] \in {SIN_LEER, ins}
                               /\ Literal(i) = Sentencia(cpu)
                               /\ codigo' = [codigo EXCEPT ![i] = ins]
      /\ cpu' = [n EXCEPT !.pc = @ + 1]
      /\ quantum_aux' = quantum_aux - 1
      /\ estado' = estado /\ paquete' = paquete
  BY ONLY Ejecuta(ins, n) DEF Ejecuta
<1>2. estado = "cpu" /\ codigo' \in [Posiciones -> Instrucciones \cup {SIN_LEER}]
  BY <1>1, AlCorrer
<1>3. PICK x : x = n.pc + 1
  OBVIOUS
<1>4. x \in Int /\ cpu' = [n EXCEPT !.pc = x]
  <2>1. n.pc \in Int
    BY DeMaquinas DEF Buena, Entera
  <2> QED
    BY ONLY <1>1, <1>3, <2>1
<1>5. Buena(cpu') /\ cpu'.pc = x /\ cpu'.caida = n.caida
  BY ONLY <1>4, Buena(n), PcBien
<1>6. quantum_aux' \in Nat /\ \E q \in Quantums \cup {0} : quantum_aux' <= q
  <2>1. quantum_aux \in Nat /\ quantum_aux # 0
    BY <1>1 DEF Inv, Sigue
  <2>2. PICK q \in Quantums \cup {0} : quantum_aux <= q
    BY DEF Inv
  <2>3. q \in Nat
    BY QuantumAssumption
  <2>4. quantum_aux' \in Nat /\ quantum_aux' <= q
    BY ONLY <1>1, <2>1, <2>2, <2>3
  <2> QED
    BY ONLY <2>4, q \in Quantums \cup {0}
<1>7. paquete' # <<>> <=> estado' \in {"nucleo", "aborto"}
  BY ONLY <1>1, Inv DEF Inv
<1>8. EnCPU'
  BY ONLY <1>3, <1>5, n.caida \/ n.pc + 1 \in Posiciones DEF EnCPU
<1>9. estado' = "cpu"
  BY ONLY <1>1, <1>2
<1> QED
  BY ONLY <1>2, <1>6, <1>7, <1>8, <1>9, programaBloqueado' \in BOOLEAN, compartida' \in Valores
     DEF Inv

\* What an instruction that changes nothing else leaves.
LEMMA DeNada ==
  ASSUME Inv, Nada
  PROVE  programaBloqueado' \in BOOLEAN /\ compartida' \in Valores
BY DEF Inv, Nada

\* variables x keeps the invariant.
LEMMA VariablesBien ==
  ASSUME Inv, NEW ins, Variables(ins)
  PROVE  Inv'
<1>1. PICK n : n = definirVariable(cpu, ins.x)
  OBVIOUS
<1>2. ins.op = "variables" /\ Ejecuta(ins, n) /\ Nada
  BY ONLY <1>1, Variables(ins) DEF Variables
<1>3. /\ Buena(cpu) /\ cpu.pc \in Posiciones /\ ins \in Permitidas[cpu.pc + 1]
      /\ cpu.pc + 1 \in Posiciones
  BY <1>2, AlEjecutar
<1>4. Declara(cpu, ins.x)
  BY <1>2, <1>3, DeInstruccion DEF Declara
<1>5. Buena(n) /\ n.pc = cpu.pc
  BY <1>1, <1>3, <1>4, DefineBien
<1>6. n.caida \/ n.pc + 1 \in Posiciones
  BY ONLY <1>3, <1>5
<1> QED
  BY <1>2, <1>5, <1>6, DeNada, EjecutaBien

\* So does x = v.
LEMMA AsignaValorBien ==
  ASSUME Inv, NEW ins, AsignaValor(ins)
  PROVE  Inv'
<1>1. PICK n : n = ConAsigna(cpu, ins.x, ins.v)
  OBVIOUS
<1>2. ins.op = "valor" /\ Ejecuta(ins, n) /\ Nada
  BY ONLY <1>1, AsignaValor(ins) DEF AsignaValor
<1>3. /\ Buena(cpu) /\ cpu.pc \in Posiciones /\ ins \in Permitidas[cpu.pc + 1]
      /\ cpu.pc + 1 \in Posiciones
  BY <1>2, AlEjecutar
<1>4. ins.v \in Valores
  BY <1>2, <1>3, DeInstruccion
<1>5. Buena(n) /\ n.pc = cpu.pc
  BY <1>1, <1>3, <1>4, ConAsignaBien
<1>6. n.caida \/ n.pc + 1 \in Posiciones
  BY ONLY <1>3, <1>5
<1> QED
  BY <1>2, <1>5, <1>6, DeNada, EjecutaBien

\* So does x = y.
LEMMA CopiaBien ==
  ASSUME Inv, NEW ins, Copia(ins)
  PROVE  Inv'
<1>1. PICK n : n = ConCopia(cpu, ins.x, ins.y)
  OBVIOUS
<1>2. ins.op = "copia" /\ Ejecuta(ins, n) /\ Nada
  BY ONLY <1>1, Copia(ins) DEF Copia
<1>3. Buena(cpu) /\ cpu.pc + 1 \in Posiciones
  BY <1>2, AlEjecutar
<1>4. Buena(n) /\ n.pc = cpu.pc
  BY <1>1, <1>3, ConCopiaBien
<1>5. n.caida \/ n.pc + 1 \in Posiciones
  BY ONLY <1>3, <1>4
<1> QED
  BY <1>2, <1>4, <1>5, DeNada, EjecutaBien

\* So does x = !s.
LEMMA LeeCompartidaBien ==
  ASSUME Inv, NEW ins, LeeCompartida(ins)
  PROVE  Inv'
<1>1. PICK n : n = ConAsigna(cpu, ins.x, compartida)
  OBVIOUS
<1>2. ins.op = "lee" /\ Ejecuta(ins, n) /\ Nada
  BY ONLY <1>1, LeeCompartida(ins) DEF LeeCompartida
<1>3. Buena(cpu) /\ cpu.pc + 1 \in Posiciones
  BY <1>2, AlEjecutar
<1>4. compartida \in Valores
  BY ONLY Inv DEF Inv
<1>5. Buena(n) /\ n.pc = cpu.pc
  BY <1>1, <1>3, <1>4, ConAsignaBien
<1>6. n.caida \/ n.pc + 1 \in Posiciones
  BY ONLY <1>3, <1>5
<1> QED
  BY <1>2, <1>5, <1>6, DeNada, EjecutaBien

\* So does !s = y.
LEMMA EscribeCompartidaBien ==
  ASSUME Inv, NEW ins, EscribeCompartida(ins)
  PROVE  Inv'
<1>1. PICK n : n = obtenerPosicionVariable(cpu, {ins.y})
  OBVIOUS
<1>2. /\ ins.op = "escribe" /\ Ejecuta(ins, n)
      /\ compartida' = IF n.caida THEN compartida ELSE Valor(n, ins.y)
      /\ programaBloqueado' = programaBloqueado
  BY ONLY <1>1, EscribeCompartida(ins) DEF EscribeCompartida
<1>3. Buena(cpu) /\ cpu.pc + 1 \in Posiciones
  BY <1>2, AlEjecutar
<1>4. Buena(n) /\ n.pc = cpu.pc
  BY <1>1, <1>3, ObtieneBien
<1>5. n.caida \/ n.pc + 1 \in Posiciones
  BY ONLY <1>3, <1>4
<1>6. programaBloqueado' \in BOOLEAN /\ compartida \in Valores
  BY ONLY <1>2, Inv DEF Inv
<1>7. Valor(n, ins.y) \in Valores
  BY <1>4, ValorBien DEF Valor, Buena, Entera
<1>8. compartida' \in Valores
  BY ONLY <1>2, <1>6, <1>7
<1> QED
  BY <1>2, <1>4, <1>5, <1>6, <1>8, EjecutaBien

\* So does a call: the block it gets is free or new.
LEMMA LlamaSigue ==
  ASSUME Inv, NEW ins, Llama(ins)
  PROVE  Inv'
<1>1. PICK reusa \in BOOLEAN :
        /\ reusa => cpu.size < Len(cpu.lista) /\ cpu.ctx[cpu.lista[cpu.size + 1]] = LIBRE
        /\ Ejecuta(ins, ConLlamada(cpu, ins, reusa))
  BY ONLY Llama(ins) DEF Llama
<1>2. ins.op = "llama" /\ cpu.size < MaxContextos /\ Nada
  BY ONLY Llama(ins) DEF Llama
<1>3. PICK n : n = ConLlamada(cpu, ins, reusa)
  OBVIOUS
<1>4. Ejecuta(ins, n)
  BY ONLY <1>1, <1>3
<1>5. /\ Buena(cpu) /\ cpu.pc \in Posiciones /\ ins \in Permitidas[cpu.pc + 1]
      /\ cpu.pc + 1 \in Posiciones
  BY <1>2, <1>4, AlEjecutar
<1>6. ins.l \in DOMAIN Etiquetas /\ Len(ins.args) \in 0..2
  BY <1>2, <1>5, DeInstruccion
<1>7. reusa = TRUE => Reusable(cpu)
  BY ONLY <1>1 DEF Reusable
<1>8. Buena(n) /\ n.pc + 1 \in Posiciones
  BY <1>2, <1>3, <1>5, <1>6, <1>7, ConLlamadaBien
<1>9. n.caida \/ n.pc + 1 \in Posiciones
  BY ONLY <1>8
<1> QED
  BY <1>2, <1>4, <1>8, <1>9, DeNada, EjecutaBien

\* So does a return: retVar is still a word of the stack.
LEMMA RetornaSigue ==
  ASSUME Inv, NEW ins, Retorna(ins)
  PROVE  Inv'
<1>1. PICK n : n = obtenerPosicionVariable(cpu, {ins.y})
  OBVIOUS
<1>2. PICK r : r = IF n.caida THEN n ELSE retornar(n, Valor(n, ins.y))
  OBVIOUS
<1>3. ins.op = "return" /\ cpu.size > 1 /\ Ejecuta(ins, r) /\ Nada
  BY ONLY <1>1, <1>2, Retorna(ins) DEF Retorna
<1>4. Buena(cpu)
  BY <1>3, AlEjecutar
<1>5. Buena(r) /\ (~r.caida => r.pc + 1 \in Posiciones)
  BY <1>1, <1>2, <1>3, <1>4, ConRetornoBien
<1>6. r.caida \/ r.pc + 1 \in Posiciones
  BY ONLY <1>5
<1> QED
  BY <1>3, <1>5, <1>6, DeNada, EjecutaBien

\* So does a jump.
LEMMA SaltaBien ==
  ASSUME Inv, NEW ins, Salta(ins)
  PROVE  Inv'
<1>1. PICK n : n = irAlLabel(cpu, ins.l)
  OBVIOUS
<1>2. ins.op = "goto" /\ Ejecuta(ins, n) /\ Nada
  BY ONLY <1>1, Salta(ins) DEF Salta
<1>3. Buena(cpu) /\ cpu.pc \in Posiciones /\ ins \in Permitidas[cpu.pc + 1]
  BY <1>2, AlEjecutar
<1>4. ins.l \in DOMAIN Etiquetas
  BY <1>2, <1>3, DeInstruccion
<1>5. PICK e, x : e = Etiquetas[ins.l] /\ x = e - 1
  OBVIOUS
<1>6. e \in Posiciones /\ e \in Int
  BY <1>4, <1>5, EtiquetasAssumption DEF Posiciones
<1>7. x \in Int /\ x + 1 = e
  BY ONLY <1>5, <1>6
<1>8. n = [cpu EXCEPT !.pc = x]
  BY ONLY <1>1, <1>3, <1>5 DEF irAlLabel, Buena, Entera
<1>9. Buena(n) /\ n.pc = x
  BY <1>3, <1>7, <1>8, PcBien
<1>10. n.caida \/ n.pc + 1 \in Posiciones
  BY ONLY <1>6, <1>7, <1>9
<1> QED
  BY <1>2, <1>9, <1>10, DeNada, EjecutaBien

\* So does an instruction that waits.
LEMMA EsperaBien ==
  ASSUME Inv, NEW ins, Espera(ins)
  PROVE  Inv'
<1>1. /\ ins.op = "wait" /\ Ejecuta(ins, cpu) /\ programaBloqueado' \in BOOLEAN
      /\ compartida' = compartida
  BY ONLY Espera(ins) DEF Espera
<1>2. Buena(cpu) /\ cpu.pc + 1 \in Posiciones
  BY <1>1, AlEjecutar
<1>3. compartida' \in Valores
  BY ONLY <1>1, Inv DEF Inv
<1> QED
  BY <1>1, <1>2, <1>3, EjecutaBien

\* Without its PCB the CPU is as it was before it came.
LEMMA QuedaAfuera ==
  ASSUME Inv, estado = "cpu", ~cpu.caida, cpu' = SinPCB(cpu),
         estado' # "aborto" => ~cpu.programaAbortado
  PROVE  Afuera'
<1>1. Buena(cpu)
  BY ONLY Inv, estado = "cpu" DEF Inv, EnCPU
<1>2. cpu \in Maquinas /\ (cpu.fuera => cpu.programaAbortado \/ cpu.caida)
  BY ONLY <1>1 DEF Buena, Entera
<1>3. /\ cpu' \in Maquinas /\ cpu'.fuera = cpu.fuera
      /\ cpu'.programaAbortado = cpu.programaAbortado /\ cpu'.caida = cpu.caida
      /\ cpu'.size = 0 /\ cpu'.lista = <<>> /\ cpu'.ctx = <<>>
  BY <1>2, SinPCBEs
<1> QED
  BY ONLY <1>2, <1>3, ~cpu.caida, estado' # "aborto" => ~cpu.programaAbortado DEF Afuera

\* So does the end of the program.
LEMMA FinalizaBien ==
  ASSUME Inv, NEW ins, Finaliza(ins)
  PROVE  Inv'
<1>1. /\ Sigue
      /\ \E i \in Posiciones : /\ ins \in Permitidas[i + 1]
                               /\ codigo[i] \in {SIN_LEER, ins}
                               /\ Literal(i) = Sentencia(cpu)
                               /\ codigo' = [codigo EXCEPT ![i] = ins]
      /\ cpu' = IF Vivo(cpu) THEN SinPCB(cpu) ELSE Cae(cpu)
      /\ estado' = IF Vivo(cpu) THEN "fin" ELSE estado
      /\ paquete' = paquete /\ quantum_aux' = quantum_aux /\ Nada
  BY ONLY Finaliza(ins) DEF Finaliza
<1>2. /\ estado = "cpu" /\ Buena(cpu) /\ ~cpu.caida /\ ~cpu.programaAbortado
      /\ codigo' \in [Posiciones -> Instrucciones \cup {SIN_LEER}]
  BY <1>1, AlCorrer
<1>3. programaBloqueado' \in BOOLEAN /\ compartida' \in Valores
  BY <1>1, DeNada
<1>4. /\ quantum_aux' \in Nat /\ (\E q \in Quantums \cup {0} : quantum_aux' <= q)
      /\ paquete' = <<>>
  BY ONLY <1>1, <1>2, Inv DEF Inv
<1>5. CASE Vivo(cpu)
  <2>1. estado' = "fin" /\ cpu' = SinPCB(cpu)
    BY ONLY <1>1, <1>5
  <2>2. Afuera'
    BY <1>2, <2>1, QuedaAfuera
  <2> QED
    BY ONLY <1>2, <1>3, <1>4, <2>1, <2>2 DEF Inv
<1>6. CASE ~Vivo(cpu)
  <2>1. estado' = "cpu" /\ cpu' = Cae(cpu)
    BY ONLY <1>1, <1>2, <1>6
  <2>2. EnCPU'
    BY <1>2, <2>1, CaeBien DEF EnCPU
  <2> QED
    BY ONLY <1>2, <1>3, <1>4, <2>1, <2>2 DEF Inv
<1> QED
  BY <1>5, <1>6

\* So does the arrival of a PCB.
LEMMA RecibeBien ==
  ASSUME Inv, Recibe
  PROVE  Inv'
<1>1. PICK d : d = desserializarPCB(cpu, paquete)
  OBVIOUS
<1>2. /\ estado = "nucleo" /\ cpu' = [d EXCEPT !.programaAbortado = FALSE]
      /\ quantum_aux' \in Quantums /\ programaBloqueado' = FALSE /\ estado' = "cpu"
      /\ paquete' = <<>> /\ codigo' = codigo /\ compartida' = compartida
  BY ONLY <1>1, Recibe DEF Recibe
<1>3. Buena(d) /\ d.pc \in Posiciones
  BY ONLY <1>1, <1>2, Inv DEF Inv, EnViaje
<1>4. d.programaAbortado = FALSE
  <2>1. cpu \in Maquinas /\ ~cpu.programaAbortado
    BY ONLY <1>2, Inv DEF Inv, Afuera
  <2>2. cpu.programaAbortado \in BOOLEAN
    BY <2>1, DeMaquinas
  <2>3. d.programaAbortado = cpu.programaAbortado
    BY ONLY <1>1, <2>1 DEF desserializarPCB, Maquinas
  <2> QED
    BY ONLY <2>1, <2>2, <2>3
<1>5. cpu' = d
  <2>1. d \in Maquinas
    BY ONLY <1>3 DEF Buena, Entera
  <2> QED
    BY ONLY <1>2, <1>4, <2>1 DEF Maquinas
<1>6. EnCPU'
  BY ONLY <1>3, <1>5 DEF EnCPU
<1>7. quantum_aux' \in Nat /\ \E q \in Quantums \cup {0} : quantum_aux' <= q
  <2>1. quantum_aux' \in Nat
    BY <1>2, QuantumAssumption
  <2>2. quantum_aux' \in Quantums \cup {0} /\ quantum_aux' <= quantum_aux'
    BY ONLY <1>2, <2>1
  <2> QED
    BY ONLY <2>1, <2>2
<1>8. codigo' \in [Posiciones -> Instrucciones \cup {SIN_LEER}] /\ compartida' \in Valores
  BY ONLY <1>2, Inv DEF Inv
<1> QED
  BY ONLY <1>2, <1>6, <1>7, <1>8 DEF Inv

\* So does its departure: what is packed is read again as it was.
LEMMA EntregaBien ==
  ASSUME Inv, Entrega
  PROVE  Inv'
<1>1. /\ estado = "cpu" /\ ~cpu.caida
      /\ UNCHANGED <<codigo, quantum_aux, programaBloqueado, compartida>>
  BY ONLY Entrega DEF Entrega
<1>2. Buena(cpu) /\ cpu.pc \in Posiciones /\ paquete = <<>>
  BY ONLY <1>1, Inv DEF Inv, EnCPU
<1>3. /\ codigo' \in [Posiciones -> Instrucciones \cup {SIN_LEER}]
      /\ quantum_aux' \in Nat /\ (\E q \in Quantums \cup {0} : quantum_aux' <= q)
      /\ programaBloqueado' \in BOOLEAN /\ compartida' \in Valores
  BY ONLY <1>1, Inv DEF Inv
<1>4. CASE cpu' = Cae(cpu) /\ estado' = estado /\ paquete' = paquete
  <2>1. EnCPU'
    BY <1>2, <1>4, CaeBien DEF EnCPU
  <2> QED
    BY ONLY <1>1, <1>2, <1>3, <1>4, <2>1 DEF Inv
<1>5. CASE /\ \A i \in 1..cpu.size : Contextos(cpu)[i] # LIBRE
           /\ paquete' = SubSeq(serializarPCB(cpu), 1, sizeTotal(cpu))
           /\ estado' = IF cpu.programaAbortado THEN "aborto" ELSE "nucleo"
           /\ cpu' = SinPCB(cpu)
  <2>1. /\ EnViaje(desserializarPCB(SinPCB(cpu), serializarPCB(cpu)))
        /\ serializarPCB(cpu) # <<>>
        /\ SubSeq(serializarPCB(cpu), 1, sizeTotal(cpu)) = serializarPCB(cpu)
    BY <1>2, <1>5, ViajeBien
  <2>2. EnViaje(desserializarPCB(cpu', paquete')) /\ paquete' # <<>>
    BY ONLY <1>5, <2>1
  <2>3. Afuera'
    <3>1. estado' # "aborto" => ~cpu.programaAbortado
      BY ONLY <1>5
    <3> QED
      BY <1>1, <1>5, <3>1, QuedaAfuera
  <2>4. estado' \in {"nucleo", "aborto"}
    BY ONLY <1>5
  <2>5. EnViaje(desserializarPCB(cpu, paquete))'
    BY ONLY <2>2 DEF EnViaje
  <2> QED
    BY ONLY <1>3, <2>2, <2>3, <2>4, <2>5 DEF Inv
<1> QED
  BY ONLY <1>4, <1>5, Entrega DEF Entrega

\* Every step keeps the invariant.
LEMMA InvSigue ==
  ASSUME Inv, [Next]_vars
  PROVE  Inv'
<1>1. CASE Recibe
  BY <1>1, RecibeBien
<1>2. ASSUME NEW ins \in Instrucciones,
             \/ Variables(ins) \/ AsignaValor(ins) \/ Copia(ins) \/ LeeCompartida(ins)
             \/ EscribeCompartida(ins) \/ Llama(ins) \/ Retorna(ins) \/ Salta(ins) \/ Espera(ins)
             \/ Finaliza(ins)
      PROVE  Inv'
  BY <1>2, VariablesBien, AsignaValorBien, CopiaBien, LeeCompartidaBien, EscribeCompartidaBien,
     LlamaSigue, RetornaSigue, SaltaBien, EsperaBien, FinalizaBien
<1>3. CASE Entrega
  BY <1>3, EntregaBien
<1>4. CASE UNCHANGED vars
  BY ONLY <1>4, Inv DEF Inv, vars, EnCPU, Afuera, EnViaje
<1> QED
  BY ONLY <1>1, <1>2, <1>3, <1>4, [Next]_vars DEF Next

\* The invariant holds.
THEOREM Invariante == Spec => []Inv
<1>1. Init => Inv
  BY InvInicial
<1>2. Inv /\ [Next]_vars => Inv'
  BY InvSigue
<1> QED
  BY <1>1, <1>2, PTL DEF Spec

\* TypeOK: the types of the state, with the pc of a running process in the program
\* after any jump, call or return.
THEOREM TypeOKSiempre == Spec => []TypeOK
<1>1. Inv => TypeOK
  <2> SUFFICES ASSUME Inv PROVE TypeOK
    OBVIOUS
  <2>1. /\ codigo \in [Posiciones -> Instrucciones \cup {SIN_LEER}]
        /\ estado \in {"nucleo", "cpu", "fin", "aborto"}
        /\ paquete # <<>> <=> estado \in {"nucleo", "aborto"}
        /\ quantum_aux \in Nat /\ \E q \in Quantums \cup {0} : quantum_aux <= q
        /\ programaBloqueado \in BOOLEAN
        /\ estado = "cpu" /\ ~cpu.caida => cpu.pc \in Posiciones
    BY ONLY Inv DEF Inv, EnCPU
  <2>2. /\ cpu.size \in 0..MaxContextos /\ cpu.size <= Len(cpu.lista)
        /\ \A n \in DOMAIN cpu.lista : cpu.lista[n] \in DOMAIN cpu.ctx
        /\ cpu \in Maquinas
    <3>1. CASE estado = "cpu"
      <4>1. Buena(cpu)
        BY ONLY <3>1, Inv DEF Inv, EnCPU
      <4>2. /\ cpu.size \in 1..MaxContextos /\ cpu.size <= Len(cpu.lista)
            /\ \A n \in DOMAIN cpu.lista : cpu.lista[n] \in DOMAIN cpu.ctx
            /\ cpu \in Maquinas
        BY ONLY <4>1 DEF Buena, Entera
      <4> QED
        BY ONLY <4>2
    <3>2. CASE estado # "cpu"
      <4>1. cpu \in Maquinas /\ cpu.size = 0 /\ cpu.lista = <<>>
        BY ONLY <3>2, Inv DEF Inv, Afuera
      <4>2. MaxContextos \in Nat
        BY MaxAssumption
      <4> QED
        BY ONLY <4>1, <4>2
    <3> QED
      BY <3>1, <3>2
  <2>3. cpu.ctx \in Seq(Contexto \cup {LIBRE}) /\ DOMAIN cpu.memoria = Celdas
    BY <2>2, DeMaquinas
  <2> QED
    BY ONLY <2>1, <2>2, <2>3 DEF TypeOK
<1> QED
  BY <1>1, Invariante, PTL

\* FueraSoloAbortado: a process that wrote outside its stack is not run any more.
THEOREM FueraSoloAbortadoSiempre == Spec => []FueraSoloAbortado
<1>1. Inv => FueraSoloAbortado
  <2> SUFFICES ASSUME Inv PROVE FueraSoloAbortado
    OBVIOUS
  <2>1. CASE estado = "cpu"
    BY ONLY <2>1, Inv DEF Inv, EnCPU, Buena, Entera, FueraSoloAbortado
  <2>2. CASE estado # "cpu"
    BY ONLY <2>2, Inv DEF Inv, Afuera, FueraSoloAbortado
  <2> QED
    BY <2>1, <2>2
<1> QED
  BY <1>1, Invariante, PTL

\* IdaYVuelta: a PCB packed at any instruction and unpacked in another CPU is the
\* same, and takes what was counted for it.
THEOREM IdaYVueltaSiempre == Spec => []IdaYVuelta
<1>1. Inv => IdaYVuelta
  <2> SUFFICES ASSUME Inv, estado = "cpu", ~cpu.caida,
                      \A i \in 1..cpu.size : Contextos(cpu)[i] # LIBRE,
                      NEW llega, llega = desserializarPCB(SinPCB(cpu), serializarPCB(cpu))
               PROVE  /\ Contextos(llega) = Contextos(cpu)
                      /\ llega.pc = cpu.pc /\ llega.indice = cpu.indice
                      /\ llega.etiquetas = cpu.etiquetas
                      /\ Len(serializarPCB(cpu)) = sizeTotal(cpu)
    BY DEF IdaYVuelta
  <2>1. Buena(cpu) /\ cpu.pc \in Posiciones
    BY ONLY Inv, estado = "cpu", ~cpu.caida DEF Inv, EnCPU
  <2>2. llega = Llegada(cpu)
    BY <2>1, ViajeBien
  <2>3. EnPCB(cpu)
    BY <2>1, SePuedeEmpacar
  <2>4. Len(serializarPCB(cpu)) = sizeTotal(cpu)
    BY <2>3, PCBVuelve
  <2>5. /\ Contextos(llega) = Contextos(cpu)
        /\ llega.pc = cpu.pc /\ llega.indice = cpu.indice /\ llega.etiquetas = cpu.etiquetas
    BY <2>1, <2>2, DeLlegada
  <2> QED
    BY ONLY <2>4, <2>5
<1> QED
  BY <1>1, Invariante, PTL

\* LeerExacta: the CPU runs the bytes of the instruction at its pc and no others,
\* and no request goes past the end of its page or of the code.
THEOREM LeerExactaSiempre == Spec => []LeerExacta
<1>1. Inv => LeerExacta
  <2> SUFFICES ASSUME Inv, Sigue PROVE LeerExacta
    BY DEF LeerExacta
  <2>1. cpu.pc \in Posiciones /\ cpu.indice = FlattenSeq(Indice)
    BY ONLY Inv, Sigue DEF Inv, Sigue, EnCPU, Buena, Entera
  <2>2. /\ Sentencia(cpu) = Literal(cpu.pc)
        /\ \A k \in DOMAIN Pedidos(cpu) : /\ Pedidos(cpu)[k][1] < PaginasDeCodigo
                                          /\ Pedidos(cpu)[k][2] + Pedidos(cpu)[k][3] <= tamanioPag
    BY <2>1, LeeLaDelPc
  <2> QED
    BY ONLY <2>2 DEF LeerExacta
<1> QED
  BY <1>1, Invariante, PTL

\* The addresses of a context are of words of the stack.
LEMMA PalabrasDelContexto ==
  ASSUME NEW c \in Contexto, NEW b, EnLaPila(c, b), NEW s, s = SusDirecciones(c)
  PROVE  \A j \in 1..Len(s) : Palabra(s[j])
<1>1. PICK A, V, D : A = c.args /\ V = c.vars /\ D = [y \in DOMAIN V |-> V[y].direccion]
  OBVIOUS
<1>2. A \in Seq(Direcciones) /\ V \in Seq(Declaradas)
  BY <1>1, DelContexto
<1>3. \A y \in DOMAIN V : V[y].direccion \in Direcciones
  <2>1. ASSUME NEW w \in Declaradas PROVE w.direccion \in Direcciones
    BY DEF Declaradas
  <2>2. \A y \in DOMAIN V : V[y] \in Declaradas
    BY ONLY <1>2
  <2> QED
    BY ONLY <2>1, <2>2
<1>4. D \in Seq(Direcciones) /\ Len(D) = Len(V) /\ Len(A) \in Nat /\ Len(V) \in Nat
  BY ONLY <1>1, <1>2, <1>3
<1>5. s = A \o D
  BY ONLY <1>1, s = SusDirecciones(c) DEF SusDirecciones
<1>6. /\ \A y \in DOMAIN A : Palabra(A[y])
      /\ \A y \in DOMAIN D : Palabra(D[y])
  BY ONLY <1>1, EnLaPila(c, b) DEF EnLaPila
<1>7. ASSUME NEW j \in 1..Len(s) PROVE Palabra(s[j])
  <2>1. CASE j <= Len(A)
    <3>1. j \in DOMAIN A /\ s[j] = A[j]
      BY ONLY <1>2, <1>4, <1>5, <2>1, j \in 1..Len(s)
    <3> QED
      BY ONLY <1>6, <3>1
  <2>2. CASE ~(j <= Len(A))
    <3>1. j - Len(A) \in DOMAIN D /\ s[j] = D[j - Len(A)]
      BY ONLY <1>2, <1>4, <1>5, <2>2, j \in 1..Len(s)
    <3> QED
      BY ONLY <1>6, <3>1
  <2> QED
    BY <2>1, <2>2
<1> QED
  BY <1>7

\* The addresses of the stack, from the bottom up.
LEMMA TodasCrecen ==
  ASSUME NEW m, Buena(m), Sana(m), NEW todas,
         todas = FlattenSeq([i \in 1..m.size |-> SusDirecciones(Contextos(m)[i])])
  PROVE  /\ \A n \in DOMAIN todas : Palabra(todas[n])
         /\ \A n \in 1..(Len(todas) - 1) : Puntero(todas[n]) < Puntero(todas[n + 1])
<1>1. PICK k, C, ss : /\ k = m.size /\ C = Contextos(m)
                      /\ ss = [i \in 1..k |-> SusDirecciones(C[i])]
  OBVIOUS
<1>2. k \in Nat /\ todas = FlattenSeq(ss)
  <2>1. k \in Nat
    BY <1>1, DeActual
  <2> QED
    BY ONLY <1>1, <2>1, todas = FlattenSeq([i \in 1..m.size |-> SusDirecciones(Contextos(m)[i])])
<1>3. ASSUME NEW i \in 1..k
      PROVE  /\ ss[i] \in Seq(Direcciones) /\ Crecen(ss[i])
             /\ \A j \in 1..Len(ss[i]) : Palabra(ss[i][j])
             /\ \A i2 \in 1..k : i < i2 => Debajo(ss[i], ss[i2])
  <2>1. C[i] \in Contexto /\ EnLaPila(C[i], m.lista[i])
    BY <1>1, DeContextos
  <2>2. ss[i] = SusDirecciones(C[i])
    BY ONLY <1>1, i \in 1..k
  <2>3. ss[i] \in Seq(Direcciones)
    BY <2>1, <2>2, LasSuyas
  <2>4. \A j \in 1..Len(ss[i]) : Palabra(ss[i][j])
    BY <2>1, <2>2, PalabrasDelContexto
  <2>5. Crecen(ss[i]) /\ \A i2 \in 1..k : i < i2 => Debajo(ss[i], ss[i2])
    BY ONLY <1>1, i \in 1..k, Buena(m), Sana(m) DEF Buena, Apilada
  <2> QED
    BY ONLY <2>3, <2>4, <2>5
<1>4. PICK S : S = Seq(Direcciones)
  OBVIOUS
<1>5. ss \in Seq(S) /\ Len(ss) = k /\ ss \in Seq(Seq(Direcciones))
  <2>1. \A i \in 1..k : ss[i] \in S
    BY ONLY <1>3, <1>4
  <2>2. ss \in [1..k -> S]
    BY ONLY <1>1, <2>1
  <2>3. ss \in Seq(S) /\ Len(ss) = k
    BY ONLY <1>2, <2>2
  <2> QED
    BY ONLY <1>4, <2>3
<1>6. PICK L : L = Largos(ss)
  OBVIOUS
<1>7. L \in [1..k -> Nat] /\ \A i \in 1..k : L[i] = Len(ss[i])
  <2>1. L = [i \in 1..k |-> Len(ss[i])]
    BY ONLY <1>5, <1>6 DEF Largos
  <2>2. \A i \in 1..k : Len(ss[i]) \in Nat
    BY ONLY <1>3
  <2> QED
    BY ONLY <2>1, <2>2
<1>8. PICK f : Suma(f, L, k)
  BY <1>2, <1>7, Acumula
<1>9. /\ todas \in Seq(Direcciones) /\ Len(todas) = f[k]
      /\ \A i \in 1..k : \A j \in 1..L[i] : todas[f[i - 1] + j] = ss[i][j]
  <2>1. Suma(f, Largos(ss), Len(ss))
    BY ONLY <1>5, <1>6, <1>8
  <2>2. /\ FlattenSeq(ss) \in Seq(Direcciones) /\ Len(FlattenSeq(ss)) = f[Len(ss)]
        /\ \A i \in 1..Len(ss) : \A j \in 1..Len(ss[i]) :
             FlattenSeq(ss)[f[i - 1] + j] = ss[i][j]
    BY <1>5, <2>1, Aplanada, SMTT(40)
  <2> QED
    BY ONLY <1>2, <1>5, <1>7, <2>2
<1>10. /\ f[k] \in Nat
       /\ \A i \in 1..k : /\ i - 1 \in 0..k /\ f[i - 1] \in Nat /\ f[i] \in Nat /\ L[i] \in Nat
                          /\ f[i] = f[i - 1] + L[i]
  BY <1>2, <1>7, <1>8, DeSuma
<1>11. \A n \in 1..f[k] : \E i \in 1..k : \E j \in 1..L[i] : n = f[i - 1] + j
  <2>1. k \in Nat /\ L \in [1..k -> Nat] /\ Suma(f, L, k)
    BY ONLY <1>2, <1>7, <1>8
  <2> QED
    BY ONLY <2>1, EnUno
<1>12. \A j \in 0..k : \A i \in 0..j : f[i] <= f[j]
  BY <1>2, <1>7, <1>8, Crece
<1>13. ASSUME NEW n \in 1..f[k] PROVE Palabra(todas[n])
  <2>1. PICK i \in 1..k : \E j \in 1..L[i] : n = f[i - 1] + j
    BY <1>11
  <2>2. PICK j \in 1..L[i] : n = f[i - 1] + j
    BY <2>1
  <2>3. todas[n] = ss[i][j]
    BY ONLY <1>9, <2>2, i \in 1..k, j \in 1..L[i]
  <2>4. j \in 1..Len(ss[i])
    BY ONLY <1>7, i \in 1..k, j \in 1..L[i]
  <2> QED
    BY ONLY <1>3, <2>3, <2>4, i \in 1..k
<1>14. ASSUME NEW n \in 1..(f[k] - 1) PROVE Puntero(todas[n]) < Puntero(todas[n + 1])
  <2>1. n \in 1..f[k] /\ n + 1 \in 1..f[k]
    BY ONLY <1>10, n \in 1..(f[k] - 1)
  <2>2. PICK i \in 1..k : \E j \in 1..L[i] : n = f[i - 1] + j
    BY <1>11, <2>1
  <2>3. PICK j \in 1..L[i] : n = f[i - 1] + j
    BY <2>2
  <2>4. PICK i2 \in 1..k : \E j2 \in 1..L[i2] : n + 1 = f[i2 - 1] + j2
    BY <1>11, <2>1
  <2>5. PICK j2 \in 1..L[i2] : n + 1 = f[i2 - 1] + j2
    BY <2>4
  <2>6. todas[n] = ss[i][j] /\ todas[n + 1] = ss[i2][j2]
    BY ONLY <1>9, <2>3, <2>5, i \in 1..k, j \in 1..L[i], i2 \in 1..k, j2 \in 1..L[i2]
  <2>7. j \in DOMAIN ss[i] /\ j2 \in DOMAIN ss[i2]
    BY ONLY <1>3, <1>7, i \in 1..k, j \in 1..L[i], i2 \in 1..k, j2 \in 1..L[i2]
  <2>8. ~(i2 < i)
    <3> SUFFICES ASSUME i2 < i PROVE FALSE
      OBVIOUS
    <3>1. f[i2] <= f[i - 1]
      <4>1. i - 1 \in 0..k /\ i2 \in 0..(i - 1)
        BY ONLY <1>2, i2 < i, i \in 1..k, i2 \in 1..k
      <4> QED
        BY ONLY <1>12, <4>1
    <3>2. PICK a, b, c, l, l2 : /\ a = f[i2 - 1] /\ b = f[i2] /\ c = f[i - 1] /\ l = L[i] /\ l2 = L[i2]
      OBVIOUS
    <3>3. a \in Nat /\ b \in Nat /\ c \in Nat /\ l \in Nat /\ l2 \in Nat /\ b = a + l2
      BY ONLY <1>10, <3>2, i \in 1..k, i2 \in 1..k
    <3>4. b <= c /\ n = c + j /\ n + 1 = a + j2 /\ j \in 1..l /\ j2 \in 1..l2
      BY ONLY <2>3, <2>5, <3>1, <3>2, j \in 1..L[i], j2 \in 1..L[i2]
    <3>5. n \in Nat
      BY n \in 1..(f[k] - 1)
    <3> QED
      BY ONLY <3>3, <3>4, <3>5
  <2>9. CASE i < i2
    BY ONLY <1>3, <2>6, <2>7, <2>9, i \in 1..k, i2 \in 1..k DEF Debajo
  <2>10. CASE i = i2
    <3>1. j < j2
      <4>1. PICK c, l : c = f[i - 1] /\ l = L[i]
        OBVIOUS
      <4>2. c \in Nat /\ l \in Nat
        BY ONLY <1>10, <4>1, i \in 1..k
      <4>3. n = c + j /\ n + 1 = c + j2 /\ j \in 1..l /\ j2 \in 1..l
        BY ONLY <2>3, <2>5, <2>10, <4>1, j \in 1..L[i], j2 \in 1..L[i2]
      <4> QED
        BY ONLY <4>2, <4>3
    <3> QED
      BY ONLY <1>3, <2>6, <2>7, <2>10, <3>1, i \in 1..k DEF Crecen
  <2>11. i < i2 \/ i = i2
    BY ONLY <2>8, i \in 1..k, i2 \in 1..k
  <2> QED
    BY <2>9, <2>10, <2>11
<1>15. DOMAIN todas = 1..f[k]
  BY ONLY <1>9
<1> QED
  BY ONLY <1>9, <1>13, <1>14, <1>15

\* PilaOrdenada: the variables of a process are each in its own word of its stack,
\* from the bottom up, after any calls and returns.
THEOREM PilaOrdenadaSiempre == Spec => []PilaOrdenada
<1>1. Inv => PilaOrdenada
  <2> SUFFICES ASSUME Inv, estado = "cpu", ~cpu.caida, ~cpu.perdido, ~cpu.programaAbortado,
                      NEW todas,
                      todas = FlattenSeq([i \in 1..cpu.size |-> SusDirecciones(Contextos(cpu)[i])])
               PROVE  /\ \A n \in DOMAIN todas : <<todas[n].pagina, todas[n].offset>> \in Celdas
                      /\ \A n \in 1..(Len(todas) - 1) :
                           convertirDireccionAPuntero(todas[n]) < convertirDireccionAPuntero(todas[n + 1])
    BY DEF PilaOrdenada
  <2>1. Buena(cpu)
    BY ONLY Inv, estado = "cpu" DEF Inv, EnCPU
  <2>2. Sana(cpu)
    BY DEF Sana
  <2>3. /\ \A n \in DOMAIN todas : Palabra(todas[n])
        /\ \A n \in 1..(Len(todas) - 1) : Puntero(todas[n]) < Puntero(todas[n + 1])
    BY <2>1, <2>2, TodasCrecen
  <2> QED
    BY ONLY <2>3 DEF Palabra, Puntero
<1> QED
  BY <1>1, Invariante, PTL

=============================================================================
