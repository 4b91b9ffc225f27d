------------------------------- MODULE MCUmc -------------------------------
(* Values of the constants of Umc for TLC. *)
EXTENDS Umc, TLC

CONSTANTS k1, k2, p1, p2, p3

UnaCPU == {k1}
DosCPUs == {k1, k2}
SoloElSegundo == {p2}
SoloElPrimero == {p1}
LosDosAlgoritmos == {"CLOCK", "MODIFICADO"}
DosPids == {p1, p2}
TresPids == {p1, p2, p3}

\* The first program reads two pages and writes a third; the second reads its
\* page of code and writes another.
AccesosDeDos ==
  ({"leer"} \X {p1} \X {0, 2}) \cup ({"leer"} \X {p2} \X {0})
    \cup ({"escribir"} \X {p1, p2} \X {1})

Simetria == Permutations(DosCPUs)
=============================================================================
