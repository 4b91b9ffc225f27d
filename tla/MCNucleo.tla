------------------------------ MODULE MCNucleo ------------------------------
(* Instances of Nucleo for TLC.                                             *)
EXTENDS NucleoRefina

CONSTANTS c1, c2, c3, k1, k2, main

UnaConsola == {c1}
DosConsolas == {c1, c2}
TresConsolas == {c1, c2, c3}
UnaCPU == {k1}
DosCPUs == {k1, k2}
SemCero == [s \in 1..NSem |-> 0]

SimetriaConsolas == Permutations(Consolas)
SimetriaTotal == Permutations(Consolas) \cup Permutations(CPUs)

=============================================================================
