------------------------------- MODULE MCSwap -------------------------------
(* Values of the constants of Swap for TLC. *)
EXTENDS SwapRefina, TLC

CONSTANTS p1, p2, p3, a, b

TresPids == {p1, p2, p3}
DosValores == {a, b}

\* Codes of one and two pages: three processes of two do not fit.
CodigosCortos == {<<a>>, <<b, a>>}

Simetria == Permutations(TresPids)
=============================================================================
