----------------------------- MODULE SwapRefina -----------------------------
(***************************************************************************)
(* Swap implements Almacen: the pages of a process are, in ascending       *)
(* order, the pages of the file it owns.  The order is what stays the same *)
(* while compaction carries them off one at a time.                        *)
(***************************************************************************)
EXTENDS Swap

EnOrden(p) ==
  LET suyas == PaginasDe(p)
  IN  [n \in 1 .. Cardinality(suyas) |->
         disco[CHOOSE i \in suyas : Cardinality({j \in suyas : j < i}) = n - 1]]

\* Every page but 0 keeps what is written to it.
Firmes == 1 .. CANTIDAD_PAGINAS - 1

A == INSTANCE Almacen WITH guardado <- [p \in Pids |-> EnOrden(p)]

\* The UMC sees the SWAP as a store of pages: a process is admitted iff the free
\* pages suffice in total, its pages hold its code and then what was last
\* written to them (page 0 apart), and neither compaction nor the arrival or end
\* of other processes changes them.
ImplementaAlmacen == A!Spec
=============================================================================
