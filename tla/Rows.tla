-------------------------------- MODULE Rows --------------------------------
(* What a loop over a list keeps of it: the elements at some positions, in *)
(* their order.                                                            *)
EXTENDS Integers, FiniteSets

\* The k-th smallest of some positions, and the rows at them.
Nth(positions, k) ==
  CHOOSE i \in positions : Cardinality({j \in positions : j <= i}) = k

RowsAt(rows, positions) == [k \in 1 .. Cardinality(positions) |-> rows[Nth(positions, k)]]
=============================================================================
