------------------------- MODULE MCStockAdjustment -------------------------
(***************************************************************************)
(* Small instances of StockAdjustment for TLC, of StockReservations with   *)
(* it.                                                                     *)
(***************************************************************************)
EXTENDS StockAdjustment, TLC

CONSTANTS p1, r1, k1, k2, w1, w2

OneProduct == {p1}
TwoUnits == (p1 :> 2)
Take == {[verb |-> "SUBTRACT", quantity |-> 1]}
AnyCommand == Take \cup {[verb |-> "ADD", quantity |-> 1],
                         [verb |-> "SET", quantity |-> 1]}

Symmetry == Permutations(Requesters)
=============================================================================
