------------------------ MODULE MCStockReservations ------------------------
(***************************************************************************)
(* Small instances of StockReservations and StockBooks for TLC.            *)
(***************************************************************************)
EXTENDS StockBooks, TLC

CONSTANTS p1, p2, r1, r2, k1, k2, k3, k4

(* Two products, one of them scarce: two reservations cannot both have it. *)
TwoProducts == {p1, p2}
ScarceStock == (p1 :> 1) @@ (p2 :> 2)

Symmetry == Permutations(ReservationIds) \cup Permutations(Confirmers)
              \cup Permutations(Releasers)
=============================================================================
