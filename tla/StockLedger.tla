---------------------------- MODULE StockLedger ----------------------------
(***************************************************************************)
(* What the inventory promises the rest of the shop, without saying how:   *)
(* a quantity of each product is free, and a hold takes some of it away    *)
(* until the hold is either sold or given back.  A sold hold may still be  *)
(* given back (a confirmed order is cancelled), a hold that was given back *)
(* is over: the goods are somebody else's from then on.                    *)
(*                                                                         *)
(* StockReservations (rows, row locks, stale reads) is checked and proved  *)
(* to implement this specification.                                        *)
(***************************************************************************)
EXTENDS Integers

CONSTANTS Products,      \* products with an inventory row
          HoldIds,       \* identities a hold can have
          MaxQuantity,   \* largest quantity of one product in one hold
          InitialStock   \* free quantity of each product at the start

VARIABLES free,    \* free[p]: quantity of p nobody holds
          hold,    \* hold[h]: where hold h is in its life
          taken    \* taken[h]: the quantities hold h took

ledgerVars == <<free, hold, taken>>

Init == /\ free = InitialStock
        /\ hold = [h \in HoldIds |-> "NONE"]
        /\ taken = [h \in HoldIds |-> [p \in Products |-> 0]]

Hold(h) == \E q \in [Products -> 0..MaxQuantity] :
             /\ hold[h] = "NONE"
             /\ \A p \in Products : q[p] <= free[p]
             /\ free' = [p \in Products |-> free[p] - q[p]]
             /\ hold' = [hold EXCEPT ![h] = "PENDING"]
             /\ taken' = [taken EXCEPT ![h] = q]

Sell(h) == /\ hold[h] = "PENDING"
           /\ hold' = [hold EXCEPT ![h] = "CONFIRMED"]
           /\ UNCHANGED <<free, taken>>

GiveBack(h) == /\ hold[h] \in {"PENDING", "CONFIRMED"}
               /\ free' = [p \in Products |-> free[p] + taken[h][p]]
               /\ hold' = [hold EXCEPT ![h] = "RELEASED"]
               /\ UNCHANGED taken

Next == \E h \in HoldIds : Hold(h) \/ Sell(h) \/ GiveBack(h)

Ledger == Init /\ [][Next]_ledgerVars

=============================================================================
