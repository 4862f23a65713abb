----------------------------- MODULE StockBooks -----------------------------
(***************************************************************************)
(* StockReservations with two history variables: has a confirmation        *)
(* overwritten a reservation that was given back, and was one given back   *)
(* that was confirmed?  What the rows promise until then is stated here.   *)
(***************************************************************************)
EXTENDS StockReservations

VARIABLES resold,    \* history: a row went from RELEASED to CONFIRMED
          returned   \* history: a row went from CONFIRMED to RELEASED

booksVars == <<vars, resold, returned>>

Resells == \E r \in ReservationIds :
             status[r] = "RELEASED" /\ status'[r] = "CONFIRMED"
Returns == \E r \in ReservationIds :
             status[r] = "CONFIRMED" /\ status'[r] = "RELEASED"

BooksInit == Init /\ resold = FALSE /\ returned = FALSE
BooksNext == /\ Next
             /\ resold' = (resold \/ Resells)
             /\ returned' = (returned \/ Returns)
BooksSpec == BooksInit /\ [][BooksNext]_booksVars

-----------------------------------------------------------------------------
(* Free, held and sold units are exactly the stock until a reservation is  *)
(* confirmed after it was given back, and the reserved column is the sum   *)
(* of the pending holds until, besides, one is given back that was         *)
(* confirmed: duplicated, overlapping and interrupted calls do no harm.    *)
(* (release() and confirm() of PostgresReservationRepository.)             *)
BooksKept ==
  ~resold => \A p \in Products :
               /\ available[p] + Held(p) + Sold(p) = InitialStock[p]
               /\ ~returned => reserved[p] = Held(p)

(* Until then the rows and transactions implement the abstract ledger:     *)
(* every commit is one of its steps or none.                               *)
LedgerKept == Ledger!Init /\ [][resold' \/ Ledger!Next]_(Ledger!ledgerVars)
=============================================================================
