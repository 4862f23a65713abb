------------------------- MODULE StockReservations -------------------------
(***************************************************************************)
(* The inventory's reservation use cases at the grain the program really   *)
(* has: ReserveStock is one database transaction; ConfirmReservation and   *)
(* ReleaseStock read the reservation, decide on that copy, and only then   *)
(* run a transaction that locks the row and looks again -- not always at   *)
(* what matters.                                                           *)
(*                                                                         *)
(* A caller is a job worker or a request that may run one of the two       *)
(* read-then-write use cases; there is no limit on how often, on how many  *)
(* overlap, or on how many of them name the same reservation.  A caller    *)
(* may die, or its transaction roll back, between the read and the commit. *)
(***************************************************************************)
EXTENDS Integers, FiniteSets

CONSTANTS Products,        \* products that have an inventory row
          ReservationIds,  \* identities the reservations table can hand out
          MaxQuantity,     \* largest quantity of one product in one reservation
          InitialStock,    \* available quantity of each product at the start
          Confirmers,      \* callers of ConfirmReservation
          Releasers,       \* callers of ReleaseStock
          Idle             \* a caller that is running nothing

Callers == Confirmers \cup Releasers

ASSUME FinitenessAssumption == IsFiniteSet(ReservationIds)
ASSUME QuantityAssumption ==
         MaxQuantity \in Nat /\ InitialStock \in [Products -> Nat]
ASSUME CallerAssumption ==
         Confirmers \cap Releasers = {} /\ Idle \notin ReservationIds

VARIABLES available,   \* inventory.availableQuantity of each product
          reserved,    \* inventory.reservedQuantity of each product
          status,      \* status column of each reservation, "NONE" before it exists
          items,       \* quantities of each reservation's items
          expired,     \* reservations whose expiresAt lies in the past
          call         \* the reservation each caller has read and is about to write

vars == <<available, reserved, status, items, expired, call>>

ReservationStatus == {"PENDING", "CONFIRMED", "RELEASED", "EXPIRED"}
Quantities == [Products -> 0..MaxQuantity]
NoItems == [p \in Products |-> 0]

TypeOK == /\ available \in [Products -> Int]
          /\ reserved \in [Products -> Int]
          /\ status \in [ReservationIds -> ReservationStatus \cup {"NONE"}]
          /\ items \in [ReservationIds -> Quantities]
          /\ expired \in SUBSET ReservationIds
          /\ call \in [Callers -> ReservationIds \cup {Idle}]

Init == /\ available = InitialStock
        /\ reserved = NoItems
        /\ status = [r \in ReservationIds |-> "NONE"]
        /\ items = [r \in ReservationIds |-> NoItems]
        /\ expired = {}
        /\ call = [c \in Callers |-> Idle]

-----------------------------------------------------------------------------
(* ReserveStock.  The inventory rows stay locked from the check to the     *)
(* commit, so the whole transaction is one step; when one product is short *)
(* the transaction rolls back and nothing changes.                         *)

AnyStock(quantity) == TRUE    \* mutant: no check under the lock
InStock(quantity) == \A p \in Products : quantity[p] <= available[p]

Reserve(r, quantity) ==
  /\ status[r] = "NONE"
  /\ quantity # NoItems
  /\ InStock(quantity)
  /\ available' = [p \in Products |-> available[p] - quantity[p]]
  /\ reserved' = [p \in Products |-> reserved[p] + quantity[p]]
  /\ status' = [status EXCEPT ![r] = "PENDING"]
  /\ items' = [items EXCEPT ![r] = quantity]
  /\ UNCHANGED <<expired, call>>

(* The clock passes expiresAt.  No job looks for such reservations.        *)
TtlPasses(r) ==
  /\ status[r] # "NONE"
  /\ r \notin expired
  /\ expired' = expired \cup {r}
  /\ UNCHANGED <<available, reserved, status, items, call>>

(* ConfirmReservation up to the transaction: findById, then the entity's   *)
(* confirm() on that copy.                                                 *)
ReadForConfirm(c, r) ==
  /\ call[c] = Idle
  /\ status[r] = "PENDING"
  /\ r \notin expired
  /\ call' = [call EXCEPT ![c] = r]
  /\ UNCHANGED <<available, reserved, status, items, expired>>

(* The transaction: under the row lock it returns early only when the row  *)
(* is CONFIRMED by now; any other status is overwritten.                   *)
AlreadyConfirmed(r) == status[r] = "CONFIRMED"

CommitConfirm(c, r) ==
  /\ call[c] = r
  /\ call' = [call EXCEPT ![c] = Idle]
  /\ IF AlreadyConfirmed(r)
     THEN UNCHANGED <<reserved, status>>
     ELSE /\ reserved' = [p \in Products |-> reserved[p] - items[r][p]]
          /\ status' = [status EXCEPT ![r] = "CONFIRMED"]
  /\ UNCHANGED <<available, items, expired>>

(* ReleaseStock up to the transaction: release() accepts every status.     *)
ReadForRelease(c, r) ==
  /\ call[c] = Idle
  /\ status[r] # "NONE"
  /\ call' = [call EXCEPT ![c] = r]
  /\ UNCHANGED <<available, reserved, status, items, expired>>

(* The transaction: an early return when the row is RELEASED or EXPIRED by *)
(* now, otherwise both quantities move, whatever the status was.           *)
ReleaseAgain(r) == FALSE    \* mutant: no early return
AlreadyReleased(r) == status[r] \in {"RELEASED", "EXPIRED"}

NotRestored(r) == available    \* mutant: only the reserved column moves
Restored(r) == [p \in Products |-> available[p] + items[r][p]]

StatusWritten == "RELEASED"

CommitRelease(c, r) ==
  /\ call[c] = r
  /\ call' = [call EXCEPT ![c] = Idle]
  /\ IF AlreadyReleased(r)
     THEN UNCHANGED <<available, reserved, status>>
     ELSE /\ available' = Restored(r)
          /\ reserved' = [p \in Products |-> reserved[p] - items[r][p]]
          /\ status' = [status EXCEPT ![r] = StatusWritten]
  /\ UNCHANGED <<items, expired>>

(* The process dies, or the transaction rolls back.                        *)
Abort(c) ==
  /\ call[c] # Idle
  /\ call' = [call EXCEPT ![c] = Idle]
  /\ UNCHANGED <<available, reserved, status, items, expired>>

Next == \/ \E r \in ReservationIds, q \in Quantities : Reserve(r, q)
        \/ \E r \in ReservationIds : TtlPasses(r)
        \/ \E c \in Confirmers, r \in ReservationIds :
             ReadForConfirm(c, r) \/ CommitConfirm(c, r)
        \/ \E c \in Releasers, r \in ReservationIds :
             ReadForRelease(c, r) \/ CommitRelease(c, r)
        \/ \E c \in Callers : Abort(c)

Spec == Init /\ [][Next]_vars

(* A started use case gets to its commit (the queue retries a failed job); *)
(* nothing forces anybody to start one.                                    *)
Fairness ==
  /\ \A c \in Confirmers : WF_vars(\E r \in ReservationIds : CommitConfirm(c, r))
  /\ \A c \in Releasers : WF_vars(\E r \in ReservationIds : CommitRelease(c, r))
  /\ \A r \in ReservationIds : WF_vars(TtlPasses(r))

FairSpec == Spec /\ Fairness

-----------------------------------------------------------------------------
(* The units of p that reservations in status s account for: one element   *)
(* per unit, so that Cardinality adds the quantities up.                   *)
Units(st, it, p, s) ==
  {u \in ReservationIds \X (1..MaxQuantity) : st[u[1]] = s /\ u[2] <= it[u[1]][p]}

Held(p) == Cardinality(Units(status, items, p, "PENDING"))
Sold(p) == Cardinality(Units(status, items, p, "CONFIRMED"))

(* Stock never goes below zero, however many checkouts take the last unit. *)
(* (PostgresReservationRepository.save checks under the lock.)             *)
NoOversell == \A p \in Products : available[p] >= 0

(* No unit disappears: what is free, held and sold covers the stock, and   *)
(* the reserved column never claims more than the holds that are pending.  *)
(* (Every crash and every overlap of confirm() and release().)             *)
NothingLost ==
  \A p \in Products : /\ available[p] + Held(p) + Sold(p) >= InitialStock[p]
                      /\ reserved[p] <= Held(p)

(* Nothing is promised twice: free, held and sold units are never more     *)
(* than there are.  (confirm() overwrites a row released since the read.)  *)
NotOverpromised ==
  \A p \in Products : available[p] + Held(p) + Sold(p) <= InitialStock[p]

(* The books balance: no unit is given back twice or sold after it went    *)
(* back, and the reserved column is exactly the sum of pending holds.      *)
(* (release() and confirm() of PostgresReservationRepository.)             *)
BooksBalance ==
  \A p \in Products : /\ available[p] + Held(p) + Sold(p) = InitialStock[p]
                      /\ reserved[p] = Held(p)

(* The reserved column is a quantity.  (Inventory.validateProps throws on  *)
(* a negative one, and then the row can no longer be loaded at all.)       *)
ReservedNotNegative == \A p \in Products : reserved[p] >= 0

(* A reservation that was given back stays given back.                     *)
(* (The early return of PostgresReservationRepository.release.)            *)
ReleasedIsFinal ==
  [][\A r \in ReservationIds :
       status[r] = "RELEASED" => status'[r] = "RELEASED"]_vars

(* The ledger above: holds are taken once, sold once, given back once.     *)
Ledger == INSTANCE StockLedger
            WITH HoldIds <- ReservationIds, free <- available,
                 hold <- status, taken <- items
ImplementsLedger == Ledger!Ledger

(* A temporary hold does not outlive its TTL for ever: once expiresAt has  *)
(* passed, the goods of an unconfirmed reservation come back.              *)
ExpiredHoldsEnd ==
  \A r \in ReservationIds : r \in expired ~> status[r] # "PENDING"

=============================================================================
