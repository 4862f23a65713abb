--------------------------- MODULE StockAdjustment ---------------------------
(***************************************************************************)
(* AdjustStock and the readers of stock levels, running beside the         *)
(* reservations of StockReservations on the same rows.  An adjustment      *)
(* looks the product up in the cache, computes on that copy and writes the *)
(* copy's two quantities over the row, without a lock; the reservations    *)
(* never touch the cache.                                                  *)
(***************************************************************************)
EXTENDS Integers, FiniteSets

CONSTANTS Products, ReservationIds, MaxQuantity, InitialStock, Confirmers,
          Releasers, Idle,   \* as in StockReservations
          Requesters,  \* requests about stock levels that may overlap
          Reads,       \* reads of the instance, among "check", "bulk", "list"
          Commands,    \* adjustments of the instance
          Ceiling,     \* bound: no adjustment leaves more than this available
          Missing      \* no cache entry

Command == [verb : {"ADD", "SUBTRACT", "SET"}, quantity : Nat]
Level == [available : Nat, reserved : Nat]

ASSUME StockAssumption ==
         /\ IsFiniteSet(ReservationIds) /\ Idle \notin ReservationIds
         /\ MaxQuantity \in Nat /\ InitialStock \in [Products -> Nat]
         /\ Confirmers \cap Releasers = {}
ASSUME AdjustmentAssumption ==
         /\ Commands \subseteq Command
         /\ Reads \subseteq {"check", "bulk", "list"}
         /\ Ceiling \in Nat
         /\ Missing \notin Level

VARIABLES available, reserved, status, items, expired, call,
          cache,   \* entry of each product
          task,    \* what each request does
          on,      \* the product it does it to
          step,    \* where it is
          copy     \* the stock level in its hands

reservationVars == <<available, reserved, status, items, expired, call>>
requestVars == <<task, on, step, copy>>
vars == <<reservationVars, cache, requestVars>>

Reservations == INSTANCE StockReservations

Nothing == [verb |-> "none", quantity |-> 0]
Tasks == Commands \cup {[verb |-> v, quantity |-> 0] : v \in Reads}

TypeOK == /\ Reservations!TypeOK
          /\ cache \in [Products -> Level \cup {Missing}]
          /\ task \in [Requesters -> Tasks \cup {Nothing}]
          /\ on \in [Requesters -> Products]
          /\ step \in [Requesters -> {"idle", "lookup", "read", "fill", "apply", "refresh"}]
          /\ copy \in [Requesters -> Level \cup {Missing}]

Init == /\ Reservations!Init
        /\ cache = [p \in Products |-> Missing]
        /\ task = [w \in Requesters |-> Nothing]
        /\ on \in [Requesters -> Products]
        /\ step = [w \in Requesters |-> "idle"]
        /\ copy = [w \in Requesters |-> Missing]

-----------------------------------------------------------------------------
Row(p) == [available |-> available[p], reserved |-> reserved[p]]

Goto(w, place, level) == /\ step' = [step EXCEPT ![w] = place]
                         /\ copy' = [copy EXCEPT ![w] = level]
                         /\ UNCHANGED <<task, on>>

Leave(w) == /\ step' = [step EXCEPT ![w] = "idle"]
            /\ task' = [task EXCEPT ![w] = Nothing]
            /\ copy' = [copy EXCEPT ![w] = Missing]
            /\ UNCHANGED on

(* The low-stock list asks the rows; everything else asks the cache first. *)
Begin(w, t, p) ==
  /\ step[w] = "idle"
  /\ task' = [task EXCEPT ![w] = t]
  /\ on' = [on EXCEPT ![w] = p]
  /\ step' = [step EXCEPT ![w] = IF t.verb = "list" THEN "read" ELSE "lookup"]
  /\ UNCHANGED <<reservationVars, cache, copy>>

(* A reader has its answer; an adjustment goes on with the copy.           *)
Answer(w, level) == IF task[w] \in Commands THEN Goto(w, "apply", level) ELSE Leave(w)

Lookup(w) ==
  /\ step[w] = "lookup"
  /\ IF cache[on[w]] = Missing
     THEN Goto(w, "read", Missing)
     ELSE Answer(w, cache[on[w]])
  /\ UNCHANGED <<reservationVars, cache>>

(* The entity's constructor throws on a negative quantity: such a row can  *)
(* no longer be loaded.                                                    *)
Loadable(p) == Row(p) \in Level

(* The low-stock list leaves out what is sold out.                         *)
Listed(w) == task[w].verb = "list" => available[on[w]] > 0

ReadRow(w) ==
  /\ step[w] = "read"
  /\ IF Listed(w) /\ Loadable(on[w]) THEN Goto(w, "fill", Row(on[w])) ELSE Leave(w)
  /\ UNCHANGED <<reservationVars, cache>>

(* set after a single find, setAll after a bulk find or a list, which      *)
(* overwrites as well: its NX never reaches Redis.                         *)
Fill(w) ==
  /\ step[w] = "fill"
  /\ cache' = [cache EXCEPT ![on[w]] = copy[w]]
  /\ Answer(w, copy[w])
  /\ UNCHANGED reservationVars

AllowedUnchecked(w) == TRUE    \* mutant: nothing is asked of the quantity
Allowed(w) ==
  CASE task[w].verb = "ADD" -> task[w].quantity > 0
    [] task[w].verb = "SUBTRACT" -> /\ task[w].quantity > 0
                                    /\ task[w].quantity <= copy[w].available
    [] OTHER -> TRUE

Adjusted(w) ==
  CASE task[w].verb = "ADD" -> copy[w].available + task[w].quantity
    [] task[w].verb = "SUBTRACT" -> copy[w].available - task[w].quantity
    [] OTHER -> task[w].quantity

Refuse(w) ==
  /\ step[w] = "apply"
  /\ ~Allowed(w)
  /\ Leave(w)
  /\ UNCHANGED <<reservationVars, cache>>

(* The copy goes over the row, its reserved quantity included.             *)
MovedToReserved(w) == copy[w].reserved + task[w].quantity    \* mutant: reserveStock
ReservedWritten(w) == copy[w].reserved

WriteRow(w) ==
  /\ step[w] = "apply"
  /\ Allowed(w)
  /\ Adjusted(w) <= Ceiling
  /\ available' = [available EXCEPT ![on[w]] = Adjusted(w)]
  /\ reserved' = [reserved EXCEPT ![on[w]] = ReservedWritten(w)]
  /\ Goto(w, "refresh", [available |-> Adjusted(w), reserved |-> ReservedWritten(w)])
  /\ UNCHANGED <<status, items, expired, call, cache>>

Refresh(w) ==
  /\ step[w] = "refresh"
  /\ cache' = [cache EXCEPT ![on[w]] = copy[w]]
  /\ Leave(w)
  /\ UNCHANGED reservationVars

(* A database or Redis call fails, or the process dies.                    *)
Fail(w) ==
  /\ step[w] # "idle"
  /\ Leave(w)
  /\ UNCHANGED <<reservationVars, cache>>

CacheExpires(p) ==
  /\ cache[p] # Missing
  /\ cache' = [cache EXCEPT ![p] = Missing]
  /\ UNCHANGED <<reservationVars, requestVars>>

ReservationStep == Reservations!Next /\ UNCHANGED <<cache, requestVars>>

Next == \/ ReservationStep
        \/ \E w \in Requesters :
             \/ \E t \in Tasks, p \in Products : Begin(w, t, p)
             \/ Lookup(w) \/ ReadRow(w) \/ Fill(w) \/ Refuse(w)
             \/ WriteRow(w) \/ Refresh(w) \/ Fail(w)
        \/ \E p \in Products : CacheExpires(p)

Spec == Init /\ [][Next]_vars

-----------------------------------------------------------------------------
Quiet == \A w \in Requesters : step[w] = "idle"

(* However stale the copies adjustments are computed on, stock never goes  *)
(* below zero: the reservations look at the row under its lock, and an     *)
(* adjustment writes what a level that once was allowed.  (decreaseStock   *)
(* and PostgresReservationRepository.save on the same column.)             *)
NoOversell == Reservations!NoOversell

(* The units of p in all reservations there ever were.                     *)
Asked(it, p) == {u \in ReservationIds \X (1..MaxQuantity) : u[2] <= it[u[1]][p]}

(* The reserved column never claims more than was ever reserved, although  *)
(* adjustments write back reserved quantities that are out of date.        *)
(* (PostgresInventoryRepository.update.)                                   *)
ReservedWasReserved ==
  \A p \in Products : reserved[p] <= Cardinality(Asked(items, p))

(* The reserved column is the sum of the pending holds while nothing runs. *)
(* (The cache is not told of reservations, and the adjustment writes the   *)
(* cached reserved quantity over the row.)                                 *)
HoldsOnTheBooks ==
  Quiet => \A p \in Products : reserved[p] = Reservations!Held(p)
=============================================================================
