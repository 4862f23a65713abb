---------------------------- MODULE CheckoutProofs ----------------------------
(***************************************************************************)
(* Theorems about POST /orders/checkout.  CheckoutSaga: for any number of  *)
(* orders, reservations and instances of the application, any stock and    *)
(* cart, and at most one fault.  Idempotency, at the end: what a client    *)
(* that retries only after its last attempt has ended can rely on, for any *)
(* number of attempts and wherever a process dies, as long as Redis        *)
(* answers.                                                                *)
(***************************************************************************)
EXTENDS CheckoutSaga, Idempotency, FiniteSetTheorems, WellFoundedInduction, TLAPS

USE DEF CartItems, ReleaseOf, FirstHoldOf, troubles

(* The types the argument needs; the stock is not part of it.              *)
Marks == /\ status \in [Orders -> Placed \cup {None}]
         /\ flow \in [Orders -> Flows]
         /\ items \in [Orders -> 0..MaxCart]
         /\ intents \subseteq Orders
         /\ faults \in 0..MaxFaults
Reserved == holds \in [Holds -> Hold \cup {None}]
Posted == /\ post \subseteq [order : Orders, hold : Holds]
          /\ frees \subseteq Holds
          /\ events \in [Instances -> SUBSET Event]
          /\ listener \in [Instances -> {None} \cup Compensation]
Typed == Marks /\ Reserved /\ Posted

(* The payment's turn comes after stock was reserved, and a reservation    *)
(* never leaves its order.                                                 *)
HeldFirst == \A o \in Orders : flow[o] = "pay" \/ o \in intents => HoldsOf(o) # {}

(* An order that is cancelled while its flow may still reserve is on       *)
(* record.                                                                 *)
Noted == \A o \in Orders :
           status[o] = "CANCELLED" /\ flow[o] \in Running \cup {"unscheduled"}
             => o \in meddled

(* Without a fault no job ran twice, so an order has one reservation at    *)
(* most, and none before its job has run.                                  *)
Early == {"none", "unscheduled", "validate", "reserve"}
Single ==
  faults < MaxFaults =>
    \A o \in Orders : /\ flow[o] \in Early => HoldsOf(o) = {}
                     /\ \A q, r \in HoldsOf(o) : q = r

(* The listener that is bound to release r, the reservation of order o, or *)
(* has yet to hear of it: the release, or the list of reservations, that   *)
(* failed was the one fault there is, so the listener lives on.            *)
Bound(l, o, r) ==
  \/ [order |-> None, hold |-> r] \in events[l]
  \/ listener[l] # None /\ listener[l].hold = r /\ listener[l].step # "look"
  \/ HoldsOf(o) = {r} /\ [order |-> o, hold |-> None] \in events[l]
  \/ /\ HoldsOf(o) = {r} /\ listener[l] # None
     /\ listener[l].event.order = o /\ listener[l].step = "look"
ToldOf(o, r) == faults = MaxFaults /\ \E l \in Instances : Bound(l, o, r)

(* A cancellation whose release the listener is about to schedule.         *)
OwedBy(l, o) ==
  listener[l] # None /\ listener[l].step = "schedule" /\ listener[l].owes = o

(* What a cancelled order still holds somebody is about to release.        *)
Awaits(o, r) == \/ o \in owed \/ o \in releases \/ r \in frees
                \/ \E l \in Instances : OwedBy(l, o)
                \/ ToldOf(o, r)
Pending ==
  \A o \in Orders : status[o] = "CANCELLED" /\ o \notin meddled \cup forgotten =>
    \A r \in HoldsOf(o) : holds[r].status = "RESERVED" => Awaits(o, r)

(* Jobs, events, what is owed and what the listener works for are of       *)
(* orders that were saved: so there is a least one when the listener looks *)
(* for an order without an id.                                             *)
OfSaved ==
  /\ \A o \in Orders : flow[o] # "none" => status[o] # None
  /\ \A p \in post : status[p.order] # None
  /\ \A o \in owed \cup releases : status[o] # None
  /\ ghost # None => status[ghost.order] # None
  /\ \A l \in Instances :
       /\ \A e \in events[l] : e.order # None => status[e.order] # None
       /\ listener[l] # None =>
            /\ listener[l].step \in {"look", "cancel"} =>
                 listener[l].event.order # None /\ status[listener[l].event.order] # None
            /\ listener[l].step = "schedule" =>
                 listener[l].owes # None /\ status[listener[l].owes] # None

Named == /\ cash \subseteq Orders /\ releases \subseteq Orders /\ meddled \subseteq Orders
         /\ owed \subseteq Orders /\ forgotten \subseteq Orders
         /\ ghost \in {None} \cup [order : Orders, status : Placed]

Base == Typed /\ OfSaved /\ Named
IInv == Base /\ HeldFirst /\ Noted /\ Single /\ Pending

-----------------------------------------------------------------------------
LEMMA InitInv == Init => IInv
<1> SUFFICES ASSUME Init PROVE IInv
  OBVIOUS
<1> USE SagaAssumption DEF Init
<1>1. Typed
  BY DEF Typed, Marks, Reserved, Posted, Flows, Running
<1>2. HeldFirst /\ Noted
  BY DEF HeldFirst, Noted, Placed
<1>3. Single /\ Pending
  BY DEF Single, Pending, HoldsOf
<1>4. OfSaved /\ Named
  BY DEF OfSaved, Named
<1> QED
  BY <1>1, <1>2, <1>3, <1>4 DEF IInv, Base

(* Types.                                                                  *)
LEMMA MarksStep ==
  Typed /\ [Next]_vars => Marks'
<1> SUFFICES ASSUME Typed, [Next]_vars PROVE Marks'
  OBVIOUS
<1> USE SagaAssumption DEF Typed, Marks, Flows, Running, Placed
<1>1. ASSUME NEW o \in Orders, Checkout(o) PROVE Marks'
  BY <1>1 DEF Checkout, checkout, chain, goods, queue, listening
<1>2. ASSUME NEW o \in Orders, ScheduleCheckout(o) PROVE Marks'
  BY <1>2 DEF ScheduleCheckout, Chain, checkout, chain, goods, queue, listening
<1>3. ASSUME NEW o \in Orders, ScheduleFails(o) PROVE Marks'
  BY <1>3 DEF ScheduleFails, Fault, checkout, chain, goods, queue, listening
<1>4. ASSUME NEW o \in Orders, ValidateCart(o) PROVE Marks'
  BY <1>4 DEF ValidateCart, Done, NextJob, Failed, Announced, Fault, checkout, chain,
       goods, queue, listening
<1>5. ASSUME NEW o \in Orders, ValidationErrs(o) PROVE Marks'
  BY <1>5 DEF ValidationErrs, Failed, Announced, checkout, chain, goods, queue, listening
<1>6. ASSUME NEW o \in Orders, ReserveStock(o) PROVE Marks'
  BY <1>6 DEF ReserveStock, HoldFor, Done, NextJob, Failed, Announced, Fault, checkout,
       chain, goods, queue, listening
<1>7. ASSUME NEW o \in Orders, ProcessPayment(o) PROVE Marks'
  BY <1>7 DEF ProcessPayment, Done, NextJob, Failed, Announced, Fault, checkout, chain,
       goods, queue, listening
<1>8. ASSUME NEW o \in Orders, Cancel(o) PROVE Marks'
  BY <1>8 DEF Cancel, CancelEffect, checkout, chain, goods, queue, listening
<1>8a. ASSUME NEW o \in Orders, ScheduleRelease(o) PROVE Marks'
  BY <1>8a DEF ScheduleRelease, checkout, chain, goods, queue, listening
<1>8b. ASSUME NEW o \in Orders, ReleaseUnscheduled(o) PROVE Marks'
  BY <1>8b DEF ReleaseUnscheduled, Fault, checkout, chain, goods, queue,
       listening
<1>9. ASSUME NEW o \in Orders, Confirm(o) PROVE Marks'
  BY <1>9 DEF Confirm, checkout, chain, goods, queue, listening
<1>10. ASSUME NEW o \in Orders, ConfirmReservation(o) PROVE Marks'
  BY <1>10 DEF ConfirmReservation, Announced, checkout, chain, goods, queue, listening
<1>11. ASSUME NEW o \in Orders, ReleaseOrderStock(o) PROVE Marks'
  BY <1>11 DEF ReleaseOrderStock, Fault, checkout, chain, goods, queue, listening
<1>11a. ASSUME NEW o \in Orders, ListingFails(o) PROVE Marks'
  BY <1>11a DEF ListingFails, Fault, Announced, checkout, chain, goods, queue,
       listening
<1>12. ASSUME NEW r \in Holds, ReleaseStock(r) PROVE Marks'
  BY <1>12 DEF ReleaseStock, Freed, Free, checkout, chain, goods, queue, listening
<1>13. ASSUME NEW r \in Holds, ReleaseFails(r) PROVE Marks'
  BY <1>13 DEF ReleaseFails, Fault, Announced, checkout, chain, goods, queue, listening
<1>14. ASSUME NEW l \in Instances, Hear(l) PROVE Marks'
  BY <1>14 DEF Hear, checkout, chain, goods, queue, listening
<1>15. ASSUME NEW l \in Instances, Look(l) PROVE Marks'
  BY <1>15 DEF Look, Fault, Advance, checkout, chain, goods, queue, listening
<1>16. ASSUME NEW l \in Instances, CancelByListener(l) PROVE Marks'
  BY <1>16 DEF CancelByListener, CancelEffect, Advance, checkout, chain, goods, queue,
       listening
<1>16a. ASSUME NEW l \in Instances, ScheduleByListener(l) PROVE Marks'
  BY <1>16a DEF ScheduleByListener, Fault, Advance, checkout, chain, goods,
       queue, listening
<1>17. ASSUME NEW l \in Instances, ReleaseByListener(l) PROVE Marks'
  BY <1>17 DEF ReleaseByListener, Fault, Freed, Free, checkout, chain, goods, queue,
       listening
<1>18. ASSUME NEW l \in Instances, ListenerDies(l) PROVE Marks'
  BY <1>18 DEF ListenerDies, Fault, checkout, chain, goods, queue, listening
<1>19. CASE GhostExpires
  BY <1>19 DEF GhostExpires, checkout, chain, goods, queue, listening
<1>20. CASE UNCHANGED vars
  BY <1>20 DEF vars, checkout, chain, goods, queue, listening
<1> QED
  BY <1>1, <1>2, <1>3, <1>4, <1>5, <1>6, <1>7, <1>8, <1>9, <1>10, <1>11,
     <1>12, <1>13, <1>14, <1>15, <1>16, <1>17, <1>18, <1>19, <1>20,
     <1>8a, <1>8b, <1>11a, <1>16a
  DEF Next, RunJob, Listen

(* The reservations.                                                       *)
LEMMA ReservedStep ==
  Typed /\ [Next]_vars => Reserved'
<1> SUFFICES ASSUME Typed, [Next]_vars PROVE Reserved'
  OBVIOUS
<1> USE SagaAssumption DEF Typed, Reserved
<1>1. ASSUME NEW o \in Orders, Checkout(o) PROVE Reserved'
  BY <1>1 DEF Checkout, checkout, chain, goods, queue, listening
<1>2. ASSUME NEW o \in Orders, ScheduleCheckout(o) PROVE Reserved'
  BY <1>2 DEF ScheduleCheckout, Chain, checkout, chain, goods, queue, listening
<1>3. ASSUME NEW o \in Orders, ScheduleFails(o) PROVE Reserved'
  BY <1>3 DEF ScheduleFails, Fault, checkout, chain, goods, queue, listening
<1>4. ASSUME NEW o \in Orders, ValidateCart(o) PROVE Reserved'
  BY <1>4 DEF ValidateCart, Done, NextJob, Failed, Announced, Fault, checkout, chain,
       goods, queue, listening
<1>5. ASSUME NEW o \in Orders, ValidationErrs(o) PROVE Reserved'
  BY <1>5 DEF ValidationErrs, Failed, Announced, checkout, chain, goods, queue, listening
<1>6. ASSUME NEW o \in Orders, ReserveStock(o) PROVE Reserved'
  <2>1. CASE holds' = holds
    BY <2>1
  <2>2. ASSUME NEW r \in Holds, holds' = [holds EXCEPT ![r] = HoldFor(o, items[o])]
        PROVE  Reserved'
    <3>1. HoldFor(o, items[o]) \in Hold
      BY DEF HoldFor, Hold, Marks
    <3> QED
      BY <2>2, <3>1
  <2> QED
    BY <1>6, <2>1, <2>2 DEF ReserveStock
<1>7. ASSUME NEW o \in Orders, ProcessPayment(o) PROVE Reserved'
  BY <1>7 DEF ProcessPayment, Done, NextJob, Failed, Announced, Fault, checkout, chain,
       goods, queue, listening
<1>8. ASSUME NEW o \in Orders, Cancel(o) PROVE Reserved'
  BY <1>8 DEF Cancel, CancelEffect, checkout, chain, goods, queue, listening
<1>8a. ASSUME NEW o \in Orders, ScheduleRelease(o) PROVE Reserved'
  BY <1>8a DEF ScheduleRelease, checkout, chain, goods, queue, listening
<1>8b. ASSUME NEW o \in Orders, ReleaseUnscheduled(o) PROVE Reserved'
  BY <1>8b DEF ReleaseUnscheduled, Fault, checkout, chain, goods, queue,
       listening
<1>9. ASSUME NEW o \in Orders, Confirm(o) PROVE Reserved'
  BY <1>9 DEF Confirm, checkout, chain, goods, queue, listening
<1>10. ASSUME NEW o \in Orders, ConfirmReservation(o) PROVE Reserved'
  BY <1>10 DEF ConfirmReservation, Announced, checkout, chain, goods, queue, listening
<1>11. ASSUME NEW o \in Orders, ReleaseOrderStock(o) PROVE Reserved'
  BY <1>11 DEF ReleaseOrderStock, Fault, checkout, chain, goods, queue, listening
<1>11a. ASSUME NEW o \in Orders, ListingFails(o) PROVE Reserved'
  BY <1>11a DEF ListingFails, Fault, Announced, checkout, chain, goods, queue,
       listening
<1>12. ASSUME NEW r \in Holds, ReleaseStock(r) PROVE Reserved'
  <2>1. CASE holds' = holds
    BY <2>1
  <2>2. ASSUME holds[r] # None, holds' = [holds EXCEPT ![r].status = "RELEASED"]
        PROVE  Reserved'
    <3>1. [holds[r] EXCEPT !.status = "RELEASED"] \in Hold
      BY <2>2 DEF Hold
    <3> QED
      BY <2>2, <3>1
  <2> QED
    BY <1>12, <2>1, <2>2 DEF ReleaseStock, Freed, Free
<1>13. ASSUME NEW r \in Holds, ReleaseFails(r) PROVE Reserved'
  BY <1>13 DEF ReleaseFails, Fault, Announced, checkout, chain, goods, queue, listening
<1>14. ASSUME NEW l \in Instances, Hear(l) PROVE Reserved'
  BY <1>14 DEF Hear, checkout, chain, goods, queue, listening
<1>15. ASSUME NEW l \in Instances, Look(l) PROVE Reserved'
  BY <1>15 DEF Look, Fault, Advance, checkout, chain, goods, queue, listening
<1>16. ASSUME NEW l \in Instances, CancelByListener(l) PROVE Reserved'
  BY <1>16 DEF CancelByListener, CancelEffect, Advance, checkout, chain, goods, queue,
       listening
<1>16a. ASSUME NEW l \in Instances, ScheduleByListener(l) PROVE Reserved'
  BY <1>16a DEF ScheduleByListener, Fault, Advance, checkout, chain, goods,
       queue, listening
<1>17. ASSUME NEW l \in Instances, ReleaseByListener(l) PROVE Reserved'
  <2>1. CASE holds' = holds
    BY <2>1
  <2>2. ASSUME NEW r \in Holds, holds[r] # None, holds' = [holds EXCEPT ![r].status = "RELEASED"]
        PROVE  Reserved'
    <3>1. [holds[r] EXCEPT !.status = "RELEASED"] \in Hold
      BY <2>2 DEF Hold
    <3> QED
      BY <2>2, <3>1
  <2>3. listener[l] \in Compensation
    BY <1>17 DEF ReleaseByListener, Fault, Posted
  <2> QED
    BY <1>17, <2>1, <2>2, <2>3 DEF ReleaseByListener, Fault, Freed, Free, Compensation
<1>18. ASSUME NEW l \in Instances, ListenerDies(l) PROVE Reserved'
  BY <1>18 DEF ListenerDies, Fault, checkout, chain, goods, queue, listening
<1>19. CASE GhostExpires
  BY <1>19 DEF GhostExpires, checkout, chain, goods, queue, listening
<1>20. CASE UNCHANGED vars
  BY <1>20 DEF vars, checkout, chain, goods, queue, listening
<1> QED
  BY <1>1, <1>2, <1>3, <1>4, <1>5, <1>6, <1>7, <1>8, <1>9, <1>10, <1>11,
     <1>12, <1>13, <1>14, <1>15, <1>16, <1>17, <1>18, <1>19, <1>20,
     <1>8a, <1>8b, <1>11a, <1>16a
  DEF Next, RunJob, Listen

LEMMA Letters ==
  /\ \A o \in Orders : [order |-> o, hold |-> None] \in Event
  /\ \A r \in Holds : [order |-> None, hold |-> r] \in Event
  /\ [order : Orders, hold : Holds] \subseteq Event
  BY DEF Event

(* Every set of order numbers has a least one.                             *)
LEMMA Least ==
  ASSUME NEW T, T \subseteq Nat, T # {}
  PROVE  Min(T) \in T
<1> DEFINE Upto(x) == {y \in T : y =< x}
           F == {Upto(x) : x \in T}
<1>1. ASSUME NEW x \in T PROVE Upto(x) \in FiniteSubsetsOf(T)
  <2>1. x \in Nat /\ Upto(x) \in SUBSET Nat /\ \A y \in Upto(x) : y =< x
    OBVIOUS
  <2>2. IsFiniteSet(Upto(x))
    BY <2>1, FS_BoundedSetOfNaturals
  <2> QED
    BY <2>2 DEF FiniteSubsetsOf
<1>2. PICK Z \in F : \A W \in F : <<W, Z>> \notin StrictSubsetOrdering(T)
  <2>1. F \subseteq FiniteSubsetsOf(T) /\ F # {}
    BY <1>1
  <2> HIDE DEF F
  <2> QED
    BY <2>1, FS_StrictSubsetOrderingWellFounded, WFMin
<1>3. PICK x \in T : Z = Upto(x)
  BY <1>2
<1>4. ASSUME NEW y \in T PROVE x =< y
  <2>1. x \in Nat /\ y \in Nat
    OBVIOUS
  <2>2. SUFFICES ASSUME y < x PROVE FALSE
    BY <2>1
  <2>3. \A z \in T : z \in Nat /\ (z =< y => z =< x)
    BY <2>1, <2>2
  <2>4. Upto(y) \subseteq Upto(x) /\ x \in Upto(x) /\ x \notin Upto(y)
    <3>1. Upto(y) \subseteq Upto(x)
      BY <2>3
    <3>2. x =< x /\ ~(x =< y)
      BY <2>1, <2>2
    <3> QED
      BY <3>1, <3>2
  <2>5. Upto(y) \in F /\ Upto(y) \in SUBSET T /\ Upto(x) \in SUBSET T
    OBVIOUS
  <2> HIDE DEF F, Upto
  <2> QED
    BY <1>2, <1>3, <2>4, <2>5 DEF StrictSubsetOrdering
<1> QED
  BY <1>4 DEF Min

(* What the listener finds for an order without an id.                     *)
LEMMA UndefinedType ==
  ASSUME Typed, OfSaved, Named, NEW l \in Instances,
         listener[l] # None, listener[l].step = "cancel"
  PROVE  /\ Undefined \in [order : Orders, status : Placed]
         /\ Undefined.order \in Orders /\ status[Undefined.order] # None
<1>1. listener[l].event.order \in Saved
  <2>1. listener[l] \in Compensation
    BY DEF Typed, Posted
  <2>2. listener[l].event.order \in Orders \cup {None}
    BY <2>1 DEF Compensation, Event
  <2> QED
    BY <2>2 DEF OfSaved, Saved
<1>2. Min(Saved) \in Saved
  BY <1>1, Least, SagaAssumption DEF Saved
<1>3. Min(Saved) \in Orders /\ status[Min(Saved)] \in Placed /\ status[Min(Saved)] # None
  BY <1>2 DEF Saved, Typed, Marks
<1> HIDE DEF Saved
<1> QED
  BY <1>3 DEF Undefined, Named, OfSaved

(* Going on from one step of a compensation to the next.                   *)
LEMMA AdvanceType ==
  ASSUME Typed, NEW l \in Instances, listener[l] \in Compensation,
         NEW r \in Holds \cup {None}, NEW p \in Orders \cup {None},
         NEW t \in {"cancel", "schedule", "release"}, Advance(l, r, p, t)
  PROVE  listener' \in [Instances -> {None} \cup Compensation]
<1>1. listener[l].event \in Event
  BY DEF Compensation
<1>2. [event |-> listener[l].event, hold |-> r, owes |-> p, step |-> t] \in Compensation
  BY <1>1 DEF Compensation
<1>3. listener \in [Instances -> {None} \cup Compensation]
  BY DEF Typed, Posted
<1> QED
  BY <1>2, <1>3 DEF Advance

(* The queue and who listens to it.                                        *)
LEMMA PostedStep ==
  Base /\ [Next]_vars => Posted'
<1> SUFFICES ASSUME Base, [Next]_vars PROVE Posted'
  OBVIOUS
<1> USE SagaAssumption DEF Base, Typed, Posted
<1>1. ASSUME NEW o \in Orders, Checkout(o) PROVE Posted'
  BY <1>1 DEF Checkout, checkout, chain, goods, queue, listening
<1>2. ASSUME NEW o \in Orders, ScheduleCheckout(o) PROVE Posted'
  BY <1>2 DEF ScheduleCheckout, Chain, checkout, chain, goods, queue, listening
<1>3. ASSUME NEW o \in Orders, ScheduleFails(o) PROVE Posted'
  BY <1>3 DEF ScheduleFails, Fault, checkout, chain, goods, queue, listening
<1>4. ASSUME NEW o \in Orders, ValidateCart(o) PROVE Posted'
  BY <1>4, Letters DEF ValidateCart, Done, NextJob, Failed, Announced, Fault, checkout,
       chain, goods, queue, listening
<1>5. ASSUME NEW o \in Orders, ValidationErrs(o) PROVE Posted'
  BY <1>5, Letters DEF ValidationErrs, Failed, Announced, checkout, chain, goods, queue,
       listening
<1>6. ASSUME NEW o \in Orders, ReserveStock(o) PROVE Posted'
  BY <1>6, Letters DEF ReserveStock, HoldFor, Done, NextJob, Failed, Announced, Fault,
       checkout, chain, goods, queue, listening
<1>7. ASSUME NEW o \in Orders, ProcessPayment(o) PROVE Posted'
  BY <1>7, Letters DEF ProcessPayment, Done, NextJob, Failed, Announced, Fault,
       checkout, chain, goods, queue, listening
<1>8. ASSUME NEW o \in Orders, Cancel(o) PROVE Posted'
  BY <1>8 DEF Cancel, CancelEffect, checkout, chain, goods, queue, listening
<1>8a. ASSUME NEW o \in Orders, ScheduleRelease(o) PROVE Posted'
  BY <1>8a DEF ScheduleRelease, checkout, chain, goods, queue, listening
<1>8b. ASSUME NEW o \in Orders, ReleaseUnscheduled(o) PROVE Posted'
  BY <1>8b DEF ReleaseUnscheduled, Fault, checkout, chain, goods, queue,
       listening
<1>9. ASSUME NEW o \in Orders, Confirm(o) PROVE Posted'
  BY <1>9 DEF Confirm, HoldsOf, checkout, chain, goods, queue, listening
<1>10. ASSUME NEW o \in Orders, ConfirmReservation(o) PROVE Posted'
  BY <1>10, Letters DEF ConfirmReservation, Announced, checkout, chain, goods, queue,
       listening
<1>11. ASSUME NEW o \in Orders, ReleaseOrderStock(o) PROVE Posted'
  BY <1>11 DEF ReleaseOrderStock, Fault, HoldsOf, checkout, chain, goods, queue, listening
<1>11a. ASSUME NEW o \in Orders, ListingFails(o) PROVE Posted'
  BY <1>11a, Letters DEF ListingFails, Fault, Announced, checkout, chain, goods, queue,
       listening
<1>12. ASSUME NEW r \in Holds, ReleaseStock(r) PROVE Posted'
  BY <1>12 DEF ReleaseStock, Freed, Free, checkout, chain, goods, queue, listening
<1>13. ASSUME NEW r \in Holds, ReleaseFails(r) PROVE Posted'
  BY <1>13, Letters DEF ReleaseFails, Fault, Announced, checkout, chain, goods, queue,
       listening
<1>14. ASSUME NEW l \in Instances, Hear(l) PROVE Posted'
  <2>1. PICK e \in events[l] :
          /\ events' = [events EXCEPT ![l] = events[l] \ {e}]
          /\ listener' = [listener EXCEPT ![l] =
               [event |-> e, hold |-> e.hold, owes |-> None,
                step |-> IF e.order = None THEN "release"
                         ELSE IF e.hold = None THEN "look" ELSE "cancel"]]
    BY <1>14 DEF Hear
  <2>2. e \in Event /\ e.hold \in Holds \cup {None}
    BY DEF Event
  <2>3. [event |-> e, hold |-> e.hold, owes |-> None,
         step |-> IF e.order = None THEN "release"
                  ELSE IF e.hold = None THEN "look" ELSE "cancel"] \in Compensation
    BY <2>2 DEF Compensation
  <2> QED
    BY <1>14, <2>1, <2>3 DEF Hear, queue
<1>15. ASSUME NEW l \in Instances, Look(l) PROVE Posted'
  <2>1. listener[l] \in Compensation
    BY <1>15 DEF Look
  <2>2. \E q \in Holds \cup {None} : Advance(l, q, None, "cancel")
    BY <1>15 DEF Look, HoldsOf
  <2> QED
    BY <1>15, <2>1, <2>2, AdvanceType DEF Look, queue
<1>16. ASSUME NEW l \in Instances, CancelByListener(l) PROVE Posted'
  <2>1. listener[l] \in Compensation /\ listener[l].hold \in Holds \cup {None}
    BY <1>16 DEF CancelByListener, Compensation
  <2> DEFINE U == Undefined
  <2>2. U.order \in Orders
    BY <1>16, UndefinedType DEF CancelByListener
  <2>3. \/ Advance(l, listener[l].hold, U.order, "schedule")
        \/ Advance(l, listener[l].hold, None, "release")
    BY <1>16 DEF CancelByListener
  <2> HIDE DEF U
  <2> QED
    BY <1>16, <2>1, <2>2, <2>3, AdvanceType DEF CancelByListener, queue
<1>16a. ASSUME NEW l \in Instances, ScheduleByListener(l) PROVE Posted'
  <2>1. listener[l] \in Compensation /\ listener[l].hold \in Holds \cup {None}
    BY <1>16a DEF ScheduleByListener, Compensation
  <2> QED
    BY <1>16a, <2>1, AdvanceType DEF ScheduleByListener
<1>17. ASSUME NEW l \in Instances, ReleaseByListener(l) PROVE Posted'
  BY <1>17 DEF ReleaseByListener, Fault, Freed, Free, checkout, chain, goods, queue,
       listening
<1>18. ASSUME NEW l \in Instances, ListenerDies(l) PROVE Posted'
  BY <1>18 DEF ListenerDies, Fault, checkout, chain, goods, queue, listening
<1>19. CASE GhostExpires
  BY <1>19 DEF GhostExpires, checkout, chain, goods, queue, listening
<1>20. CASE UNCHANGED vars
  BY <1>20 DEF vars, checkout, chain, goods, queue, listening
<1> QED
  BY <1>1, <1>2, <1>3, <1>4, <1>5, <1>6, <1>7, <1>8, <1>9, <1>10, <1>11,
     <1>12, <1>13, <1>14, <1>15, <1>16, <1>17, <1>18, <1>19, <1>20,
     <1>8a, <1>8b, <1>11a, <1>16a
  DEF Next, RunJob, Listen

LEMMA TypedStep == Base /\ [Next]_vars => Typed'
  BY MarksStep, ReservedStep, PostedStep DEF Base, Typed, Reserved

(* The stock and the reservations change together: when a job reserves, or *)
(* when somebody releases a reservation.                                   *)
LEMMA GoodsMove ==
  ASSUME Typed, [Next]_vars
  PROVE  \/ UNCHANGED <<stock, holds>>
         \/ \E r \in Holds : Freed(r)
         \/ \E o \in Orders : ReserveStock(o)
<1>1. CASE UNCHANGED vars
  BY <1>1 DEF vars, goods
<1>2. ASSUME NEW o \in Orders,
             \/ Checkout(o) \/ ScheduleFails(o) \/ ScheduleCheckout(o)
             \/ ValidateCart(o) \/ ProcessPayment(o) \/ ConfirmReservation(o)
      PROVE  UNCHANGED <<stock, holds>>
  BY <1>2 DEF Checkout, ScheduleFails, ScheduleCheckout, ValidateCart,
              ProcessPayment, ConfirmReservation, goods
<1>3. ASSUME NEW o \in Orders,
             \/ ReleaseOrderStock(o) \/ ListingFails(o) \/ ValidationErrs(o)
             \/ Cancel(o) \/ ScheduleRelease(o) \/ ReleaseUnscheduled(o) \/ Confirm(o)
      PROVE  UNCHANGED <<stock, holds>>
  BY <1>3 DEF ReleaseOrderStock, ListingFails, ValidationErrs, Cancel, ScheduleRelease,
              ReleaseUnscheduled, Confirm, goods
<1>4. ASSUME NEW r \in Holds, ReleaseStock(r) \/ ReleaseFails(r)
      PROVE  UNCHANGED <<stock, holds>> \/ Freed(r)
  BY <1>4 DEF ReleaseStock, ReleaseFails, goods
<1>5. ASSUME NEW l \in Instances,
             \/ Hear(l) \/ Look(l) \/ CancelByListener(l) \/ ScheduleByListener(l)
             \/ ListenerDies(l)
      PROVE  UNCHANGED <<stock, holds>>
  BY <1>5 DEF Hear, Look, CancelByListener, ScheduleByListener, ListenerDies, goods
<1>6. ASSUME NEW l \in Instances, ReleaseByListener(l)
      PROVE  UNCHANGED <<stock, holds>> \/ \E r \in Holds : Freed(r)
  <2>1. listener[l] \in Compensation
    BY <1>6 DEF ReleaseByListener, Typed, Posted
  <2> QED
    BY <1>6, <2>1 DEF ReleaseByListener, Compensation
<1>7. CASE GhostExpires
  BY <1>7 DEF GhostExpires, goods
<1> QED
  BY <1>1, <1>2, <1>3, <1>4, <1>5, <1>6, <1>7 DEF Next, RunJob, Listen

(* A reservation stays, with its order; all that may come is its release.  *)
LEMMA HoldsStay ==
  ASSUME Typed, [Next]_vars, NEW q \in Holds, holds[q] # None
  PROVE  /\ holds'[q] # None /\ holds'[q].order = holds[q].order
         /\ holds'[q].status \in {holds[q].status, "RELEASED"}
<1>1. holds[q] \in Hold
  BY DEF Typed, Reserved
<1>2. CASE holds' = holds
  BY <1>2
<1>3. ASSUME NEW r \in Holds, Freed(r)
      PROVE  /\ holds'[q] # None /\ holds'[q].order = holds[q].order
             /\ holds'[q].status \in {holds[q].status, "RELEASED"}
  <2>1. CASE holds' = holds
    BY <2>1
  <2>2. CASE holds' = [holds EXCEPT ![r].status = "RELEASED"]
    <3>1. CASE q # r
      BY <2>2, <3>1 DEF Typed, Reserved
    <3>2. CASE q = r
      <4>1. holds'[q] = [holds[q] EXCEPT !.status = "RELEASED"]
        BY <2>2, <3>2 DEF Typed, Reserved
      <4>2. holds'[q] \in Hold /\ holds'[q].order = holds[q].order
            /\ holds'[q].status = "RELEASED"
        BY <1>1, <4>1 DEF Hold
      <4> QED
        BY <4>2, SagaAssumption
    <3> QED
      BY <3>1, <3>2
  <2> QED
    BY <1>3, <2>1, <2>2 DEF Freed
<1>4. ASSUME NEW o \in Orders, ReserveStock(o)
      PROVE  holds'[q] = holds[q]
  BY <1>4 DEF ReserveStock, Typed, Reserved
<1> QED
  BY <1>2, <1>3, <1>4, GoodsMove

LEMMA OrdersKeepHolds ==
  ASSUME Typed, [Next]_vars, NEW o \in Orders, HoldsOf(o) # {}
  PROVE  (HoldsOf(o) # {})'
<1>1. PICK q \in Holds : holds[q] # None /\ holds[q].order = o
  BY DEF HoldsOf
<1>2. holds'[q] # None /\ holds'[q].order = o
  BY <1>1, HoldsStay
<1> QED
  BY <1>2 DEF HoldsOf

(* Only its own job adds to the reservations of an order.                  *)
LEMMA HoldsSame ==
  ASSUME Typed, [Next]_vars, NEW o \in Orders, ~ReserveStock(o)
  PROVE  HoldsOf(o)' = HoldsOf(o)
<1>1. ASSUME NEW q \in Holds, holds'[q] # None, holds'[q].order = o
      PROVE  holds[q] # None /\ holds[q].order = o
  <2>1. CASE holds' = holds
    BY <1>1, <2>1
  <2>2. ASSUME NEW r \in Holds, Freed(r) PROVE holds[q] # None
    BY <1>1, <2>2 DEF Freed, Free, Typed, Reserved
  <2>3. ASSUME NEW p \in Orders, p # o, ReserveStock(p) PROVE holds'[q] = holds[q]
    <3>1. CASE holds' = holds
      BY <3>1
    <3>2. ASSUME NEW r \in Holds, holds' = [holds EXCEPT ![r] = HoldFor(p, items[p])]
          PROVE  holds'[q] = holds[q]
      BY <1>1, <2>3, <3>2 DEF HoldFor, Typed, Reserved
    <3> QED
      BY <2>3, <3>1, <3>2 DEF ReserveStock
  <2>4. holds[q] # None
    BY <1>1, <2>1, <2>2, <2>3, GoodsMove
  <2> QED
    BY <1>1, <2>4, HoldsStay
<1>2. ASSUME NEW q \in Holds, holds[q] # None, holds[q].order = o
      PROVE  holds'[q] # None /\ holds'[q].order = o
  BY <1>2, HoldsStay
<1> QED
  BY <1>1, <1>2 DEF HoldsOf

(* What leads to a payment.                                                *)
Pays == \A o \in Orders : flow'[o] = "pay" \/ o \in intents' =>
          flow[o] = "pay" \/ o \in intents \/ (HoldsOf(o) # {})'

(* The payment's turn comes by a reservation.                              *)
LEMMA PaysStep ==
  Typed /\ [Next]_vars => Pays
<1> SUFFICES ASSUME Typed, [Next]_vars PROVE Pays
  OBVIOUS
<1> USE SagaAssumption DEF Typed, Marks, Pays
<1>1. ASSUME NEW o \in Orders, Checkout(o) PROVE Pays
  BY <1>1 DEF Checkout, checkout, chain, goods, queue, listening
<1>2. ASSUME NEW o \in Orders, ScheduleCheckout(o) PROVE Pays
  BY <1>2 DEF ScheduleCheckout, Chain, checkout, chain, goods, queue, listening
<1>3. ASSUME NEW o \in Orders, ScheduleFails(o) PROVE Pays
  BY <1>3 DEF ScheduleFails, Fault, checkout, chain, goods, queue, listening
<1>4. ASSUME NEW o \in Orders, ValidateCart(o) PROVE Pays
  BY <1>4 DEF ValidateCart, Done, NextJob, Failed, Announced, Fault, checkout, chain,
       goods, queue, listening
<1>5. ASSUME NEW o \in Orders, ValidationErrs(o) PROVE Pays
  BY <1>5 DEF ValidationErrs, Failed, Announced, checkout, chain, goods, queue, listening
<1>6. ASSUME NEW o \in Orders, ReserveStock(o) PROVE Pays
  <2>1. CASE UNCHANGED <<flow, intents>>
    BY <2>1
  <2>2. ASSUME NEW r \in Holds, holds' = [holds EXCEPT ![r] = HoldFor(o, items[o])]
        PROVE  (HoldsOf(o) # {})'
    <3>1. holds'[r] = HoldFor(o, items[o]) /\ HoldFor(o, items[o]).order = o
      BY <2>2 DEF Reserved, HoldFor
    <3>2. HoldFor(o, items[o]) \in Hold
      BY DEF HoldFor, Hold
    <3> QED
      BY <3>1, <3>2 DEF HoldsOf
  <2>3. CASE Failed(o)
    BY <1>6, <2>3 DEF Failed, ReserveStock
  <2>4. \A p \in Orders : p # o => flow'[p] = flow[p]
    BY <1>6 DEF ReserveStock, Done, Failed
  <2> QED
    BY <1>6, <2>2, <2>3, <2>4 DEF ReserveStock
<1>7. ASSUME NEW o \in Orders, ProcessPayment(o) PROVE Pays
  BY <1>7 DEF ProcessPayment, Done, NextJob, Failed, Announced, Fault, checkout, chain,
       goods, queue, listening
<1>8. ASSUME NEW o \in Orders, Cancel(o) PROVE Pays
  BY <1>8 DEF Cancel, CancelEffect, checkout, chain, goods, queue, listening
<1>8a. ASSUME NEW o \in Orders, ScheduleRelease(o) PROVE Pays
  BY <1>8a DEF ScheduleRelease, checkout, chain, goods, queue, listening
<1>8b. ASSUME NEW o \in Orders, ReleaseUnscheduled(o) PROVE Pays
  BY <1>8b DEF ReleaseUnscheduled, Fault, checkout, chain, goods, queue,
       listening
<1>9. ASSUME NEW o \in Orders, Confirm(o) PROVE Pays
  BY <1>9 DEF Confirm, checkout, chain, goods, queue, listening
<1>10. ASSUME NEW o \in Orders, ConfirmReservation(o) PROVE Pays
  BY <1>10 DEF ConfirmReservation, Announced, checkout, chain, goods, queue, listening
<1>11. ASSUME NEW o \in Orders, ReleaseOrderStock(o) PROVE Pays
  BY <1>11 DEF ReleaseOrderStock, Fault, checkout, chain, goods, queue, listening
<1>11a. ASSUME NEW o \in Orders, ListingFails(o) PROVE Pays
  BY <1>11a DEF ListingFails, Fault, Announced, checkout, chain, goods, queue,
       listening
<1>12. ASSUME NEW r \in Holds, ReleaseStock(r) PROVE Pays
  BY <1>12 DEF ReleaseStock, Freed, Free, checkout, chain, goods, queue, listening
<1>13. ASSUME NEW r \in Holds, ReleaseFails(r) PROVE Pays
  BY <1>13 DEF ReleaseFails, Fault, Announced, checkout, chain, goods, queue, listening
<1>14. ASSUME NEW l \in Instances, Hear(l) PROVE Pays
  BY <1>14 DEF Hear, checkout, chain, goods, queue, listening
<1>15. ASSUME NEW l \in Instances, Look(l) PROVE Pays
  BY <1>15 DEF Look, Fault, Advance, checkout, chain, goods, queue, listening
<1>16. ASSUME NEW l \in Instances, CancelByListener(l) PROVE Pays
  BY <1>16 DEF CancelByListener, CancelEffect, Advance, checkout, chain, goods, queue,
       listening
<1>16a. ASSUME NEW l \in Instances, ScheduleByListener(l) PROVE Pays
  BY <1>16a DEF ScheduleByListener, Fault, Advance, checkout, chain, goods,
       queue, listening
<1>17. ASSUME NEW l \in Instances, ReleaseByListener(l) PROVE Pays
  BY <1>17 DEF ReleaseByListener, Fault, Freed, Free, checkout, chain, goods, queue,
       listening
<1>18. ASSUME NEW l \in Instances, ListenerDies(l) PROVE Pays
  BY <1>18 DEF ListenerDies, Fault, checkout, chain, goods, queue, listening
<1>19. CASE GhostExpires
  BY <1>19 DEF GhostExpires, checkout, chain, goods, queue, listening
<1>20. CASE UNCHANGED vars
  BY <1>20 DEF vars, checkout, chain, goods, queue, listening
<1> QED
  BY <1>1, <1>2, <1>3, <1>4, <1>5, <1>6, <1>7, <1>8, <1>9, <1>10, <1>11,
     <1>12, <1>13, <1>14, <1>15, <1>16, <1>17, <1>18, <1>19, <1>20,
     <1>8a, <1>8b, <1>11a, <1>16a
  DEF Next, RunJob, Listen

LEMMA HeldFirstStep ==
  Typed /\ HeldFirst /\ [Next]_vars => HeldFirst'
<1> SUFFICES ASSUME Typed, HeldFirst, [Next]_vars, NEW o \in Orders,
                    flow'[o] = "pay" \/ o \in intents'
             PROVE  (HoldsOf(o) # {})'
  BY DEF HeldFirst
<1>1. flow[o] = "pay" \/ o \in intents \/ (HoldsOf(o) # {})'
  BY PaysStep DEF Pays
<1> QED
  BY <1>1, OrdersKeepHolds DEF HeldFirst

(* The record of who was cancelled under its flow.                         *)
LEMMA NotedStep ==
  Typed /\ Noted /\ [Next]_vars => Noted'
<1> SUFFICES ASSUME Typed, Noted, [Next]_vars PROVE Noted'
  OBVIOUS
<1> USE SagaAssumption DEF Typed, Marks, Noted, Flows, Running, Placed
<1>1. ASSUME NEW o \in Orders, Checkout(o) PROVE Noted'
  BY <1>1 DEF Checkout, checkout, chain, goods, queue, listening
<1>2. ASSUME NEW o \in Orders, ScheduleCheckout(o) PROVE Noted'
  BY <1>2 DEF ScheduleCheckout, Chain, checkout, chain, goods, queue, listening
<1>3. ASSUME NEW o \in Orders, ScheduleFails(o) PROVE Noted'
  BY <1>3 DEF ScheduleFails, Fault, checkout, chain, goods, queue, listening
<1>4. ASSUME NEW o \in Orders, ValidateCart(o) PROVE Noted'
  BY <1>4 DEF ValidateCart, Done, NextJob, Failed, Announced, Fault, checkout, chain,
       goods, queue, listening
<1>5. ASSUME NEW o \in Orders, ValidationErrs(o) PROVE Noted'
  BY <1>5 DEF ValidationErrs, Failed, Announced, checkout, chain, goods, queue, listening
<1>6. ASSUME NEW o \in Orders, ReserveStock(o) PROVE Noted'
  BY <1>6 DEF ReserveStock, HoldFor, Done, NextJob, Failed, Announced, Fault, checkout,
       chain, goods, queue, listening
<1>7. ASSUME NEW o \in Orders, ProcessPayment(o) PROVE Noted'
  BY <1>7 DEF ProcessPayment, Done, NextJob, Failed, Announced, Fault, checkout, chain,
       goods, queue, listening
<1>8. ASSUME NEW o \in Orders, Cancel(o) PROVE Noted'
  BY <1>8 DEF Cancel, CancelEffect, checkout, chain, goods, queue, listening
<1>8a. ASSUME NEW o \in Orders, ScheduleRelease(o) PROVE Noted'
  BY <1>8a DEF ScheduleRelease, checkout, chain, goods, queue, listening
<1>8b. ASSUME NEW o \in Orders, ReleaseUnscheduled(o) PROVE Noted'
  BY <1>8b DEF ReleaseUnscheduled, Fault, checkout, chain, goods, queue,
       listening
<1>9. ASSUME NEW o \in Orders, Confirm(o) PROVE Noted'
  BY <1>9 DEF Confirm, checkout, chain, goods, queue, listening
<1>10. ASSUME NEW o \in Orders, ConfirmReservation(o) PROVE Noted'
  BY <1>10 DEF ConfirmReservation, Announced, checkout, chain, goods, queue, listening
<1>11. ASSUME NEW o \in Orders, ReleaseOrderStock(o) PROVE Noted'
  BY <1>11 DEF ReleaseOrderStock, Fault, checkout, chain, goods, queue, listening
<1>11a. ASSUME NEW o \in Orders, ListingFails(o) PROVE Noted'
  BY <1>11a DEF ListingFails, Fault, Announced, checkout, chain, goods, queue,
       listening
<1>12. ASSUME NEW r \in Holds, ReleaseStock(r) PROVE Noted'
  BY <1>12 DEF ReleaseStock, Freed, Free, checkout, chain, goods, queue, listening
<1>13. ASSUME NEW r \in Holds, ReleaseFails(r) PROVE Noted'
  BY <1>13 DEF ReleaseFails, Fault, Announced, checkout, chain, goods, queue, listening
<1>14. ASSUME NEW l \in Instances, Hear(l) PROVE Noted'
  BY <1>14 DEF Hear, checkout, chain, goods, queue, listening
<1>15. ASSUME NEW l \in Instances, Look(l) PROVE Noted'
  BY <1>15 DEF Look, Fault, Advance, checkout, chain, goods, queue, listening
<1>16. ASSUME NEW l \in Instances, CancelByListener(l) PROVE Noted'
  BY <1>16 DEF CancelByListener, CancelEffect, Advance, checkout, chain, goods, queue,
       listening
<1>16a. ASSUME NEW l \in Instances, ScheduleByListener(l) PROVE Noted'
  BY <1>16a DEF ScheduleByListener, Fault, Advance, checkout, chain, goods,
       queue, listening
<1>17. ASSUME NEW l \in Instances, ReleaseByListener(l) PROVE Noted'
  BY <1>17 DEF ReleaseByListener, Fault, Freed, Free, checkout, chain, goods, queue,
       listening
<1>18. ASSUME NEW l \in Instances, ListenerDies(l) PROVE Noted'
  BY <1>18 DEF ListenerDies, Fault, checkout, chain, goods, queue, listening
<1>19. CASE GhostExpires
  BY <1>19 DEF GhostExpires, checkout, chain, goods, queue, listening
<1>20. CASE UNCHANGED vars
  BY <1>20 DEF vars, checkout, chain, goods, queue, listening
<1> QED
  BY <1>1, <1>2, <1>3, <1>4, <1>5, <1>6, <1>7, <1>8, <1>9, <1>10, <1>11,
     <1>12, <1>13, <1>14, <1>15, <1>16, <1>17, <1>18, <1>19, <1>20,
     <1>8a, <1>8b, <1>11a, <1>16a
  DEF Next, RunJob, Listen

(* The one fault there may be.                                             *)
LEMMA LastFault ==
  ASSUME Typed, NEW k, NEW S, Fault(k, S)
  PROVE  /\ faults < MaxFaults /\ faults' = MaxFaults
         /\ forgotten' = forgotten \cup S
  BY SagaAssumption DEF Typed, Marks, Fault

(* Faults are counted, and a flow goes forward only.                       *)
Onward == /\ faults' = faults \/ faults' = MaxFaults
          /\ \A o \in Orders : flow'[o] \in Early => flow[o] \in Early

LEMMA OnwardStep == Base /\ [Next]_vars => Onward
<1> SUFFICES ASSUME Base, [Next]_vars PROVE Onward
  OBVIOUS
<1> USE DEF Base
<1>1. ASSUME UNCHANGED flow, UNCHANGED troubles \/ \E k, S : Fault(k, S) PROVE Onward
  BY <1>1, LastFault DEF Onward
<1>2. ASSUME NEW o \in Orders, flow[o] \in Running, Done(o) PROVE Onward
  BY <1>2, LastFault DEF Done, NextJob, Running, Early, Onward, Typed, Marks
<1>3. ASSUME NEW o \in Orders, Failed(o) PROVE Onward
  BY <1>3 DEF Failed, Early, Onward, Typed, Marks
<1>4. ASSUME NEW o \in Orders,
             \/ ValidateCart(o) \/ ReserveStock(o) \/ ProcessPayment(o)
             \/ ValidationErrs(o)
      PROVE  Onward
  <2>1. \/ flow[o] \in Running /\ Done(o)
        \/ Failed(o)
        \/ UNCHANGED <<flow, troubles>>
    BY <1>4 DEF ValidateCart, ReserveStock, ProcessPayment, ValidationErrs, Running
  <2> QED
    BY <1>1, <1>2, <1>3, <2>1
<1>5. ASSUME NEW o \in Orders, Checkout(o) \/ ScheduleCheckout(o) \/ ScheduleFails(o)
      PROVE  Onward
  <2>1. faults' = faults \/ faults' = MaxFaults
    BY <1>5, LastFault DEF Checkout, ScheduleCheckout, ScheduleFails
  <2>2. flow[o] \in {"none", "unscheduled"}
    BY <1>5 DEF Checkout, ScheduleCheckout, ScheduleFails, OfSaved
  <2>3. \A q \in Orders : q # o => flow'[q] = flow[q]
    BY <1>5 DEF Checkout, ScheduleCheckout, ScheduleFails, Typed, Marks
  <2> QED
    BY <2>1, <2>2, <2>3 DEF Onward, Early
<1>6. ASSUME NEW o \in Orders,
             \/ Cancel(o) \/ ScheduleRelease(o) \/ ReleaseUnscheduled(o) \/ Confirm(o)
             \/ ConfirmReservation(o) \/ ReleaseOrderStock(o) \/ ListingFails(o)
      PROVE  Onward
  <2>1. UNCHANGED flow /\ (UNCHANGED troubles \/ \E k, S : Fault(k, S))
    BY <1>6 DEF Cancel, ScheduleRelease, ReleaseUnscheduled, Confirm, ConfirmReservation,
                ReleaseOrderStock, ListingFails, chain
  <2> QED
    BY <1>1, <2>1
<1>7. ASSUME NEW r \in Holds, ReleaseStock(r) \/ ReleaseFails(r) PROVE Onward
  <2>1. UNCHANGED flow /\ (UNCHANGED troubles \/ \E k, S : Fault(k, S))
    BY <1>7 DEF ReleaseStock, ReleaseFails, chain
  <2> QED
    BY <1>1, <2>1
<1>8. ASSUME NEW l \in Instances, Listen(l) \/ ListenerDies(l) PROVE Onward
  <2>1. UNCHANGED flow /\ (UNCHANGED troubles \/ \E k, S : Fault(k, S))
    BY <1>8 DEF Listen, Hear, Look, CancelByListener, ScheduleByListener,
                ReleaseByListener, ListenerDies, chain
  <2> QED
    BY <1>1, <2>1
<1>9. CASE GhostExpires \/ UNCHANGED vars
  BY <1>1, <1>9 DEF GhostExpires, vars, chain
<1> QED
  BY <1>4, <1>5, <1>6, <1>7, <1>8, <1>9 DEF Next, RunJob

(* A reservation is added by a job that will not run again, or stalled.    *)
LEMMA SingleStep == Base /\ Single /\ [Next]_vars => Single'
<1> SUFFICES ASSUME Base, Single, [Next]_vars, (faults < MaxFaults)', NEW o \in Orders
             PROVE  /\ flow'[o] \in Early => (HoldsOf(o) = {})'
                    /\ \A q, r \in HoldsOf(o)' : q = r
  BY DEF Single
<1> USE DEF Base
<1>1. faults' = faults /\ faults < MaxFaults /\ (flow'[o] \in Early => flow[o] \in Early)
  BY OnwardStep, SagaAssumption DEF Onward
<1>2. CASE ~ReserveStock(o)
  BY <1>1, <1>2, HoldsSame DEF Single
<1>3. CASE ReserveStock(o)
  <2>1. HoldsOf(o) = {}
    BY <1>1, <1>3 DEF ReserveStock, Single, Early
  <2>2. flow'[o] \notin Early
    <3>1. Done(o) \/ Failed(o)
      BY <1>3 DEF ReserveStock
    <3>2. CASE Failed(o)
      BY <3>2 DEF Failed, Early, Typed, Marks
    <3>3. CASE Done(o)
      BY <1>1, <1>3, <3>3, LastFault DEF Done, NextJob, ReserveStock, Early, Typed, Marks
    <3> QED
      BY <3>1, <3>2, <3>3
  <2>3. CASE holds' = holds
    BY <2>1, <2>2, <2>3 DEF HoldsOf
  <2>4. ASSUME NEW q \in Holds, holds' = [holds EXCEPT ![q] = HoldFor(o, items[o])]
        PROVE  HoldsOf(o)' \subseteq {q}
    BY <2>1, <2>4 DEF HoldsOf, Typed, Reserved
  <2> QED
    BY <1>3, <2>2, <2>3, <2>4 DEF ReserveStock
<1> QED
  BY <1>2, <1>3

(* What is noted or forgotten stays so, and an order is cancelled by a     *)
(* request or by the listener.                                             *)
ByListener(l, o) ==
  CancelByListener(l) /\ Advance(l, listener[l].hold, o, "schedule")
Cancelling(o) == /\ o \in meddled \cup forgotten => o \in meddled' \cup forgotten'
                 /\ status'[o] = "CANCELLED" =>
                      \/ status[o] = "CANCELLED" \/ Cancel(o)
                      \/ \E l \in Instances : ByListener(l, o)

LEMMA CancellingStep ==
  ASSUME Base, [Next]_vars, NEW o \in Orders
  PROVE  Cancelling(o)
<1> USE DEF Base
<1>1. ASSUME UNCHANGED <<status, meddled>>, UNCHANGED troubles \/ \E k, S : Fault(k, S)
      PROVE  Cancelling(o)
  BY <1>1, LastFault DEF Cancelling
<1>2. ASSUME NEW p \in Orders, CancelEffect(p)
      PROVE  meddled \subseteq meddled' /\ (p # o => status'[o] = status[o])
  BY <1>2 DEF CancelEffect, Typed, Marks
<1>3. ASSUME NEW p \in Orders, Cancel(p) PROVE Cancelling(o)
  BY <1>2, <1>3 DEF Cancel, Cancelling
<1>4. ASSUME NEW l \in Instances, CancelByListener(l) PROVE Cancelling(o)
  <2> DEFINE U == Undefined
  <2>1. U.order \in Orders
    BY <1>4, UndefinedType DEF CancelByListener
  <2>2. /\ UNCHANGED troubles
        /\ \/ /\ CancelEffect(U.order)
              /\ Advance(l, listener[l].hold, U.order, "schedule")
           \/ UNCHANGED <<status, meddled>>
    BY <1>4 DEF CancelByListener
  <2> HIDE DEF U
  <2>3. CASE UNCHANGED <<status, meddled>>
    BY <1>1, <2>2, <2>3
  <2>4. CASE CancelEffect(U.order) /\ Advance(l, listener[l].hold, U.order, "schedule")
    BY <1>2, <1>4, <2>1, <2>2, <2>4 DEF Cancelling, ByListener
  <2> QED
    BY <2>2, <2>3, <2>4
<1>5. ASSUME NEW p \in Orders, Checkout(p) \/ Confirm(p) PROVE Cancelling(o)
  BY <1>5 DEF Checkout, Confirm, Cancelling, Typed, Marks
<1>6. ASSUME NEW p \in Orders,
             \/ ScheduleFails(p) \/ ScheduleCheckout(p) \/ ConfirmReservation(p)
             \/ ScheduleRelease(p) \/ ReleaseUnscheduled(p) \/ ReleaseOrderStock(p)
             \/ ListingFails(p)
      PROVE  Cancelling(o)
  <2>1. UNCHANGED <<status, meddled>> /\ (UNCHANGED troubles \/ \E k, S : Fault(k, S))
    BY <1>6 DEF ScheduleFails, ScheduleCheckout, ConfirmReservation, ScheduleRelease,
                ReleaseUnscheduled, ReleaseOrderStock, ListingFails, checkout
  <2> QED
    BY <1>1, <2>1
<1>7. ASSUME NEW p \in Orders,
             \/ ValidateCart(p) \/ ReserveStock(p) \/ ProcessPayment(p)
             \/ ValidationErrs(p)
      PROVE  Cancelling(o)
  <2>1. UNCHANGED <<status, meddled>> /\ (UNCHANGED troubles \/ \E k, S : Fault(k, S))
    BY <1>7 DEF ValidateCart, ReserveStock, ProcessPayment, ValidationErrs, Done, Failed,
                checkout
  <2> QED
    BY <1>1, <2>1
<1>8. ASSUME NEW r \in Holds, ReleaseStock(r) \/ ReleaseFails(r) PROVE Cancelling(o)
  <2>1. UNCHANGED <<status, meddled>> /\ (UNCHANGED troubles \/ \E k, S : Fault(k, S))
    BY <1>8 DEF ReleaseStock, ReleaseFails, checkout
  <2> QED
    BY <1>1, <2>1
<1>9. ASSUME NEW l \in Instances,
             \/ Hear(l) \/ Look(l) \/ ScheduleByListener(l) \/ ReleaseByListener(l)
             \/ ListenerDies(l)
      PROVE  Cancelling(o)
  <2>1. UNCHANGED <<status, meddled>> /\ (UNCHANGED troubles \/ \E k, S : Fault(k, S))
    BY <1>9 DEF Hear, Look, ScheduleByListener, ReleaseByListener, ListenerDies, checkout
  <2> QED
    BY <1>1, <2>1
<1>10. CASE GhostExpires \/ UNCHANGED vars
  BY <1>1, <1>10 DEF GhostExpires, vars, checkout
<1> QED
  BY <1>3, <1>4, <1>5, <1>6, <1>7, <1>8, <1>9, <1>10 DEF Next, RunJob, Listen

(* Sets of orders that were given an id.                                   *)
LEMMA NamedStep == Base /\ [Next]_vars => Named'
<1> SUFFICES ASSUME Base, [Next]_vars PROVE Named'
  OBVIOUS
<1> USE DEF Base, Named
<1>1. ASSUME NEW o \in Orders, CancelEffect(o)
      PROVE  UNCHANGED cash /\ meddled' \subseteq Orders
  BY <1>1 DEF CancelEffect
<1>2. ASSUME NEW o \in Orders, Cancel(o) PROVE Named'
  BY <1>1, <1>2 DEF Cancel, queue, listening
<1>3. ASSUME NEW l \in Instances, CancelByListener(l) PROVE Named'
  <2> DEFINE U == Undefined
  <2>1. U \in [order : Orders, status : Placed] /\ U.order \in Orders
    BY <1>3, UndefinedType DEF CancelByListener
  <2>2. /\ ghost' = U
        /\ CancelEffect(U.order) \/ UNCHANGED <<cash, status, meddled>>
        /\ UNCHANGED <<owed, releases, forgotten>>
    BY <1>3 DEF CancelByListener, queue
  <2> HIDE DEF U
  <2> QED
    BY <1>1, <2>1, <2>2
<1>4. ASSUME NEW o \in Orders,
             \/ Checkout(o) \/ ScheduleFails(o) \/ ScheduleCheckout(o) \/ Confirm(o)
             \/ ConfirmReservation(o)
      PROVE  Named'
  BY <1>4 DEF Checkout, ScheduleFails, ScheduleCheckout, Confirm, ConfirmReservation,
              Fault, checkout, queue, listening
<1>5. ASSUME NEW o \in Orders,
             \/ ValidateCart(o) \/ ReserveStock(o) \/ ProcessPayment(o)
             \/ ValidationErrs(o)
      PROVE  Named'
  BY <1>5 DEF ValidateCart, ReserveStock, ProcessPayment, ValidationErrs, Done, Failed,
              Fault, checkout, queue, listening
<1>6. ASSUME NEW o \in Orders,
             \/ ScheduleRelease(o) \/ ReleaseUnscheduled(o) \/ ReleaseOrderStock(o)
             \/ ListingFails(o)
      PROVE  Named'
  BY <1>6 DEF ScheduleRelease, ReleaseUnscheduled, ReleaseOrderStock, ListingFails, Fault,
              checkout, queue, listening
<1>7. ASSUME NEW r \in Holds, ReleaseStock(r) \/ ReleaseFails(r) PROVE Named'
  BY <1>7 DEF ReleaseStock, ReleaseFails, Fault, checkout, listening
<1>8. ASSUME NEW l \in Instances, Hear(l) \/ ReleaseByListener(l) \/ ListenerDies(l)
      PROVE  Named'
  BY <1>8 DEF Hear, ReleaseByListener, ListenerDies, OrderOf, Tasks, Fault, checkout, queue
<1>9. ASSUME NEW l \in Instances, Look(l) PROVE Named'
  <2>1. listener[l] # None /\ listener[l].step = "look" /\ listener[l] \in Compensation
    BY <1>9 DEF Look, Typed, Posted
  <2>2. listener[l].event.order \in Orders
    BY <2>1 DEF OfSaved, Compensation, Event
  <2> QED
    BY <1>9, <2>2 DEF Look, Fault, checkout, queue
<1>10. ASSUME NEW l \in Instances, ScheduleByListener(l) PROVE Named'
  <2>1. /\ listener[l] # None /\ listener[l].step = "schedule"
        /\ listener[l] \in Compensation
    BY <1>10 DEF ScheduleByListener, Typed, Posted
  <2>2. listener[l].owes \in Orders
    BY <2>1 DEF OfSaved, Compensation
  <2> QED
    BY <1>10, <2>2 DEF ScheduleByListener, Fault, checkout
<1>11. CASE GhostExpires \/ UNCHANGED vars
  BY <1>11 DEF GhostExpires, vars, checkout, queue, listening
<1> QED
  BY <1>2, <1>3, <1>4, <1>5, <1>6, <1>7, <1>8, <1>9, <1>10, <1>11
  DEF Next, RunJob, Listen

(* An order that was saved stays.                                          *)
LEMMA SavedStay ==
  ASSUME Typed, [Next]_vars, NEW o \in Orders, status[o] # None
  PROVE  status'[o] # None
<1> USE SagaAssumption DEF Placed, Typed, Marks
<1>1. ASSUME NEW p, CancelEffect(p) PROVE status'[o] # None
  BY <1>1 DEF CancelEffect
<1>2. ASSUME NEW p \in Orders, Checkout(p) \/ Confirm(p) PROVE status'[o] # None
  BY <1>2 DEF Checkout, Confirm
<1>3. ASSUME NEW p \in Orders, Cancel(p) PROVE status'[o] # None
  BY <1>1, <1>3 DEF Cancel
<1>4. ASSUME NEW l \in Instances, CancelByListener(l) PROVE status'[o] # None
  <2> DEFINE U == Undefined
  <2>1. CancelEffect(U.order) \/ UNCHANGED status
    BY <1>4 DEF CancelByListener
  <2> HIDE DEF U
  <2> QED
    BY <1>1, <2>1
<1>5. ASSUME NEW p \in Orders,
             \/ ScheduleFails(p) \/ ScheduleCheckout(p) \/ ConfirmReservation(p)
             \/ ScheduleRelease(p) \/ ReleaseUnscheduled(p) \/ ReleaseOrderStock(p)
             \/ ListingFails(p) \/ ValidateCart(p) \/ ReserveStock(p)
             \/ ProcessPayment(p) \/ ValidationErrs(p)
      PROVE  UNCHANGED status
  BY <1>5 DEF ScheduleFails, ScheduleCheckout, ConfirmReservation, ScheduleRelease,
              ReleaseUnscheduled, ReleaseOrderStock, ListingFails, ValidateCart,
              ReserveStock, ProcessPayment, ValidationErrs, checkout
<1>6. ASSUME NEW r \in Holds, ReleaseStock(r) \/ ReleaseFails(r) PROVE UNCHANGED status
  BY <1>6 DEF ReleaseStock, ReleaseFails, checkout
<1>7. ASSUME NEW l \in Instances,
             \/ Hear(l) \/ Look(l) \/ ScheduleByListener(l) \/ ReleaseByListener(l)
             \/ ListenerDies(l)
      PROVE  UNCHANGED status
  BY <1>7 DEF Hear, Look, ScheduleByListener, ReleaseByListener, ListenerDies, checkout
<1>8. CASE GhostExpires \/ UNCHANGED vars
  BY <1>8 DEF GhostExpires, vars, checkout
<1> QED
  BY <1>2, <1>3, <1>4, <1>5, <1>6, <1>7, <1>8 DEF Next, RunJob, Listen

(* What is owed, and the cached order, were saved too.                     *)
LEMMA OwedSaved ==
  ASSUME Base, [Next]_vars
  PROVE  /\ \A o \in owed' \cup releases' : status'[o] # None
         /\ ghost' # None => status'[ghost'.order] # None
<1> USE DEF Base
<1>1. \A o \in Orders : status[o] # None => status'[o] # None
  BY SavedStay
<1>2. /\ \A o \in owed \cup releases : o \in Orders /\ status'[o] # None
      /\ ghost # None => status'[ghost.order] # None
  BY <1>1 DEF OfSaved, Named
<1> DEFINE More(o) == /\ owed' \cup releases' \subseteq owed \cup releases \cup {o}
                      /\ o \in Orders /\ status'[o] # None
                      /\ ghost' = ghost
           Less == /\ owed' \cup releases' \subseteq owed \cup releases
                   /\ ghost' \in {ghost, None}
           Goal == /\ \A o \in owed' \cup releases' : status'[o] # None
                   /\ ghost' # None => status'[ghost'.order] # None
<1>3. Less => Goal
  BY <1>2
<1>4. ASSUME NEW o, More(o) PROVE Goal
  BY <1>2, <1>4
<1>5. ASSUME NEW o \in Orders, Cancel(o) PROVE Goal
  <2>1. status'[o] # None
    BY <1>5, SagaAssumption DEF Cancel, CancelEffect, Placed, Typed, Marks
  <2> QED
    BY <1>4, <1>5, <2>1 DEF Cancel, queue, listening
<1>6. ASSUME NEW o \in Orders, ScheduleRelease(o) \/ ReleaseUnscheduled(o) PROVE Less
  BY <1>6 DEF ScheduleRelease, ReleaseUnscheduled, queue, listening
<1>7. ASSUME NEW l \in Instances, CancelByListener(l) PROVE Goal
  <2> DEFINE U == Undefined
  <2>1. U.order \in Orders /\ status[U.order] # None
    BY <1>7, UndefinedType DEF CancelByListener
  <2>2. ghost' = U /\ UNCHANGED <<owed, releases>>
    BY <1>7 DEF CancelByListener, queue
  <2> HIDE DEF U
  <2> QED
    BY <1>1, <1>2, <2>1, <2>2
<1>8. ASSUME NEW l \in Instances, ScheduleByListener(l) PROVE Goal
  <2> DEFINE p == listener[l].owes
  <2>1. listener[l] # None /\ listener[l].step = "schedule" /\ listener[l] \in Compensation
    BY <1>8 DEF ScheduleByListener, Typed, Posted
  <2>2. p \in Orders /\ status[p] # None
    BY <2>1 DEF OfSaved, Compensation
  <2>3. /\ owed' = owed /\ ghost' = ghost
        /\ releases' \subseteq releases \cup {p}
    BY <1>8 DEF ScheduleByListener, checkout
  <2> HIDE DEF p
  <2> QED
    BY <1>1, <1>4, <2>2, <2>3
<1>9. ASSUME NEW o \in Orders,
             \/ Checkout(o) \/ ScheduleCheckout(o) \/ ScheduleFails(o) \/ Confirm(o)
             \/ ConfirmReservation(o) \/ ReleaseOrderStock(o) \/ ListingFails(o)
      PROVE  Less
  BY <1>9 DEF Checkout, ScheduleCheckout, ScheduleFails, Confirm, ConfirmReservation,
              ReleaseOrderStock, ListingFails, checkout, queue, listening
<1>10. ASSUME NEW o \in Orders,
              \/ ValidateCart(o) \/ ReserveStock(o) \/ ProcessPayment(o)
              \/ ValidationErrs(o)
       PROVE  Less
  BY <1>10 DEF ValidateCart, ReserveStock, ProcessPayment, ValidationErrs, Done, Failed,
               checkout, queue, listening
<1>11. ASSUME NEW r \in Holds, ReleaseStock(r) \/ ReleaseFails(r) PROVE Less
  BY <1>11 DEF ReleaseStock, ReleaseFails, checkout, listening
<1>12. ASSUME NEW l \in Instances,
              Hear(l) \/ Look(l) \/ ReleaseByListener(l) \/ ListenerDies(l)
       PROVE  Less
  BY <1>12 DEF Hear, Look, ReleaseByListener, ListenerDies, checkout, queue
<1>13. ASSUME GhostExpires \/ UNCHANGED vars PROVE Less
  BY <1>13 DEF GhostExpires, vars, checkout, queue
<1> HIDE DEF Goal, Less, More
<1>14. Goal
  BY <1>3, <1>5, <1>6, <1>7, <1>8, <1>9, <1>10, <1>11, <1>12, <1>13
  DEF Next, RunJob, Listen
<1> QED
  BY <1>14 DEF Goal

(* Whoever puts something on the queue does so for an order that is saved. *)
LEMMA OfSavedStep ==
  Base /\ [Next]_vars => OfSaved'
<1> SUFFICES ASSUME Base, [Next]_vars PROVE OfSaved'
  OBVIOUS
<1> DEFINE Event0(e) == e.order # None => status[e.order] # None
           Event1(e) == e.order # None => status'[e.order] # None
           Comp0(c) ==
             /\ c # None /\ c.step \in {"look", "cancel"} =>
                  c.event.order # None /\ status[c.event.order] # None
             /\ c # None /\ c.step = "schedule" => c.owes # None /\ status[c.owes] # None
           Comp1(c) ==
             /\ c # None /\ c.step \in {"look", "cancel"} =>
                  c.event.order # None /\ status'[c.event.order] # None
             /\ c # None /\ c.step = "schedule" => c.owes # None /\ status'[c.owes] # None
<1> USE DEF Base
<1>1. \A o \in Orders : status[o] # None => status'[o] # None
  BY SavedStay
<1>2. \A e \in Event : Event0(e) => Event1(e)
  BY <1>1 DEF Event
<1>3. \A c \in Compensation \cup {None} : Comp0(c) => Comp1(c)
  BY <1>1 DEF Compensation, Event
<1>4. /\ \A l \in Instances : /\ \A e \in events[l] : e \in Event /\ Event0(e)
                              /\ listener[l] \in Compensation \cup {None}
                              /\ Comp0(listener[l])
      /\ \A p \in post : p \in Event /\ p.order # None /\ Event0(p)
      /\ \A o \in Orders : flow[o] # "none" => status[o] # None
  <2>1. \A p \in post : p \in [order : Orders, hold : Holds]
    BY DEF Typed, Posted
  <2>2. \A p \in post : p \in Event /\ p.order # None
    BY <2>1, Letters, SagaAssumption
  <2> QED
    BY <2>2 DEF OfSaved, Typed, Posted
<1>5. SUFFICES /\ \A l \in Instances : /\ \A e \in events'[l] : Event1(e)
                                       /\ Comp1(listener'[l])
               /\ \A p \in post' : p.order # None /\ Event1(p)
               /\ \A o \in Orders : flow'[o] # "none" => status'[o] # None
  BY OwedSaved DEF OfSaved
<1> DEFINE Flowing == \A o \in Orders : flow'[o] # "none" => status'[o] # None
           Awaited == \A p \in post' : p.order # None /\ Event1(p)
           Told == \A l \in Instances : \A e \in events'[l] : Event1(e)
           Heard == \A l \in Instances : Comp1(listener'[l])
<1>6. flow' = flow => Flowing
  BY <1>1, <1>4
<1>7. post' = post => Awaited
  BY <1>2, <1>4
<1>8. events' = events => Told
  BY <1>2, <1>4
<1>9. listener' = listener => Heard
  BY <1>3, <1>4
<1>10. ASSUME NEW e \in Event, Event1(e), events' = Announced(e) PROVE Told
  BY <1>2, <1>4, <1>10 DEF Announced
<1>11. ASSUME NEW o \in Orders, flow[o] # "none", Failed(o) PROVE Flowing /\ Awaited /\ Told
  <2>1. [order |-> o, hold |-> None] \in Event /\ Event1([order |-> o, hold |-> None])
    BY <1>1, <1>4, <1>11, Letters
  <2>2. Flowing
    BY <1>1, <1>4, <1>11 DEF Failed, Typed, Marks
  <2>3. Awaited /\ Told
    <3> HIDE DEF Awaited, Told, Event1
    <3> QED
      BY <1>7, <1>10, <1>11, <2>1 DEF Failed
  <2> QED
    BY <2>2, <2>3
<1>12. ASSUME NEW o \in Orders, flow[o] # "none", Done(o) PROVE Flowing /\ Awaited /\ Told
  <2>1. Flowing
    BY <1>1, <1>4, <1>12 DEF Done, Typed, Marks
  <2>2. Awaited /\ Told
    <3> HIDE DEF Awaited, Told
    <3> QED
      BY <1>7, <1>8, <1>12 DEF Done, queue
  <2> QED
    BY <2>1, <2>2
<1> DEFINE Goal == Flowing /\ Awaited /\ Told /\ Heard
<1>13. ASSUME NEW o \in Orders,
              \/ ValidateCart(o) \/ ReserveStock(o) \/ ProcessPayment(o) \/ ValidationErrs(o)
       PROVE  Goal
  <2> HIDE DEF Flowing, Awaited, Told, Heard
  <2>1. /\ flow[o] # "none" /\ listener' = listener
        /\ Done(o) \/ Failed(o) \/ UNCHANGED <<flow, post, events>>
    BY <1>13 DEF ValidateCart, ReserveStock, ProcessPayment, ValidationErrs, queue,
         listening
  <2> QED
    BY <1>6, <1>7, <1>8, <1>9, <1>11, <1>12, <2>1
<1>14. ASSUME NEW o \in Orders, Checkout(o) \/ ScheduleFails(o) \/ ScheduleCheckout(o)
       PROVE  Goal
  <2>1. Flowing
    BY <1>1, <1>4, <1>14, SagaAssumption
    DEF Checkout, ScheduleFails, ScheduleCheckout, checkout, Typed, Marks, Placed
  <2> HIDE DEF Flowing, Awaited, Told, Heard
  <2> QED
    BY <1>7, <1>8, <1>9, <1>14, <2>1
    DEF Checkout, ScheduleFails, ScheduleCheckout, queue, listening
<1>15. ASSUME NEW o \in Orders, Confirm(o) PROVE Goal
  <2>1. Awaited
    <3>1. status[o] # None /\ o # None
      BY <1>15, SagaAssumption DEF Confirm, Placed
    <3>2. \A p \in post' : p \in post \/ p.order = o
      BY <1>15 DEF Confirm
    <3> QED
      BY <1>1, <1>2, <1>4, <3>1, <3>2
  <2> HIDE DEF Flowing, Awaited, Told, Heard
  <2> QED
    BY <1>6, <1>8, <1>9, <1>15, <2>1 DEF Confirm, chain, listening
<1>16. ASSUME NEW o \in Orders, ConfirmReservation(o) PROVE Goal
  <2>1. PICK p \in post : post' = post \ {p} /\ events' = Announced(p)
    BY <1>16 DEF ConfirmReservation
  <2>2. p \in Event /\ Event1(p)
    BY <1>2, <1>4
  <2>3. Awaited
    BY <1>2, <1>4, <2>1
  <2> HIDE DEF Flowing, Awaited, Told, Heard, Event1
  <2> QED
    BY <1>6, <1>9, <1>10, <1>16, <2>1, <2>2, <2>3 DEF ConfirmReservation, chain, listening
<1>17. ASSUME NEW o \in Orders,
              \/ ReleaseOrderStock(o) \/ Cancel(o) \/ ScheduleRelease(o)
              \/ ReleaseUnscheduled(o)
       PROVE  Goal
  <2> HIDE DEF Flowing, Awaited, Told, Heard
  <2> QED
    BY <1>6, <1>7, <1>8, <1>9, <1>17
    DEF ReleaseOrderStock, Cancel, ScheduleRelease, ReleaseUnscheduled, chain, queue,
        listening
<1>17a. ASSUME NEW o \in Orders, ListingFails(o) PROVE Goal
  <2>1. status[o] # None
    BY <1>17a DEF ListingFails, OfSaved
  <2>2. [order |-> o, hold |-> None] \in Event /\ Event1([order |-> o, hold |-> None])
    BY <1>1, <2>1, Letters
  <2> HIDE DEF Flowing, Awaited, Told, Heard, Event1
  <2> QED
    BY <1>6, <1>7, <1>9, <1>10, <1>17a, <2>2 DEF ListingFails, chain, listening
<1>18. ASSUME NEW r \in Holds, ReleaseStock(r) PROVE Goal
  <2> HIDE DEF Flowing, Awaited, Told, Heard
  <2> QED
    BY <1>6, <1>7, <1>8, <1>9, <1>18 DEF ReleaseStock, chain, listening
<1>19. ASSUME NEW r \in Holds, ReleaseFails(r) PROVE Goal
  <2>1. [order |-> None, hold |-> r] \in Event /\ Event1([order |-> None, hold |-> r])
    BY Letters
  <2> HIDE DEF Flowing, Awaited, Told, Heard, Event1
  <2> QED
    BY <1>6, <1>7, <1>9, <1>10, <1>19, <2>1 DEF ReleaseFails, chain, listening
<1>20. ASSUME NEW l \in Instances, Hear(l) PROVE Goal
  <2>1. PICK e \in events[l] :
          /\ events' = [events EXCEPT ![l] = events[l] \ {e}]
          /\ listener' = [listener EXCEPT ![l] =
               [event |-> e, hold |-> e.hold, owes |-> None,
                step |-> IF e.order = None THEN "release"
                         ELSE IF e.hold = None THEN "look" ELSE "cancel"]]
    BY <1>20 DEF Hear
  <2>2. e \in Event /\ Event1(e)
    BY <1>2, <1>4
  <2>3. \A k \in Instances : events'[k] \subseteq events[k]
    BY <2>1 DEF Typed, Posted
  <2>4. Told
    BY <1>2, <1>4, <2>3
  <2>5. Heard
    BY <1>3, <1>4, <2>1, <2>2 DEF Typed, Posted
  <2> HIDE DEF Flowing, Awaited, Told, Heard
  <2> QED
    BY <1>6, <1>7, <1>20, <2>4, <2>5 DEF Hear, chain
<1>21. ASSUME NEW l \in Instances, Look(l) PROVE Goal
  <2>1. PICK q : Advance(l, q, None, "cancel")
    BY <1>21 DEF Look
  <2>2. listener[l] # None /\ listener[l].step = "look" /\ Comp1(listener[l])
    BY <1>3, <1>4, <1>21 DEF Look
  <2>3. Heard
    BY <1>3, <1>4, <2>1, <2>2 DEF Advance, Typed, Posted
  <2> HIDE DEF Flowing, Awaited, Told, Heard
  <2> QED
    BY <1>6, <1>7, <1>8, <1>21, <2>3 DEF Look, chain, queue
<1>21a. ASSUME NEW l \in Instances, CancelByListener(l) PROVE Goal
  <2> DEFINE U == Undefined
  <2>1. U.order \in Orders /\ status[U.order] # None
    BY <1>21a, UndefinedType DEF CancelByListener
  <2>2. \/ Advance(l, listener[l].hold, U.order, "schedule")
        \/ Advance(l, listener[l].hold, None, "release")
    BY <1>21a DEF CancelByListener
  <2> HIDE DEF U
  <2>3. U.order # None /\ status'[U.order] # None
    BY <1>1, <2>1, SagaAssumption
  <2>4. Heard
    BY <1>3, <1>4, <2>2, <2>3 DEF Advance, Typed, Posted
  <2> HIDE DEF Flowing, Awaited, Told, Heard
  <2> QED
    BY <1>6, <1>7, <1>8, <1>21a, <2>4 DEF CancelByListener, chain, queue
<1>21b. ASSUME NEW l \in Instances, ScheduleByListener(l) PROVE Goal
  <2>1. Heard
    BY <1>3, <1>4, <1>21b DEF ScheduleByListener, Advance, Typed, Posted
  <2> HIDE DEF Flowing, Awaited, Told, Heard
  <2> QED
    BY <1>6, <1>7, <1>8, <1>21b, <2>1 DEF ScheduleByListener, chain
<1>22. ASSUME NEW l \in Instances, ReleaseByListener(l) \/ ListenerDies(l) PROVE Goal
  <2>1. /\ listener' = [listener EXCEPT ![l] = None]
        /\ events' \in {events, [events EXCEPT ![l] = {}]}
    BY <1>22 DEF ReleaseByListener, ListenerDies, queue
  <2>2. Heard
    BY <1>3, <1>4, <2>1 DEF Typed, Posted
  <2>3. Told
    BY <1>2, <1>4, <2>1 DEF Typed, Posted
  <2> HIDE DEF Flowing, Awaited, Told, Heard
  <2> QED
    BY <1>6, <1>7, <1>22, <2>2, <2>3 DEF ReleaseByListener, ListenerDies, chain, queue
<1>23. ASSUME GhostExpires \/ UNCHANGED vars PROVE Goal
  <2> HIDE DEF Flowing, Awaited, Told, Heard
  <2> QED
    BY <1>6, <1>7, <1>8, <1>9, <1>23 DEF GhostExpires, vars, chain, queue
<1>24. Goal
  <2> HIDE DEF Goal
  <2> QED
    BY <1>13, <1>14, <1>15, <1>16, <1>17, <1>17a, <1>18, <1>19, <1>20,
       <1>21, <1>21a, <1>21b, <1>22, <1>23
    DEF Next, RunJob, Listen
<1> QED
  BY <1>24

(* Nobody's stock is forgotten: first, by a step that drops nothing.       *)
LEMMA AddingKeeps ==
  ASSUME Base, NEW o \in Orders, NEW r \in Holds, Awaits(o, r),
         HoldsOf(o)' = HoldsOf(o), faults = MaxFaults => faults' = faults,
         o \in owed => o \in owed' \cup releases',
         o \in releases => o \in releases', r \in frees => r \in frees',
         \A l \in Instances : events[l] \subseteq events'[l] /\ listener'[l] = listener[l]
  PROVE  Awaits(o, r)'
<1>1. CASE o \in owed \/ o \in releases \/ r \in frees
  BY <1>1 DEF Awaits
<1>2. ASSUME NEW l \in Instances, OwedBy(l, o) PROVE Awaits(o, r)'
  BY <1>2 DEF OwedBy, Awaits
<1>3. ASSUME NEW l \in Instances, Bound(l, o, r), faults = MaxFaults PROVE Awaits(o, r)'
  BY <1>3 DEF Bound, ToldOf, Awaits
<1> QED
  BY <1>1, <1>2, <1>3 DEF Awaits, ToldOf

(* By a step of the listener l, as long as what it is bound to goes on.    *)
LEMMA ListeningKeeps ==
  ASSUME Base, NEW o \in Orders, NEW r \in Holds, Awaits(o, r),
         HoldsOf(o)' = HoldsOf(o), faults = MaxFaults => faults' = faults,
         NEW l \in Instances,
         owed' = owed, releases \subseteq releases', frees' = frees,
         \A k \in Instances : k # l => events'[k] = events[k] /\ listener'[k] = listener[k],
         OwedBy(l, o) => Awaits(o, r)',
         faults = MaxFaults /\ Bound(l, o, r) => Bound(l, o, r)'
  PROVE  Awaits(o, r)'
<1>1. CASE o \in owed \/ o \in releases \/ r \in frees
  BY <1>1 DEF Awaits
<1>2. ASSUME NEW k \in Instances, OwedBy(k, o) PROVE Awaits(o, r)'
  BY <1>2 DEF OwedBy, Awaits
<1>3. ASSUME NEW k \in Instances, Bound(k, o, r), faults = MaxFaults PROVE Awaits(o, r)'
  <2>1. Bound(k, o, r)'
    BY <1>3 DEF Bound
  <2> QED
    BY <1>3, <2>1 DEF ToldOf, Awaits
<1> QED
  BY <1>1, <1>2, <1>3 DEF Awaits, ToldOf

LEMMA BoundGoesOn ==
  ASSUME Base, NEW o \in Orders, NEW r \in Holds, NEW l \in Instances,
         HoldsOf(o)' = HoldsOf(o), r \in HoldsOf(o),
         holds[r].status = "RESERVED", holds'[r] = holds[r],
         faults = MaxFaults, Bound(l, o, r), Listen(l) \/ ListenerDies(l)
  PROVE  Bound(l, o, r)'
<1> USE DEF Base
<1>1. ASSUME NEW k, NEW S, Fault(k, S) PROVE FALSE
  BY <1>1, LastFault DEF Typed, Marks
<1>2. /\ listener \in [Instances -> {None} \cup Compensation]
      /\ listener[l] \in {None} \cup Compensation
      /\ events \in [Instances -> SUBSET Event] /\ events[l] \subseteq Event
  BY DEF Typed, Posted
<1>3. CASE Hear(l)
  <2>1. PICK e \in events[l] :
          /\ listener[l] = None
          /\ events' = [events EXCEPT ![l] = events[l] \ {e}]
          /\ listener' = [listener EXCEPT ![l] =
               [event |-> e, hold |-> e.hold, owes |-> None,
                step |-> IF e.order = None THEN "release"
                         ELSE IF e.hold = None THEN "look" ELSE "cancel"]]
    BY <1>3 DEF Hear
  <2>2. /\ listener'[l] =
             [event |-> e, hold |-> e.hold, owes |-> None,
              step |-> IF e.order = None THEN "release"
                       ELSE IF e.hold = None THEN "look" ELSE "cancel"]
        /\ events'[l] = events[l] \ {e}
    BY <1>2, <2>1
  <2>3. listener'[l] # None
    <3>1. e \in Event /\ e.hold \in Holds \cup {None}
      BY <1>2 DEF Event
    <3>2. listener'[l] \in Compensation
      BY <2>2, <3>1 DEF Compensation
    <3> QED
      BY <3>2, SagaAssumption
  <2>4. CASE e = [order |-> None, hold |-> r]
    BY <2>2, <2>3, <2>4 DEF Bound
  <2>5. CASE e = [order |-> o, hold |-> None] /\ HoldsOf(o) = {r}
    BY <2>2, <2>3, <2>5, SagaAssumption DEF Bound
  <2>6. CASE /\ e # [order |-> None, hold |-> r]
             /\ e # [order |-> o, hold |-> None] \/ HoldsOf(o) # {r}
    BY <2>1, <2>2, <2>6 DEF Bound
  <2> QED
    BY <2>4, <2>5, <2>6
<1>4. CASE Look(l)
  <2> DEFINE p == listener[l].event.order
  <2>1. /\ listener[l] # None /\ listener[l].step = "look" /\ events' = events
        /\ \E q \in FirstHoldOf(p) : Advance(l, q, None, "cancel")
    BY <1>1, <1>4 DEF Look, queue
  <2>2. CASE [order |-> None, hold |-> r] \in events[l]
    BY <2>1, <2>2 DEF Bound
  <2>3. CASE HoldsOf(o) = {r} /\ [order |-> o, hold |-> None] \in events[l]
    BY <2>1, <2>3 DEF Bound
  <2>4. CASE HoldsOf(o) = {r} /\ p = o
    <3>1. Advance(l, r, None, "cancel")
      BY <2>1, <2>4
    <3>2. listener'[l] = [event |-> listener[l].event, hold |-> r, owes |-> None,
                          step |-> "cancel"]
      BY <1>2, <3>1 DEF Advance
    <3>3. listener'[l] \in Compensation
      BY <1>2, <2>1, <3>2 DEF Compensation
    <3> QED
      BY <3>2, <3>3, SagaAssumption DEF Bound
  <2> QED
    BY <2>1, <2>2, <2>3, <2>4 DEF Bound
<1>5. CASE CancelByListener(l) \/ ScheduleByListener(l)
  <2>1. listener[l] # None /\ listener[l].step # "look" /\ events' = events
    BY <1>5 DEF CancelByListener, ScheduleByListener, queue
  <2>2. PICK q \in Orders \cup {None}, t \in {"schedule", "release"} :
          Advance(l, listener[l].hold, q, t)
    BY <1>5, UndefinedType DEF CancelByListener, ScheduleByListener
  <2>3. listener[l] \in Compensation /\ listener[l].hold \in Holds \cup {None}
    BY <1>2, <2>1 DEF Compensation
  <2>4. listener'[l] = [event |-> listener[l].event, hold |-> listener[l].hold,
                        owes |-> q, step |-> t]
    BY <1>2, <2>2 DEF Advance
  <2>5. listener'[l] \in Compensation
    BY <2>3, <2>4 DEF Compensation
  <2>6. listener'[l] # None /\ listener'[l].step # "look"
        /\ listener'[l].hold = listener[l].hold
    BY <2>4, <2>5, SagaAssumption
  <2> QED
    BY <2>1, <2>6 DEF Bound
<1>6. CASE ReleaseByListener(l)
  <2>1. /\ events' = events /\ listener' = [listener EXCEPT ![l] = None]
        /\ listener[l].hold # None => Freed(listener[l].hold)
    BY <1>1, <1>6 DEF ReleaseByListener, queue
  <2>2. listener[l].hold # r
    <3>1. ASSUME Freed(r) PROVE FALSE
      BY <3>1 DEF Freed, Free, HoldsOf, Typed, Reserved, Hold
    <3> QED
      BY <2>1, <3>1, SagaAssumption
  <2> QED
    BY <1>6, <2>1, <2>2 DEF Bound, ReleaseByListener
<1> QED
  BY <1>1, <1>3, <1>4, <1>5, <1>6 DEF Listen, ListenerDies

LEMMA PendingStep == Base /\ Noted /\ Single /\ Pending /\ [Next]_vars => Pending'
<1> SUFFICES ASSUME Base, Noted, Single, Pending, [Next]_vars,
                    NEW o \in Orders, status'[o] = "CANCELLED",
                    o \notin meddled' \cup forgotten',
                    NEW r \in HoldsOf(o)', holds'[r].status = "RESERVED"
             PROVE  Awaits(o, r)'
  BY DEF Pending
<1> USE DEF Base
<1>0. o \notin meddled \cup forgotten
  BY CancellingStep DEF Cancelling
<1>1. ~ReserveStock(o)
  <2>1. ReserveStock(o) =>
          status[o] = "CANCELLED" /\ meddled' = meddled /\ flow[o] = "reserve"
    BY DEF ReserveStock, checkout
  <2> QED
    BY <1>0, <2>1 DEF Noted, Running
<1>2. HoldsOf(o)' = HoldsOf(o)
  BY <1>1, HoldsSame
<1>3. r \in Holds /\ r \in HoldsOf(o) /\ holds[r] # None /\ holds[r] \in Hold
  BY <1>2 DEF HoldsOf, Typed, Reserved
<1>4. holds[r].status = "RESERVED" /\ holds'[r] = holds[r]
  <2>1. holds[r].status = "RESERVED"
    BY <1>3, HoldsStay DEF Hold
  <2>2. ASSUME NEW q \in Holds, Freed(q) PROVE holds'[r] = holds[r]
    BY <1>3, <2>2 DEF Freed, Free, Typed, Reserved, Hold
  <2>3. ASSUME NEW p \in Orders, ReserveStock(p) PROVE holds'[r] = holds[r]
    BY <1>3, <2>3 DEF ReserveStock, Typed, Reserved
  <2> QED
    BY <2>1, <2>2, <2>3, GoodsMove
<1>5. CASE Cancel(o)
  BY <1>5 DEF Cancel, Awaits
<1>6. ASSUME NEW l \in Instances, ByListener(l, o) PROVE Awaits(o, r)'
  <2>1. listener' = [listener EXCEPT ![l] = [event |-> listener[l].event,
             hold |-> listener[l].hold, owes |-> o, step |-> "schedule"]]
        /\ listener[l] \in Compensation
    BY <1>6 DEF ByListener, CancelByListener, Advance, Typed, Posted
  <2>2. listener'[l] = [event |-> listener[l].event,
             hold |-> listener[l].hold, owes |-> o, step |-> "schedule"]
        /\ listener'[l] \in Compensation
    BY <2>1 DEF Typed, Posted, Compensation
  <2>3. listener'[l] # None
    BY <2>2, SagaAssumption
  <2> QED
    BY <2>2, <2>3 DEF OwedBy, Awaits
<1>7. CASE status[o] = "CANCELLED"
  <2>0. Awaits(o, r)
    BY <1>0, <1>3, <1>4, <1>7 DEF Pending
  <2>a. faults = MaxFaults => faults' = faults
    BY OnwardStep DEF Onward
  <2> DEFINE Adding == /\ o \in owed => o \in owed' \cup releases'
                       /\ o \in releases => o \in releases'
                       /\ r \in frees => r \in frees'
                       /\ \A l \in Instances : /\ events[l] \subseteq events'[l]
                                               /\ listener'[l] = listener[l]
             Goal == Awaits(o, r)'
  <2>b. Adding => Goal
    BY <1>2, <1>3, <2>0, <2>a, AddingKeeps
  <2>c. ASSUME events' = events \/ \E e : events' = Announced(e), listener' = listener
        PROVE  \A l \in Instances : /\ events[l] \subseteq events'[l]
                                    /\ listener'[l] = listener[l]
    BY <2>c DEF Announced
  <2>1. ASSUME NEW p \in Orders,
               \/ Checkout(p) \/ ScheduleCheckout(p) \/ ScheduleFails(p) \/ Cancel(p)
               \/ Confirm(p) \/ ScheduleRelease(p)
        PROVE  Goal
    <3>1. events' = events /\ listener' = listener
      BY <2>1 DEF Checkout, ScheduleCheckout, ScheduleFails, Cancel, Confirm,
                  ScheduleRelease, queue, listening
    <3>2. Adding
      BY <2>c, <2>1, <3>1 DEF Checkout, ScheduleCheckout, ScheduleFails, Cancel, Confirm,
                        ScheduleRelease, checkout, queue
    <3> QED
      BY <2>b, <3>2
  <2>2. ASSUME NEW p \in Orders,
               \/ ValidateCart(p) \/ ReserveStock(p) \/ ProcessPayment(p)
               \/ ValidationErrs(p) \/ ConfirmReservation(p)
        PROVE  Goal
    <3>1. /\ events' = events \/ \E e : events' = Announced(e)
          /\ listener' = listener
          /\ UNCHANGED <<owed, releases, frees>>
      BY <2>2 DEF ValidateCart, ReserveStock, ProcessPayment, ValidationErrs,
                  ConfirmReservation, Done, Failed, checkout, queue, listening
    <3>2. Adding
      BY <2>c, <3>1
    <3> QED
      BY <2>b, <3>2
  <2>3. ASSUME NEW p \in Orders, ReleaseUnscheduled(p) PROVE Goal
    <3>1. p # o /\ owed' = owed \ {p} /\ UNCHANGED <<releases, frees, events, listener>>
      BY <2>3, LastFault DEF ReleaseUnscheduled, queue, listening
    <3>2. Adding
      BY <2>c, <3>1
    <3> QED
      BY <2>b, <3>2
  <2>4. ASSUME NEW p \in Orders, ReleaseOrderStock(p) PROVE Goal
    <3>1. UNCHANGED <<owed, events, listener>> /\ frees \subseteq frees'
          /\ releases' = releases \ {p}
      BY <2>4 DEF ReleaseOrderStock, checkout, listening
    <3>2. CASE p # o
      <4>1. Adding
        BY <2>c, <3>1, <3>2
      <4> QED
        BY <2>b, <4>1
    <3>3. CASE p = o
      <4>1. r \in frees'
        BY <1>3, <2>4, <3>3, LastFault DEF ReleaseOrderStock
      <4> QED
        BY <4>1 DEF Awaits
    <3> QED
      BY <3>2, <3>3
  <2>5. ASSUME NEW p \in Orders, ListingFails(p) PROVE Goal
    <3>1. /\ UNCHANGED <<owed, frees, listener>> /\ releases' = releases \ {p}
          /\ events' = Announced([order |-> p, hold |-> None])
          /\ faults < MaxFaults /\ faults' = MaxFaults
      BY <2>5, LastFault DEF ListingFails, checkout, listening
    <3>2. CASE p # o
      <4>1. Adding
        BY <2>c, <3>1, <3>2
      <4> QED
        BY <2>b, <4>1
    <3>3. CASE p = o
      <4>1. HoldsOf(o)' = {r}
        BY <1>2, <1>3, <3>1 DEF Single
      <4>2. PICK l \in Instances : TRUE
        BY SagaAssumption
      <4>3. [order |-> o, hold |-> None] \in events'[l]
        BY <3>1, <3>3 DEF Announced
      <4>4. Bound(l, o, r)'
        BY <4>1, <4>3 DEF Bound
      <4> QED
        BY <3>1, <4>4 DEF ToldOf, Awaits
    <3> QED
      BY <3>2, <3>3
  <2>6. ASSUME NEW q \in Holds, ReleaseStock(q) PROVE Goal
    <3>1. /\ UNCHANGED <<owed, releases, events, listener>>
          /\ frees' = frees \ {q}
      BY <2>6 DEF ReleaseStock, checkout, listening
    <3>2. q # r
      BY <1>3, <1>4, <2>6 DEF ReleaseStock, Freed, Free, Typed, Reserved, Hold
    <3>3. Adding
      BY <2>c, <3>1, <3>2
    <3> QED
      BY <2>b, <3>3
  <2>7. ASSUME NEW q \in Holds, ReleaseFails(q) PROVE Goal
    <3>1. /\ UNCHANGED <<owed, releases, listener>> /\ frees' = frees \ {q}
          /\ events' = Announced([order |-> None, hold |-> q])
          /\ faults' = MaxFaults
      BY <2>7, LastFault DEF ReleaseFails, checkout, listening
    <3>2. CASE q # r
      <4>1. Adding
        BY <2>c, <3>1, <3>2
      <4> QED
        BY <2>b, <4>1
    <3>3. CASE q = r
      <4>1. PICK l \in Instances : TRUE
        BY SagaAssumption
      <4>2. [order |-> None, hold |-> r] \in events'[l]
        BY <3>1, <3>3 DEF Announced
      <4>3. Bound(l, o, r)'
        BY <4>2 DEF Bound
      <4> QED
        BY <3>1, <4>3 DEF ToldOf, Awaits
    <3> QED
      BY <3>2, <3>3
  <2>8. ASSUME NEW l \in Instances, Listen(l) \/ ListenerDies(l) PROVE Goal
    <3>1. UNCHANGED <<owed, frees>> /\ releases \subseteq releases'
      BY <2>8 DEF Listen, Hear, Look, CancelByListener, ScheduleByListener,
                  ReleaseByListener, ListenerDies, checkout, queue
    <3>2. \A k \in Instances : k # l => events'[k] = events[k] /\ listener'[k] = listener[k]
      BY <2>8 DEF Listen, Hear, Look, CancelByListener, ScheduleByListener, Advance,
                  ReleaseByListener, ListenerDies, queue, Typed, Posted
    <3>3. OwedBy(l, o) => Awaits(o, r)'
      <4> SUFFICES ASSUME OwedBy(l, o) PROVE Awaits(o, r)'
        OBVIOUS
      <4>1. CASE ScheduleByListener(l)
        <5>1. o \in releases'
          BY <4>1, LastFault DEF ScheduleByListener, OwedBy
        <5> QED
          BY <5>1 DEF Awaits
      <4>2. CASE ListenerDies(l)
        <5>1. o \in Tasks(l)
          BY DEF OwedBy, Tasks
        <5> QED
          BY <4>2, <5>1, LastFault DEF ListenerDies
      <4> QED
        BY <2>8, <4>1, <4>2
        DEF OwedBy, Listen, Hear, Look, CancelByListener, ReleaseByListener
    <3>4. ASSUME faults = MaxFaults, Bound(l, o, r) PROVE Bound(l, o, r)'
      BY <1>2, <1>3, <1>4, <2>8, <3>4, BoundGoesOn
    <3> QED
      BY <1>2, <1>3, <2>0, <2>a, <3>1, <3>2, <3>3, <3>4, ListeningKeeps
  <2>9. ASSUME GhostExpires \/ UNCHANGED vars PROVE Goal
    <3>1. Adding
      BY <2>9 DEF GhostExpires, vars, checkout, queue
    <3> QED
      BY <2>b, <3>1
  <2> HIDE DEF Goal
  <2>10. Goal
    BY <2>1, <2>2, <2>3, <2>4, <2>5, <2>6, <2>7, <2>8, <2>9 DEF Next, RunJob
  <2> QED
    BY <2>10 DEF Goal
<1> QED
  BY <1>5, <1>6, <1>7, CancellingStep DEF Cancelling

(* The strengthening of the invariants below is one itself.                *)
THEOREM IInvAlways == Spec => []IInv
<1>1. Base /\ [Next]_vars => Base'
  BY TypedStep, OfSavedStep, NamedStep DEF Base
<1>2. IInv /\ [Next]_vars => IInv'
  BY <1>1, HeldFirstStep, NotedStep, SingleStep, PendingStep DEF IInv, Base
<1> QED
  BY InitInv, <1>2, PTL DEF Spec

(* No payment is asked for before stock is held for its order.             *)
THEOREM IntentsAlwaysNeedHolds == Spec => []IntentNeedsHold
<1>1. IInv => IntentNeedsHold
  BY DEF IInv, Base, Typed, Marks, HeldFirst, IntentNeedsHold
<1> QED
  BY IInvAlways, <1>1, PTL

(* Once all is done, an order that was cancelled after its checkout flow   *)
(* holds no stock, whoever cancelled it and whatever single fault occurred,*)
(* unless it is one that the code only logs or loses (CancelOrder and      *)
(* ReleaseOrderStock that cannot schedule, a listener that dies).          *)
THEOREM CancelledNeverHolds == Spec => []CancelledHoldsNothing
<1>1. ASSUME IInv, AtRest, NEW o \in Orders, status[o] = "CANCELLED",
             o \notin meddled \cup forgotten, NEW r \in HoldsOf(o)
      PROVE  holds[r].status = "RELEASED"
  <2>1. r \in Holds /\ holds[r] \in Hold
    BY <1>1 DEF IInv, Base, Typed, Reserved, HoldsOf
  <2>2. ~Awaits(o, r)
    BY <1>1, <2>1 DEF AtRest, Awaits, OwedBy, ToldOf, Bound
  <2>3. holds[r].status # "RESERVED"
    BY <1>1, <2>2 DEF IInv, Pending
  <2> QED
    BY <2>1, <2>3 DEF Hold
<1>2. IInv => CancelledHoldsNothing
  BY <1>1 DEF CancelledHoldsNothing
<1> QED
  BY IInvAlways, <1>2, PTL

-----------------------------------------------------------------------------
(* The types of CheckoutSaga.  That the stock stays within 0..Stock is     *)
(* bookkeeping: the units that are free and those that are held add up.    *)
Units(h) == {u \in Holds \X (1..MaxCart) :
               h[u[1]] # None /\ h[u[1]].status = "RESERVED" /\ u[2] <= h[u[1]].qty}
Balanced == /\ stock \in Nat /\ IsFiniteSet(Units(holds))
            /\ stock + Cardinality(Units(holds)) = Stock

Tried == tries \in [Orders -> 0..Attempts - 1]
Booked == Base /\ Balanced /\ Tried

LEMMA InitBooked == Init => Booked
<1> SUFFICES ASSUME Init PROVE Booked
  OBVIOUS
<1>1. Base
  BY InitInv DEF IInv
<1>2. Balanced
  <2>1. Units(holds) = {}
    BY DEF Init, Units
  <2>2. Cardinality(Units(holds)) = 0 /\ IsFiniteSet(Units(holds))
    BY <2>1, FS_EmptySet
  <2> QED
    BY <2>2, SagaAssumption DEF Init, Balanced
<1>3. Tried
  BY SagaAssumption DEF Init, Tried
<1> QED
  BY <1>1, <1>2, <1>3 DEF Booked

(* A reservation r for n units is a block of n elements.                   *)
LEMMA BlockSize ==
  ASSUME NEW r, NEW n \in Nat
  PROVE  IsFiniteSet({r} \X (1..n)) /\ Cardinality({r} \X (1..n)) = n
<1>1. IsFiniteSet(1..n) /\ Cardinality(1..n) = n
  BY FS_Interval
<1>2. IsFiniteSet({r}) /\ Cardinality({r}) = 1
  BY FS_Singleton
<1> QED
  BY <1>1, <1>2, FS_Product

LEMMA Together ==
  ASSUME NEW S, NEW T, IsFiniteSet(S), IsFiniteSet(T), S \cap T = {}
  PROVE  /\ IsFiniteSet(S \cup T)
         /\ Cardinality(S \cup T) = Cardinality(S) + Cardinality(T)
<1>1. Cardinality(S \cap T) = 0
  BY FS_EmptySet
<1>2. Cardinality(S) \in Nat /\ Cardinality(T) \in Nat
  BY FS_CardinalityType
<1>3. /\ IsFiniteSet(S \cup T)
      /\ Cardinality(S \cup T) = Cardinality(S) + Cardinality(T) - Cardinality(S \cap T)
  BY FS_Union
<1> QED
  BY <1>1, <1>2, <1>3

LEMMA HeldMore ==
  ASSUME Typed, IsFiniteSet(Units(holds)), NEW o \in Orders, NEW r \in Holds,
         holds[r] = None, holds' = [holds EXCEPT ![r] = HoldFor(o, items[o])]
  PROVE  /\ IsFiniteSet(Units(holds'))
         /\ Cardinality(Units(holds')) = Cardinality(Units(holds)) + items[o]
<1> DEFINE B == {r} \X (1..items[o])
<1>1. items[o] \in Nat /\ items[o] <= MaxCart /\ MaxCart \in Nat
  BY SagaAssumption DEF Typed, Marks
<1>2. /\ holds'[r] = HoldFor(o, items[o])
      /\ \A q \in Holds : q # r => holds'[q] = holds[q]
  BY DEF Typed, Reserved
<1>3. HoldFor(o, items[o]) \in Hold
  BY DEF HoldFor, Hold, Typed, Marks
<1>4. holds'[r] # None /\ holds'[r].status = "RESERVED" /\ holds'[r].qty = items[o]
  BY <1>2, <1>3, SagaAssumption DEF HoldFor
<1>5. Units(holds') = Units(holds) \cup B
  <2>1. ASSUME NEW u \in Units(holds') PROVE u \in Units(holds) \cup B
    <3>1. PICK q \in Holds, k \in 1..MaxCart : u = <<q, k>>
      BY <2>1 DEF Units
    <3>2. CASE q = r
      BY <1>1, <1>4, <2>1, <3>1, <3>2 DEF Units
    <3>3. CASE q # r
      BY <1>2, <2>1, <3>1, <3>3 DEF Units
    <3> QED
      BY <3>2, <3>3
  <2>2. ASSUME NEW u \in Units(holds) PROVE u \in Units(holds')
    <3>1. PICK q \in Holds, k \in 1..MaxCart : u = <<q, k>>
      BY <2>2 DEF Units
    <3>2. q # r
      BY <2>2, <3>1 DEF Units
    <3> QED
      BY <1>2, <2>2, <3>1, <3>2 DEF Units
  <2>3. ASSUME NEW u \in B PROVE u \in Units(holds')
    <3>1. PICK k \in 1..items[o] : u = <<r, k>>
      BY <2>3
    <3>2. k \in 1..MaxCart /\ k <= items[o]
      BY <1>1
    <3> QED
      BY <1>4, <3>1, <3>2 DEF Units
  <2> QED
    BY <2>1, <2>2, <2>3
<1>6. Units(holds) \cap B = {}
  BY DEF Units
<1>7. IsFiniteSet(B) /\ Cardinality(B) = items[o]
  BY <1>1, BlockSize
<1> HIDE DEF B
<1> QED
  BY <1>5, <1>6, <1>7, Together

LEMMA HeldLess ==
  ASSUME Typed, IsFiniteSet(Units(holds)), NEW r \in Holds, Free(r),
         holds' = [holds EXCEPT ![r].status = "RELEASED"]
  PROVE  /\ holds[r].qty \in Nat /\ IsFiniteSet(Units(holds'))
         /\ Cardinality(Units(holds)) = Cardinality(Units(holds')) + holds[r].qty
<1> DEFINE B == {r} \X (1..holds[r].qty)
<1>1. holds[r] \in Hold /\ holds[r] # None /\ holds[r].status = "RESERVED"
  BY DEF Free, Typed, Reserved
<1>2. holds[r].qty \in Nat /\ holds[r].qty <= MaxCart /\ MaxCart \in Nat
  BY <1>1, SagaAssumption DEF Hold
<1>3. /\ holds'[r].status = "RELEASED"
      /\ \A q \in Holds : q # r => holds'[q] = holds[q]
  BY <1>1 DEF Typed, Reserved, Hold
<1>4. Units(holds) = Units(holds') \cup B
  <2>1. ASSUME NEW u \in Units(holds) PROVE u \in Units(holds') \cup B
    <3>1. PICK q \in Holds, k \in 1..MaxCart : u = <<q, k>> /\ k <= holds[q].qty
      BY <2>1 DEF Units
    <3>2. CASE q = r
      BY <1>2, <3>1, <3>2
    <3>3. CASE q # r
      BY <1>3, <2>1, <3>1, <3>3 DEF Units
    <3> QED
      BY <3>2, <3>3
  <2>2. ASSUME NEW u \in Units(holds') PROVE u \in Units(holds)
    <3>1. PICK q \in Holds, k \in 1..MaxCart : u = <<q, k>>
      BY <2>2 DEF Units
    <3>2. q # r
      BY <1>3, <2>2, <3>1 DEF Units
    <3> QED
      BY <1>3, <2>2, <3>1, <3>2 DEF Units
  <2>3. ASSUME NEW u \in B PROVE u \in Units(holds)
    <3>1. PICK k \in 1..holds[r].qty : u = <<r, k>>
      BY <2>3
    <3>2. k \in 1..MaxCart /\ k <= holds[r].qty
      BY <1>2
    <3> QED
      BY <1>1, <3>1, <3>2 DEF Units
  <2> QED
    BY <2>1, <2>2, <2>3
<1>5. Units(holds') \cap B = {}
  BY <1>3 DEF Units
<1>6. IsFiniteSet(B) /\ Cardinality(B) = holds[r].qty
  BY <1>2, BlockSize
<1>7. IsFiniteSet(Units(holds'))
  BY <1>4, FS_Subset
<1> HIDE DEF B
<1> QED
  BY <1>2, <1>4, <1>5, <1>6, <1>7, Together

LEMMA BalancedStep ==
  Typed /\ Balanced /\ [Next]_vars => Balanced'
<1> SUFFICES ASSUME Typed, Balanced, [Next]_vars PROVE Balanced'
  OBVIOUS
<1>1. CASE UNCHANGED <<stock, holds>>
  BY <1>1 DEF Balanced
<1>2. ASSUME NEW r \in Holds, Freed(r) PROVE Balanced'
  <2>1. CASE UNCHANGED <<stock, holds>>
    BY <1>1, <2>1
  <2>2. CASE /\ Free(r) /\ holds' = [holds EXCEPT ![r].status = "RELEASED"]
             /\ stock' = stock + holds[r].qty
    <3>1. /\ holds[r].qty \in Nat /\ IsFiniteSet(Units(holds'))
          /\ Cardinality(Units(holds)) = Cardinality(Units(holds')) + holds[r].qty
      BY <2>2, HeldLess DEF Balanced
    <3>2. Cardinality(Units(holds')) \in Nat
      BY <3>1, FS_CardinalityType
    <3> QED
      BY <2>2, <3>1, <3>2 DEF Balanced
  <2> QED
    BY <1>2, <2>1, <2>2 DEF Freed
<1>3. ASSUME NEW o \in Orders, ReserveStock(o) PROVE Balanced'
  <2>1. CASE UNCHANGED <<stock, holds>>
    BY <1>1, <2>1
  <2>2. ASSUME NEW r \in Holds, holds[r] = None, items[o] <= stock,
               holds' = [holds EXCEPT ![r] = HoldFor(o, items[o])],
               stock' = stock - items[o]
        PROVE  Balanced'
    <3>1. /\ IsFiniteSet(Units(holds'))
          /\ Cardinality(Units(holds')) = Cardinality(Units(holds)) + items[o]
      BY <2>2, HeldMore DEF Balanced
    <3>2. items[o] \in Nat /\ Cardinality(Units(holds)) \in Nat
      BY FS_CardinalityType, SagaAssumption DEF Typed, Marks, Balanced
    <3> QED
      BY <2>2, <3>1, <3>2 DEF Balanced
  <2> QED
    BY <1>3, <2>1, <2>2 DEF ReserveStock
<1> QED
  BY <1>1, <1>2, <1>3, GoodsMove

LEMMA TriedStep ==
  Typed /\ Tried /\ [Next]_vars => Tried'
<1> SUFFICES ASSUME Typed, Tried, [Next]_vars PROVE Tried'
  OBVIOUS
<1>1. Attempts - 1 \in Nat
  BY SagaAssumption
<1>2. ASSUME NEW o \in Orders, Done(o) PROVE Tried'
  BY <1>1, <1>2 DEF Done, Tried
<1>3. ASSUME NEW o \in Orders, ValidationErrs(o) PROVE Tried'
  BY <1>1, <1>3 DEF ValidationErrs, MayRetry, Failed, Tried
<1>4. ASSUME NEW o \in Orders, ValidateCart(o) \/ ReserveStock(o) \/ ProcessPayment(o)
      PROVE  Tried'
  BY <1>1, <1>2, <1>4 DEF ValidateCart, ReserveStock, ProcessPayment, Failed, Tried
<1>5. ASSUME NEW o \in Orders,
             \/ Checkout(o) \/ ScheduleFails(o) \/ ScheduleCheckout(o)
             \/ ConfirmReservation(o) \/ ReleaseOrderStock(o) \/ ListingFails(o)
             \/ Cancel(o) \/ ScheduleRelease(o) \/ ReleaseUnscheduled(o) \/ Confirm(o)
      PROVE  tries' = tries
  BY <1>5 DEF Checkout, ScheduleFails, ScheduleCheckout, ConfirmReservation,
              ReleaseOrderStock, ListingFails, Cancel, ScheduleRelease,
              ReleaseUnscheduled, Confirm, chain
<1>6. ASSUME NEW r \in Holds, ReleaseStock(r) \/ ReleaseFails(r) PROVE tries' = tries
  BY <1>6 DEF ReleaseStock, ReleaseFails, chain
<1>7. ASSUME NEW l \in Instances, Listen(l) \/ ListenerDies(l) PROVE tries' = tries
  BY <1>7 DEF Listen, Hear, Look, CancelByListener, ScheduleByListener, ReleaseByListener,
              ListenerDies, chain
<1>8. CASE GhostExpires \/ UNCHANGED vars
  BY <1>8 DEF GhostExpires, vars, chain, Tried
<1> QED
  BY <1>3, <1>4, <1>5, <1>6, <1>7, <1>8 DEF Next, RunJob, Tried

LEMMA BookedAlways == Spec => []Booked
<1>1. Booked /\ [Next]_vars => Booked'
  BY TypedStep, BalancedStep, OfSavedStep, TriedStep, NamedStep DEF Booked, Base
<1> QED
  BY InitBooked, <1>1, PTL DEF Spec

(* Every variable of the saga has its type: the stock is never oversold,   *)
(* nor is more given back than there was (reserve, release and the failure *)
(* listener), and no job is tried more often than the queue allows.        *)
THEOREM CheckoutTypes == Spec => []TypeOK
<1>1. Booked => TypeOK
  <2> SUFFICES ASSUME Booked PROVE TypeOK
    OBVIOUS
  <2>1. stock \in 0..Stock
    <3>1. Cardinality(Units(holds)) \in Nat
      BY FS_CardinalityType DEF Booked, Balanced
    <3> QED
      BY <3>1, SagaAssumption DEF Booked, Balanced
  <2> QED
    BY <2>1 DEF Booked, Base, TypeOK, Typed, Marks, Reserved, Posted, Named, Tried
<1> QED
  BY <1>1, BookedAlways, PTL

(* Nothing is ever sold through a checkout or lost by it: what is free and *)
(* what is reserved add up to the stock there was, whatever is cancelled,  *)
(* compensated, retried or stalls.                                         *)
THEOREM StockAlwaysBalances ==
  Spec => [](stock + Cardinality(Units(holds)) = Stock)
<1>1. Booked => stock + Cardinality(Units(holds)) = Stock
  BY DEF Booked, Balanced
<1> QED
  BY <1>1, BookedAlways, PTL

-----------------------------------------------------------------------------
(* The idempotency key.                                                    *)
Keys == [status : {"free", "in-progress", "completed"},
         writer : Requests \cup {Nobody}, ttl : BOOLEAN]

LEMMA KeyInitType == KeyInit => KeyTypeOK
<1> SUFFICES ASSUME KeyInit PROVE KeyTypeOK
  OBVIOUS
<1>1. key = [status |-> "free", writer |-> Nobody, ttl |-> FALSE]
  BY DEF KeyInit, FreeKey
<1>2. /\ key \in Keys
      /\ key.status = "free" /\ key.writer = Nobody
  BY <1>1 DEF Keys
<1> QED
  BY <1>2 DEF KeyInit, KeyTypeOK, Keys

\* A write leaves a key with its writer.
LEMMA WrittenType ==
  ASSUME KeyTypeOK, NEW r \in Requests, NEW st \in {"in-progress", "completed"},
         NEW kept \in {FALSE, key.ttl}, Written(r, st, kept)
  PROVE  key' \in Keys /\ (key'.status = "free" <=> key'.writer = Nobody)
<1>1. kept \in BOOLEAN
  BY DEF KeyTypeOK
<1>2. key' = [status |-> st, writer |-> r, ttl |-> kept]
  BY DEF Written
<1>3. key' \in Keys
  BY <1>1, <1>2 DEF Keys
<1>4. key'.status # "free" /\ key'.writer # Nobody
  BY <1>2, NobodyAssumption
<1> QED
  BY <1>3, <1>4

LEMMA ProceedType ==
  ASSUME KeyTypeOK, NEW r \in Requests, Proceed(r)
  PROVE  KeyTypeOK'
<1> USE DEF KeyTypeOK, Goto, Underway, Ended
<1>1. CASE Lock(r)
  <2>1. key' \in Keys /\ (key'.status = "free" <=> key'.writer = Nobody)
    BY <1>1, WrittenType DEF Lock
  <2> QED
    BY <1>1, <2>1 DEF Lock, Keys
<1>2. CASE LimitLock(r)
  BY <1>2 DEF LimitLock, Dated
<1>3. CASE Handle(r)
  <2>1. PICK o \in Outcomes : /\ outcome' = [outcome EXCEPT ![r] = o]
                              /\ placed' = IF o = "order" THEN placed \cup {r} ELSE placed
                              /\ Goto(r, AfterRun(o))
    BY <1>3 DEF Handle
  <2>2. o \in {"order", "refused", "thrown"}
    BY OutcomesAssumption
  <2> QED
    BY <1>3, <2>1, <2>2 DEF Handle, AfterRun
<1>4. CASE Complete(r)
  <2>1. key' \in Keys /\ (key'.status = "free" <=> key'.writer = Nobody)
    BY <1>4, WrittenType DEF Complete
  <2> QED
    BY <1>4, <2>1 DEF Complete, Keys
<1>5. CASE DateResult(r)
  BY <1>5 DEF DateResult, Dated
<1>6. CASE Release(r)
  BY <1>6 DEF Release, FreeKey
<1> QED
  BY <1>1, <1>2, <1>3, <1>4, <1>5, <1>6 DEF Proceed

LEMMA KeyStepType == KeyTypeOK /\ [KeyNext]_keyVars => KeyTypeOK'
<1> SUFFICES ASSUME KeyTypeOK, [KeyNext]_keyVars PROVE KeyTypeOK'
  OBVIOUS
<1>1. CASE UNCHANGED keyVars
  BY <1>1 DEF keyVars, KeyTypeOK
<1>2. ASSUME NEW r \in Requests, Check(r) PROVE KeyTypeOK'
  BY <1>2 DEF KeyTypeOK, Check, Arrives, Goto, Underway, Ended
<1>3. ASSUME NEW r \in Requests, Proceed(r) PROVE KeyTypeOK'
  BY <1>3, ProceedType
<1>4. ASSUME NEW r \in Requests, StoreFails(r) PROVE KeyTypeOK'
  BY <1>4 DEF KeyTypeOK, StoreFails, Goto, Underway, Ended
<1>5. ASSUME NEW r \in Requests, Crash(r) PROVE KeyTypeOK'
  BY <1>5 DEF KeyTypeOK, Crash, Goto, Underway, Ended
<1>6. CASE Expire
  BY <1>6 DEF KeyTypeOK, Expire, FreeKey
<1> HIDE DEF KeyTypeOK
<1> QED
  BY <1>1, <1>2, <1>3, <1>4, <1>5, <1>6 DEF KeyNext

\* Every value stays in its type, whatever overlaps, fails or dies.
THEOREM KeyTypeAlways == KeySpec => []KeyTypeOK
<1> QED
  BY KeyInitType, KeyStepType, PTL DEF KeySpec

-----------------------------------------------------------------------------
\* One attempt runs at a time.
OneAtATime == \A r, s \in InFlight : r = s

\* What the key holds while a request is at each place.
KeyOfPlace ==
  \A r \in Requests :
    /\ pc[r] = "locking" => key.status = "free"
    /\ pc[r] \in {"limiting", "handling", "completing", "releasing"}
         => key.status = "in-progress"
    /\ pc[r] = "dating" => key.status = "completed"

\* Nothing is placed before the handler runs, and only by it.
PlacedOfPlace ==
  \A r \in Requests :
    /\ pc[r] \in {"locking", "limiting", "handling", "releasing"} => placed = {}
    /\ pc[r] = "completing" => placed \subseteq {r}

Remembered ==
  /\ OneOrder
  /\ placed # {} => key.status # "free"
  /\ key.status = "completed" /\ placed # {} => placed = {key.writer}

KeyCalm == OneAtATime /\ KeyOfPlace /\ PlacedOfPlace /\ Remembered

\* Once requests overlapped or Redis failed, only the types are left.
KeyInv == KeyTypeOK /\ (~disturbed => KeyCalm)

LEMMA KeyInitInv == KeyInit => KeyInv
<1> SUFFICES ASSUME KeyInit PROVE KeyCalm
  BY KeyInitType DEF KeyInv
<1> QED
  BY DEF KeyInit, KeyCalm, OneAtATime, KeyOfPlace, PlacedOfPlace, Remembered, OneOrder,
       FreeKey,
     InFlight, Underway

\* The key and the orders are untouched and one request moves to an end.
LEMMA CheckKeeps ==
  ASSUME KeyTypeOK, KeyCalm, NEW r \in Requests, Check(r), ~disturbed'
  PROVE  KeyCalm'
<1> USE DEF KeyCalm, KeyTypeOK
<1>1. InFlight = {}
  BY Zenon DEF Check, Arrives
<1>2. OneAtATime'
  BY <1>1 DEF Check, Goto, OneAtATime, InFlight, Underway
<1>3. KeyOfPlace'
  BY <1>1 DEF Check, Goto, KeyOfPlace, InFlight, Underway
<1>4. PlacedOfPlace'
  BY <1>1 DEF Check, Goto, PlacedOfPlace, Remembered, InFlight, Underway
<1>5. Remembered'
  BY DEF Check, Remembered, OneOrder
<1> QED
  BY <1>2, <1>3, <1>4, <1>5

\* Whoever is elsewhere than r has ended or has not begun.
LEMMA OthersRest ==
  ASSUME KeyCalm, NEW r \in InFlight, NEW s \in Requests, s # r
  PROVE  pc[s] \notin Underway
  BY DEF KeyCalm, OneAtATime, InFlight

LEMMA LockKeeps ==
  ASSUME KeyTypeOK, KeyCalm, NEW r \in Requests, Lock(r) \/ LimitLock(r)
  PROVE  KeyCalm'
<1> USE DEF KeyCalm, KeyTypeOK
<1>0. r \in InFlight
  BY DEF Lock, LimitLock, InFlight, Underway
<1>2. pc' = [pc EXCEPT ![r] = pc'[r]] /\ pc'[r] \in {"limiting", "handling"}
  BY DEF Lock, LimitLock, Goto
<1>3. OneAtATime'
  BY <1>0, <1>2 DEF OneAtATime, InFlight, Underway
<1>4. key'.status = "in-progress"
  BY DEF Lock, LimitLock, Written, Dated, KeyOfPlace
<1>5. placed' = placed /\ placed = {}
  BY DEF Lock, LimitLock, PlacedOfPlace
<1>6. \A s \in Requests : s # r => pc'[s] \notin Underway
  BY <1>0, <1>2, OthersRest
<1>7. KeyOfPlace'
  BY <1>2, <1>4, <1>6 DEF KeyOfPlace, Underway
<1>8. PlacedOfPlace'
  BY <1>2, <1>5, <1>6 DEF PlacedOfPlace, Underway
<1>9. Remembered'
  BY <1>4, <1>5 DEF Remembered, OneOrder
<1> QED
  BY <1>3, <1>7, <1>8, <1>9

LEMMA HandleKeeps ==
  ASSUME KeyTypeOK, KeyCalm, NEW r \in Requests, Handle(r)
  PROVE  KeyCalm'
<1> USE DEF KeyCalm, KeyTypeOK
<1>0. r \in InFlight
  BY DEF Handle, InFlight, Underway
<1>1. PICK o \in Outcomes : /\ outcome' = [outcome EXCEPT ![r] = o]
                            /\ placed' = IF o = "order" THEN placed \cup {r} ELSE placed
                            /\ Goto(r, AfterRun(o))
  BY DEF Handle
<1>2. placed = {} /\ key.status = "in-progress" /\ key' = key /\ answer' = answer
  BY DEF Handle, PlacedOfPlace, KeyOfPlace
<1>3. o \in {"order", "refused", "thrown"}
  BY OutcomesAssumption
<1>5. /\ pc' = [pc EXCEPT ![r] = pc'[r]]
      /\ \/ pc'[r] = "completing" /\ placed' \subseteq {r}
         \/ pc'[r] = "releasing" /\ placed' = {}
  BY <1>1, <1>2, <1>3 DEF Goto, AfterRun
<1>6. \A s \in Requests : s # r => pc'[s] \notin Underway
  BY <1>0, <1>5, OthersRest
<1>7. OneAtATime'
  BY <1>6 DEF OneAtATime, InFlight
<1>8. KeyOfPlace' /\ PlacedOfPlace'
  BY <1>2, <1>5, <1>6 DEF KeyOfPlace, PlacedOfPlace, Underway
<1>9. Remembered'
  BY <1>2, <1>5 DEF Remembered, OneOrder
<1> QED
  BY <1>7, <1>8, <1>9

LEMMA CompleteKeeps ==
  ASSUME KeyTypeOK, KeyCalm, NEW r \in Requests, Complete(r) \/ DateResult(r)
  PROVE  KeyCalm'
<1> USE DEF KeyCalm, KeyTypeOK
<1>0. r \in InFlight
  BY DEF Complete, DateResult, InFlight, Underway
<1>2. pc' = [pc EXCEPT ![r] = pc'[r]] /\ pc'[r] \in {"dating", "answered"}
  BY DEF Complete, DateResult, Goto
<1>3. key'.status = "completed" /\ placed' = placed
  BY DEF Complete, DateResult, Written, Dated, KeyOfPlace
<1>4. placed # {} => placed = {key'.writer}
  <2>1. CASE Complete(r)
    BY <2>1 DEF Complete, Written, PlacedOfPlace
  <2>2. CASE DateResult(r)
    BY <2>2 DEF DateResult, Dated, KeyOfPlace, Remembered
  <2> QED
    BY <2>1, <2>2
<1>5. \A s \in Requests : s # r => pc'[s] \notin Underway
  BY <1>0, <1>2, OthersRest
<1>6. OneAtATime'
  BY <1>5 DEF OneAtATime, InFlight
<1>7. KeyOfPlace' /\ PlacedOfPlace'
  BY <1>2, <1>3, <1>5 DEF KeyOfPlace, PlacedOfPlace, Underway
<1>8. Remembered'
  BY <1>3, <1>4 DEF Remembered, OneOrder
<1> QED
  BY <1>6, <1>7, <1>8

\* Nobody is running afterwards: the places say nothing.
LEMMA EndKeeps ==
  ASSUME KeyTypeOK, KeyCalm, NEW r \in Requests, Release(r) \/ Crash(r)
  PROVE  KeyCalm'
<1> USE DEF KeyCalm, KeyTypeOK
<1>0. r \in InFlight
  BY DEF Release, Crash, InFlight, Underway
<1>2. pc' = [pc EXCEPT ![r] = pc'[r]] /\ pc'[r] \notin Underway
  BY DEF Release, Crash, Goto, Underway
<1>3. \A s \in Requests : pc'[s] \notin Underway
  BY <1>0, <1>2, OthersRest
<1>4. OneAtATime' /\ KeyOfPlace' /\ PlacedOfPlace'
  BY <1>3 DEF OneAtATime, InFlight, KeyOfPlace, PlacedOfPlace, Underway
<1>5. Remembered'
  BY DEF Release, Crash, FreeKey, PlacedOfPlace, Remembered, OneOrder
<1> QED
  BY <1>4, <1>5

LEMMA ExpireKeeps ==
  ASSUME KeyTypeOK, KeyCalm, Expire
  PROVE  KeyCalm'
<1> USE DEF KeyCalm, KeyTypeOK
<1>1. \A s \in Requests : pc'[s] \notin Underway
  BY DEF Expire, InFlight
<1>2. OneAtATime' /\ KeyOfPlace' /\ PlacedOfPlace'
  BY <1>1 DEF OneAtATime, InFlight, KeyOfPlace, PlacedOfPlace, Underway
<1>3. Remembered'
  BY DEF Expire, FreeKey, Remembered, OneOrder
<1> QED
  BY <1>2, <1>3

LEMMA KeyStepInv == KeyInv /\ [KeyNext]_keyVars => KeyInv'
<1> SUFFICES ASSUME KeyInv, [KeyNext]_keyVars, ~disturbed' PROVE KeyCalm'
  BY KeyStepType DEF KeyInv
<1>0. KeyTypeOK /\ (~disturbed => KeyCalm)
  BY DEF KeyInv
<1>1. CASE UNCHANGED keyVars
  BY <1>0, <1>1 DEF keyVars, KeyCalm, OneAtATime, InFlight, KeyOfPlace, PlacedOfPlace,
     Remembered, OneOrder
<1>2. ASSUME NEW r \in Requests, Check(r) PROVE KeyCalm'
  BY <1>0, <1>2, CheckKeeps DEF Check, Arrives, KeyTypeOK
<1>3. ASSUME NEW r \in Requests, Proceed(r) PROVE KeyCalm'
  <2>1. disturbed' = disturbed
    BY <1>3 DEF Proceed, Lock, LimitLock, Handle, Complete, DateResult, Release
  <2> QED
    BY <1>0, <1>3, <2>1, LockKeeps, HandleKeeps, CompleteKeeps, EndKeeps DEF Proceed
<1>4. ASSUME NEW r \in Requests, Crash(r) PROVE KeyCalm'
  BY <1>0, <1>4, EndKeeps DEF Crash
<1>5. ASSUME NEW r \in Requests, StoreFails(r) PROVE FALSE
  BY <1>5 DEF StoreFails
<1>6. CASE Expire
  BY <1>0, <1>6, ExpireKeeps DEF Expire
<1> HIDE DEF KeyCalm
<1> QED
  BY <1>1, <1>2, <1>3, <1>4, <1>5, <1>6 DEF KeyNext

\* The strengthened invariant holds for any number of attempts.
THEOREM KeyInvAlways == KeySpec => []KeyInv
<1>1. KeyInit => KeyInv
  BY KeyInitInv
<1>2. KeyInv /\ [KeyNext]_keyVars => KeyInv'
  BY KeyStepInv
<1> QED
  BY <1>1, <1>2, PTL DEF KeySpec

\* A retrying client never places a second order while the key lasts: the
\* "exactly once" of checkAndLock, for retries that do not overlap.
THEOREM OneOrderPerKey == KeySpec => []AtMostOneOrder
<1>1. KeyInv => AtMostOneOrder
  BY DEF KeyInv, KeyCalm, Remembered, AtMostOneOrder
<1> QED
  BY <1>1, KeyInvAlways, PTL

\* The key stays taken while its order stands (complete, release).
THEOREM OrderStaysOnRecord == KeySpec => []OrderIsRemembered
<1>1. KeyInv => OrderIsRemembered
  BY DEF KeyInv, KeyCalm, Remembered, OrderIsRemembered
<1> QED
  BY <1>1, KeyInvAlways, PTL

\* What a retry is told is the order its first attempt placed (complete).
THEOREM ReplayAlways == KeySpec => []ReplayIsTheOrder
<1>1. KeyInv => ReplayIsTheOrder
  BY DEF KeyInv, KeyCalm, Remembered, ReplayIsTheOrder
<1> QED
  BY <1>1, KeyInvAlways, PTL
=============================================================================
