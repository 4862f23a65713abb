----------------------------- MODULE CheckoutSaga -----------------------------
(***************************************************************************)
(* Checkouts, the flows of jobs they put on the queue, and the listener    *)
(* that compensates for jobs that fail: orders, stock, payments and one    *)
(* cart put together.  A call to another module is one step here; what may *)
(* happen inside it is the subject of that module's own specification.     *)
(***************************************************************************)
EXTENDS Integers, FiniteSets, FiniteSetsExt, OrderStatus

CONSTANTS Orders,     \* ids of the order rows, given out in ascending order
          Holds,      \* reservations
          Instances,  \* processes of the application; each listens
          Stock,      \* units of the one product there are
          MaxCart,    \* bound: units in the cart
          Attempts,   \* of a job whose failure may be retried
          FaultKinds, \* among "schedule", "stall", "lost", "queue",
                      \* "listing", "release"
          MaxFaults,  \* bound: faults in a behaviour
          None

Chain == <<"validate", "reserve", "pay">>
Running == {"validate", "reserve", "pay"}
Flows == Running \cup {"none", "unscheduled", "done", "failed"}
Placed == {"PENDING_PAYMENT", "PENDING_CONFIRMATION", "CONFIRMED", "CANCELLED"}
Hold == [order : Orders, qty : 0..MaxCart, status : {"RESERVED", "RELEASED"}]
Event == [order : Orders \cup {None}, hold : Holds \cup {None}]
Compensation == [event : Event, hold : Holds \cup {None}, owes : Orders \cup {None},
                 step : {"look", "cancel", "schedule", "release"}]

ASSUME SagaAssumption ==
         /\ Orders \subseteq Nat \ {0} /\ IsFiniteSet(Orders)
         /\ Instances # {}
         /\ Stock \in Nat /\ MaxCart \in Nat \ {0} /\ Attempts \in Nat \ {0}
         /\ MaxFaults \in {0, 1}    \* the queue runs a stalled job only once more
         /\ None \notin Orders \cup Holds \cup Hold \cup Placed \cup Compensation

VARIABLES cash,      \* orders to be paid for on delivery
          status,    \* of each order that was saved
          flow,      \* the job of its checkout flow whose turn it is
          tries,     \* failed attempts of that job
          items,     \* the units the validation passes on to the next jobs
          stock,     \* units available
          holds,     \* reservations
          intents,   \* orders that have a payment intent
          post,      \* follow-up flows of confirmed orders: the hold they name
          releases,  \* release-order-stock jobs
          frees,     \* release-stock jobs
          events,    \* failed jobs each instance has yet to hear of
          listener,  \* the event each instance compensates for
          ghost,     \* the cache entry order:undefined
          owed,      \* orders just cancelled by a request, which has yet to
                     \* schedule the release of their stock
          meddled,   \* history: orders that were cancelled while their
                     \* checkout flow was running
          forgotten, \* history: orders of whose release or compensation
                     \* some part was dropped by a fault
          faults

vars == <<cash, status, flow, tries, items, stock, holds, intents,
          post, releases, frees, events, listener, ghost, owed, meddled, forgotten, faults>>
checkout == <<cash, status, owed, meddled>>
chain == <<flow, tries, items>>
goods == <<stock, holds, intents>>
queue == <<post, releases, frees, events>>
listening == <<listener, ghost>>
troubles == <<forgotten, faults>>

TypeOK == /\ cash \in SUBSET Orders
          /\ status \in [Orders -> Placed \cup {None}]
          /\ flow \in [Orders -> Flows]
          /\ tries \in [Orders -> 0..Attempts - 1]
          /\ items \in [Orders -> 0..MaxCart]
          /\ stock \in 0..Stock
          /\ holds \in [Holds -> Hold \cup {None}]
          /\ intents \in SUBSET Orders
          /\ post \in SUBSET [order : Orders, hold : Holds]
          /\ releases \in SUBSET Orders
          /\ frees \in SUBSET Holds
          /\ events \in [Instances -> SUBSET Event]
          /\ listener \in [Instances -> {None} \cup Compensation]
          /\ ghost \in {None} \cup [order : Orders, status : Placed]
          /\ owed \in SUBSET Orders
          /\ meddled \in SUBSET Orders
          /\ forgotten \in SUBSET Orders
          /\ faults \in 0..MaxFaults

Init == /\ cash = {}
        /\ status = [o \in Orders |-> None]
        /\ flow = [o \in Orders |-> "none"]
        /\ tries = [o \in Orders |-> 0]
        /\ items = [o \in Orders |-> 0]
        /\ stock = Stock
        /\ holds = [r \in Holds |-> None]
        /\ intents = {}
        /\ post = {} /\ releases = {} /\ frees = {}
        /\ events = [l \in Instances |-> {}]
        /\ listener = [l \in Instances |-> None]
        /\ ghost = None
        /\ owed = {} /\ meddled = {} /\ forgotten = {}
        /\ faults = 0

Saved == {o \in Orders : status[o] # None}
HoldsOf(o) == {r \in Holds : holds[r] # None /\ holds[r].order = o}

(* A fault, and the orders whose stock nobody sees to because of it.       *)
Fault(kind, S) == /\ kind \in FaultKinds
                  /\ faults < MaxFaults
                  /\ faults' = faults + 1
                  /\ forgotten' = forgotten \cup S

-----------------------------------------------------------------------------
(* The customer.  A checkout reads the cart, saves an order made from it   *)
(* and then schedules the flow.                                            *)
Checkout(o) ==
  /\ status[o] = None
  /\ \A p \in Orders : p < o => status[p] # None
  /\ \/ /\ status' = [status EXCEPT ![o] = "PENDING_PAYMENT"]
        /\ UNCHANGED cash
     \/ /\ status' = [status EXCEPT ![o] = "PENDING_CONFIRMATION"]
        /\ cash' = cash \cup {o}
  /\ flow' = [flow EXCEPT ![o] = "unscheduled"]
  /\ UNCHANGED <<owed, meddled, tries, items, goods, queue, listening, troubles>>

(* Three jobs for an online payment, two for cash on delivery, each a      *)
(* child of the next: it runs when its child has completed.                *)
ScheduleCheckout(o) ==
  /\ flow[o] = "unscheduled"
  /\ flow' = [flow EXCEPT ![o] = Chain[1]]
  /\ UNCHANGED <<checkout, tries, items, goods, queue, listening, troubles>>

(* The order is saved again as it is: nobody called cancel on it.          *)
ScheduleFails(o) ==
  /\ flow[o] = "unscheduled"
  /\ Fault("schedule", {})
  /\ flow' = [flow EXCEPT ![o] = "none"]
  /\ UNCHANGED <<checkout, tries, items, goods, queue, listening>>

-----------------------------------------------------------------------------
(* A job of the flow runs, and the queue puts the next one in its place;   *)
(* if the worker dies in between, the job is run once more.                *)
PayFirst(o) ==    \* mutant: the payment is the child of the reservation
  CASE flow[o] = "validate" -> "pay" [] flow[o] = "pay" -> "reserve" [] OTHER -> "done"
NextJob(o) ==
  CASE flow[o] = "validate" -> "reserve"
    [] flow[o] = "reserve" /\ o \notin cash -> "pay"
    [] OTHER -> "done"

Done(o) ==
  /\ \/ /\ flow' = [flow EXCEPT ![o] = NextJob(o)]
        /\ tries' = [tries EXCEPT ![o] = 0]
        /\ UNCHANGED troubles
     \/ /\ Fault("stall", {})
        /\ UNCHANGED <<flow, tries>>
  /\ UNCHANGED queue

(* The job has failed for good: every instance hears of it.                *)
Announced(e) == [l \in Instances |-> events[l] \cup {e}]

Failed(o) == /\ flow' = [flow EXCEPT ![o] = "failed"]
             /\ tries' = [tries EXCEPT ![o] = 0]
             /\ events' = Announced([order |-> o, hold |-> None])
             /\ UNCHANGED <<post, releases, frees, troubles>>

(* The cart is read again: its items, not those of the order, go on.  It   *)
(* may also be empty by now, or its owner have no address left.            *)
CartItems == 1..MaxCart

ValidateCart(o) ==
  /\ flow[o] = "validate"
  /\ \/ /\ \E n \in CartItems : items' = [items EXCEPT ![o] = n]
        /\ Done(o)
     \/ /\ Failed(o)
        /\ UNCHANGED items
  /\ UNCHANGED <<checkout, goods, listening>>

(* Of all the errors in the flow only those of this job's gateways are     *)
(* passed on as they are, and may be retried.                              *)
MayRetry(o) == tries[o] < Attempts - 1

ValidationErrs(o) ==
  /\ flow[o] = "validate"
  /\ \/ /\ MayRetry(o)
        /\ tries' = [tries EXCEPT ![o] = @ + 1]
        /\ UNCHANGED <<flow, queue, troubles>>
     \/ /\ ~MayRetry(o)
        /\ Failed(o)
  /\ UNCHANGED <<checkout, items, goods, listening>>

HoldFor(o, n) == [order |-> o, qty |-> n, status |-> "RESERVED"]

ReserveStock(o) ==
  /\ flow[o] = "reserve"
  /\ \/ /\ items[o] <= stock
        /\ \E r \in Holds :
             /\ holds[r] = None
             /\ r = CHOOSE q \in Holds : holds[q] = None
             /\ holds' = [holds EXCEPT ![r] = HoldFor(o, items[o])]
        /\ stock' = stock - items[o]
        /\ Done(o)
     \/ /\ items[o] > stock
        /\ Failed(o)
        /\ UNCHANGED <<stock, holds>>
  /\ UNCHANGED <<checkout, items, intents, listening>>

(* Whatever has become of the order, its intent is created.                *)
ProcessPayment(o) ==
  /\ flow[o] = "pay"
  /\ \/ /\ intents' = intents \cup {o}
        /\ Done(o)
     \/ /\ Failed(o)
        /\ UNCHANGED intents
  /\ UNCHANGED <<checkout, items, stock, holds, listening>>

-----------------------------------------------------------------------------
(* CancelOrder saves the order as cancelled; only then is the release of   *)
(* its stock put on the queue.                                             *)
CancelEffect(o) ==
  /\ status' = [status EXCEPT ![o] = "CANCELLED"]
  /\ meddled' = IF flow[o] \in Running \cup {"unscheduled"} THEN meddled \cup {o}
                                                           ELSE meddled
  /\ UNCHANGED cash

NoRelease(o) == releases    \* mutant: the stock is forgotten
ReleaseOf(o) == releases \cup {o}

(* By the shop, or by the cron for an order that has been pending too long.*)
Cancel(o) ==
  /\ status[o] \in Cancellable
  /\ CancelEffect(o)
  /\ owed' = owed \cup {o}
  /\ UNCHANGED <<chain, goods, queue, listening, troubles>>

ScheduleRelease(o) ==
  /\ o \in owed
  /\ owed' = owed \ {o}
  /\ releases' = ReleaseOf(o)
  /\ UNCHANGED <<cash, status, meddled, chain, goods, post, frees, events,
                 listening, troubles>>

(* The queue refuses the job, which is logged only and the request answered*)
(* as a success; or the process dies before it is asked.                   *)
ReleaseUnscheduled(o) ==
  /\ o \in owed
  /\ Fault("queue", {o})
  /\ owed' = owed \ {o}
  /\ UNCHANGED <<cash, status, meddled, chain, goods, queue, listening>>

(* Cash on delivery is confirmed by telephone.  The request may name the   *)
(* reservation and the cart; only then is the follow-up flow scheduled.    *)
Confirm(o) ==
  /\ status[o] = "PENDING_CONFIRMATION"
  /\ status' = [status EXCEPT ![o] = "CONFIRMED"]
  /\ \/ UNCHANGED post
     \/ \E r \in HoldsOf(o) : post' = post \cup {[order |-> o, hold |-> r]}
  /\ UNCHANGED <<cash, owed, meddled, chain, goods, releases, frees, events,
                 listening, troubles>>

(* The first job of that flow wants the reservation from a child it does   *)
(* not have; the jobs behind it, clear-cart and finalize, never run.       *)
ConfirmReservation(o) ==
  /\ \E p \in post : /\ p.order = o
                     /\ post' = post \ {p}
                     /\ events' = Announced(p)
  /\ UNCHANGED <<checkout, chain, goods, releases, frees, listening, troubles>>

(* One job for each reservation of the order; one that the queue refuses is*)
(* logged only.                                                            *)
ReleaseOrderStock(o) ==
  /\ o \in releases
  /\ releases' = releases \ {o}
  /\ \/ /\ frees' = frees \cup HoldsOf(o)
        /\ UNCHANGED troubles
     \/ \E r \in HoldsOf(o) : /\ Fault("queue", {o})
                             /\ frees' = frees \cup (HoldsOf(o) \ {r})
  /\ UNCHANGED <<checkout, chain, goods, post, events, listening>>

(* The reservations cannot be read: the job fails for good.                *)
ListingFails(o) ==
  /\ o \in releases
  /\ Fault("listing", {})
  /\ releases' = releases \ {o}
  /\ events' = Announced([order |-> o, hold |-> None])
  /\ UNCHANGED <<checkout, chain, goods, post, frees, listening>>

FreeTwice(r) == holds[r] # None    \* mutant: released ones too
Free(r) == holds[r] # None /\ holds[r].status = "RESERVED"

Freed(r) == IF Free(r)
              THEN /\ holds' = [holds EXCEPT ![r].status = "RELEASED"]
                   /\ stock' = stock + holds[r].qty
              ELSE UNCHANGED <<holds, stock>>

ReleaseStock(r) ==
  /\ r \in frees
  /\ frees' = frees \ {r}
  /\ Freed(r)
  /\ UNCHANGED <<checkout, chain, intents, post, releases, events, listening, troubles>>

(* A release that fails is a failed job of the queue like any other.       *)
ReleaseFails(r) ==
  /\ r \in frees
  /\ Fault("release", {})
  /\ frees' = frees \ {r}
  /\ events' = Announced([order |-> None, hold |-> r])
  /\ UNCHANGED <<checkout, chain, goods, post, releases, listening>>

-----------------------------------------------------------------------------
(* CheckoutFailureListener.  It finds a reservation of the order, cancels, *)
(* and releases the reservation.                                           *)
Hear(l) ==
  /\ listener[l] = None
  /\ \E e \in events[l] :
       /\ events' = [events EXCEPT ![l] = @ \ {e}]
       /\ listener' = [listener EXCEPT ![l] =
            [event |-> e, hold |-> e.hold, owes |-> None,
             step |-> IF e.order = None THEN "release"
                      ELSE IF e.hold = None THEN "look" ELSE "cancel"]]
  /\ UNCHANGED <<checkout, chain, goods, post, releases, frees, ghost, troubles>>

Advance(l, r, p, s) ==
  listener' = [listener EXCEPT ![l] =
                 [event |-> @.event, hold |-> r, owes |-> p, step |-> s]]

NoHoldFound(o) == {None}    \* mutant
FirstHoldOf(o) == IF HoldsOf(o) = {} THEN {None} ELSE HoldsOf(o)

(* Reservations that cannot be read are taken for none.                    *)
Look(l) ==
  /\ listener[l] # None /\ listener[l].step = "look"
  /\ LET o == listener[l].event.order IN
       \/ /\ \E r \in FirstHoldOf(o) : Advance(l, r, None, "cancel")
          /\ UNCHANGED troubles
       \/ /\ Fault("listing", {o})
          /\ Advance(l, None, None, "cancel")
  /\ UNCHANGED <<checkout, chain, goods, queue, ghost>>

(* It hands the order's number to a use case that takes a command with an  *)
(* orderId, so the id it looks for is undefined.  No entry order:undefined *)
(* is in the cache the first time; a query without a condition then finds  *)
(* the row with the least id, which is cached under that name.             *)
Undefined == IF ghost # None THEN ghost
             ELSE LET o == Min(Saved) IN [order |-> o, status |-> status[o]]

CancelByListener(l) ==
  /\ listener[l] # None /\ listener[l].step = "cancel"
  /\ ghost' = Undefined
  /\ IF Undefined.status \in Cancellable
       THEN /\ CancelEffect(Undefined.order)
            /\ Advance(l, listener[l].hold, Undefined.order, "schedule")
       ELSE /\ UNCHANGED <<cash, status, meddled>>
            /\ Advance(l, listener[l].hold, None, "release")
  /\ UNCHANGED <<owed, chain, goods, queue, troubles>>

ScheduleByListener(l) ==
  /\ listener[l] # None /\ listener[l].step = "schedule"
  /\ \/ /\ releases' = ReleaseOf(listener[l].owes)
        /\ UNCHANGED troubles
     \/ /\ Fault("queue", {listener[l].owes})
        /\ UNCHANGED releases
  /\ Advance(l, listener[l].hold, None, "release")
  /\ UNCHANGED <<checkout, chain, goods, post, frees, events, ghost>>

OrderOf(r) == {o \in Orders : r \in HoldsOf(o)}

(* A release that fails is logged only.                                    *)
ReleaseByListener(l) ==
  /\ listener[l] # None /\ listener[l].step = "release"
  /\ \/ /\ IF listener[l].hold # None THEN Freed(listener[l].hold)
                                      ELSE UNCHANGED <<holds, stock>>
        /\ UNCHANGED troubles
     \/ /\ Fault("release", OrderOf(listener[l].hold))
        /\ UNCHANGED <<holds, stock>>
  /\ listener' = [listener EXCEPT ![l] = None]
  /\ UNCHANGED <<checkout, chain, intents, queue, ghost>>

(* The orders an instance has been told of.                                *)
Tasks(l) ==
  {o \in Orders :
     \/ \E e \in events[l] : e.order = o \/ e.hold \in HoldsOf(o)
     \/ /\ listener[l] # None
        /\ \/ o \in {listener[l].event.order, listener[l].owes}
           \/ listener[l].hold \in HoldsOf(o)}

(* An instance dies: what it was doing, or had yet to hear, is lost.       *)
ListenerDies(l) ==
  /\ listener[l] # None \/ events[l] # {}
  /\ Fault("lost", Tasks(l))
  /\ listener' = [listener EXCEPT ![l] = None]
  /\ events' = [events EXCEPT ![l] = {}]
  /\ UNCHANGED <<checkout, chain, goods, post, releases, frees, ghost>>

GhostExpires ==
  /\ ghost # None
  /\ ghost' = None
  /\ UNCHANGED <<checkout, chain, goods, queue, listener, troubles>>

-----------------------------------------------------------------------------
RunJob(o) == ScheduleCheckout(o) \/ ValidateCart(o) \/ ReserveStock(o)
             \/ ProcessPayment(o) \/ ConfirmReservation(o)
             \/ ReleaseOrderStock(o)
Listen(l) == Hear(l) \/ Look(l) \/ CancelByListener(l) \/ ScheduleByListener(l)
             \/ ReleaseByListener(l)

Next ==
  \/ GhostExpires
  \/ \E o \in Orders : \/ Checkout(o) \/ ScheduleFails(o) \/ RunJob(o)
                       \/ ValidationErrs(o) \/ Cancel(o) \/ Confirm(o)
                       \/ ScheduleRelease(o) \/ ReleaseUnscheduled(o)
                       \/ ListingFails(o)
  \/ \E r \in Holds : ReleaseStock(r) \/ ReleaseFails(r)
  \/ \E l \in Instances : Listen(l) \/ ListenerDies(l)

Spec == Init /\ [][Next]_vars

(* A request that has begun, the workers of the queue and the listeners go *)
(* on; nothing forces a customer, the shop, or a fault.                    *)
Fairness == /\ \A o \in Orders : WF_vars(RunJob(o)) /\ WF_vars(ScheduleRelease(o))
            /\ \A r \in Holds : WF_vars(ReleaseStock(r))
            /\ \A l \in Instances : WF_vars(Listen(l))

FairSpec == Spec /\ Fairness

-----------------------------------------------------------------------------
AtRest == /\ \A o \in Orders : flow[o] \notin Running \cup {"unscheduled"}
          /\ owed = {} /\ post = {} /\ releases = {} /\ frees = {}
          /\ \A l \in Instances : listener[l] = None /\ events[l] = {}

(* No payment is asked for before stock is held for it, whatever stalls,   *)
(* fails or is cancelled meanwhile.                                        *)
IntentNeedsHold == \A o \in intents : HoldsOf(o) # {}

(* When all is done, a cancelled order holds no stock, whoever cancelled   *)
(* it, and even for a stalled job that reserved twice, a release that      *)
(* failed or a list of reservations that could not be read, after which    *)
(* the listener has to release; unless it was cancelled while its checkout *)
(* flow was running, or the fault was one the code only logs.              *)
CancelledHoldsNothing ==
  AtRest =>
    \A o \in Orders : status[o] = "CANCELLED" /\ o \notin meddled \cup forgotten =>
      \A r \in HoldsOf(o) : holds[r].status = "RELEASED"

(* A checkout that failed gives its stock back, unless its compensation    *)
(* was cut off by a fault or a job that ran twice left it two reservations.*)
FailedReleases ==
  \A o \in Orders :
    flow[o] = "failed" ~>
      \/ \A r \in HoldsOf(o) : holds[r].status = "RELEASED"
      \/ o \in forgotten \/ Cardinality(HoldsOf(o)) > 1

(* A checkout that failed leaves a cancelled order.                        *)
FailedIsCancelled ==
  AtRest /\ faults = 0 =>
    \A o \in Orders : flow[o] = "failed" => status[o] = "CANCELLED"

(* A confirmed order keeps the stock that is reserved for it.              *)
ConfirmedKeepsHold ==
  [][\A o \in Orders : status[o] = "CONFIRMED" /\ status'[o] = "CONFIRMED" =>
       \A r \in HoldsOf(o) : holds'[r] = holds[r]]_vars

=============================================================================
