--------------------------- MODULE OrderLifecycle ---------------------------
(***************************************************************************)
(* One order: its row, its cache entry, and the use cases that move it.    *)
(* Each use case looks the order up through CachedOrderRepository, decides *)
(* on that copy, writes the row without looking again, then patches or     *)
(* evicts the cache entry, and last puts its follow-up job on the queue.   *)
(* Every one of these is a separate await, so requests, event jobs and the *)
(* expiry cron interleave between them, and a process may die there.       *)
(***************************************************************************)
EXTENDS Integers, OrderStatus

CONSTANTS Workers,    \* requests, queue jobs and cron runs that may overlap
          Methods,    \* payment methods of the instance: "ONLINE", "COD"
          Endpoints,  \* requests of the instance, among Requests
          Metadata,   \* what a payment's metadata may name: sets of Names
          FaultKinds, \* among "crash", "repository", "queue"
          MaxFaults,  \* bound: faults in a behaviour
          Missing     \* no cache entry

Requests == {"Confirm", "Process", "Ship", "Deliver", "DeliverCod", "Cancel",
             "View", "List"}
Handlers == {"PaymentCompleted", "PaymentFailed"}
Operations == Requests \cup Handlers \cup {"Expire"}
Steps == {"idle", "lookup", "read", "fill", "collect", "attach", "refreshPaid",
          "storePaid", "decide", "refresh", "store", "evict", "schedule"}
Orders == [status : Statuses, paid : BOOLEAN]
FollowUps == {"postPayment", "release"}
Names == {"reservation", "cart"}
Many == 2    \* bound: follow-ups are counted as none, one, several

ASSUME LifecycleAssumption ==
         /\ Methods \subseteq {"ONLINE", "COD"}
         /\ Endpoints \subseteq Requests
         /\ Metadata \subseteq SUBSET Names
         /\ MaxFaults \in Nat
         /\ Missing \notin Orders

VARIABLES method,   \* the order's payment method
          row,      \* the order's row; paid says that paymentId is set
          cache,    \* its cache entry
          outcome,  \* what its payment came to, in the payments module
          job,      \* the payment event: "none" yet, "queued", or "done"
          named,    \* what that event names
          op, step, \* what each worker runs, and where it is
          copy,     \* the order as the worker read it
          draft,    \* the cache entry the worker has read and patched
          flows,    \* follow-up flows put on the queue
          seen,     \* history: the statuses the row has had
          lost,     \* history: follow-ups a fault took after their write
          faults    \* faults so far

vars == <<method, row, cache, outcome, job, named, op, step, copy, draft,
          flows, seen, lost, faults>>
given == <<method, named>>
troubles == <<lost, faults>>
world == <<row, cache, flows, seen>>
worker == <<op, step, copy, draft>>

TypeOK == /\ method \in {"ONLINE", "COD"}
          /\ row \in Orders
          /\ cache \in Orders \cup {Missing}
          /\ outcome \in {"none", "completed", "failed", "collected"}
          /\ job \in {"none", "queued", "done"}
          /\ named \subseteq Names
          /\ op \in [Workers -> Operations \cup {"none"}]
          /\ step \in [Workers -> Steps]
          /\ copy \in [Workers -> Orders \cup {Missing}]
          /\ draft \in [Workers -> Orders \cup {Missing}]
          /\ flows \in [FollowUps -> 0..Many]
          /\ seen \in SUBSET Statuses
          /\ lost \subseteq FollowUps
          /\ faults \in Nat

(* Order.create: CASH_ON_DELIVERY waits for confirmation, every other      *)
(* method for payment, and none has a paymentId.                           *)
Created(m) == [status |-> IF m = "COD" THEN "PENDING_CONFIRMATION"
                                       ELSE "PENDING_PAYMENT",
               paid |-> FALSE]

Init == /\ method \in Methods
        /\ row = Created(method)
        /\ cache \in {Missing, row}
        /\ outcome = "none"
        /\ job = "none"
        /\ named = {}
        /\ op = [w \in Workers |-> "none"]
        /\ step = [w \in Workers |-> "idle"]
        /\ copy = [w \in Workers |-> Missing]
        /\ draft = [w \in Workers |-> Missing]
        /\ flows = [f \in FollowUps |-> 0]
        /\ seen = {row.status}
        /\ lost = {}
        /\ faults = 0

-----------------------------------------------------------------------------
(* The status each use case asks the entity for, the statuses in which the *)
(* entity agrees, and the transition table it consults last.               *)
Target(o) ==
  CASE o \in {"PaymentCompleted", "Confirm"} -> "CONFIRMED"
    [] o = "PaymentFailed" -> "PAYMENT_FAILED"
    [] o = "Process" -> "PROCESSING"
    [] o = "Ship" -> "SHIPPED"
    [] o \in {"Deliver", "DeliverCod"} -> "DELIVERED"
    [] OTHER -> "CANCELLED"

Required(o) ==
  CASE o \in Handlers -> {"PENDING_PAYMENT"}
    [] o = "Confirm" -> IF method = "COD" THEN {"PENDING_CONFIRMATION"}
                                          ELSE {"PENDING_PAYMENT"}
    [] o = "Process" -> {"CONFIRMED"}
    [] o = "Ship" -> {"PROCESSING"}
    [] o \in {"Deliver", "DeliverCod"} -> {"SHIPPED"}
    [] OTHER -> Cancellable

NoPaymentNeeded(w) == TRUE    \* mutant: ConfirmOrder does not ask for it
PaymentPresent(w) == op[w] = "Confirm" => method = "COD" \/ copy[w].paid

AcceptsUnlessCancelled(w) ==    \* mutant: the table is not consulted
  PaymentPresent(w) /\ copy[w].status # "CANCELLED"
Accepts(w) == /\ PaymentPresent(w)
              /\ copy[w].status \in Required(op[w])
              /\ Target(op[w]) \in Transitions[copy[w].status]

Goto(w, s) == /\ step' = [step EXCEPT ![w] = s]
              /\ UNCHANGED <<op, copy>>

Leave(w) == /\ op' = [op EXCEPT ![w] = "none"]
            /\ step' = [step EXCEPT ![w] = "idle"]
            /\ copy' = [copy EXCEPT ![w] = Missing]
            /\ draft' = [draft EXCEPT ![w] = Missing]

(* A handler that returns takes the event off the queue, whatever it       *)
(* returns: a UseCaseError is not retryable, so BaseJobHandler fails the   *)
(* job for good.  Only one that dies leaves the event to be run again.     *)
Return(w) == /\ Leave(w)
             /\ job' = IF op[w] \in Handlers THEN "done" ELSE job

-----------------------------------------------------------------------------
(* The payment's row is settled: by the webhook, whose save is refused     *)
(* today (WebhookSettles of Payments), or by a request that pays at once.  *)
PaymentSettles(result) ==
  /\ method = "ONLINE"
  /\ outcome = "none"
  /\ outcome' = result
  /\ UNCHANGED <<given, world, worker, job, troubles>>

(* The webhook's next call queues the event, with what the metadata of the *)
(* payment names: process-payment.job.ts puts the reservation there, PayPal*)
(* sends nothing, and no caller ever names a cart.  The event may be lost  *)
(* or never sent: nobody but the webhook sends one, the scheduler swallows *)
(* the queue's errors, and the process may die first.                      *)
EmitEvent ==
  /\ outcome \in {"completed", "failed"}
  /\ job = "none"
  /\ job' = "queued"
  /\ named' \in Metadata
  /\ UNCHANGED <<method, outcome, world, worker, troubles>>

Begin(w, o) ==
  /\ op[w] = "none"
  /\ op' = [op EXCEPT ![w] = o]
  /\ step' = [step EXCEPT ![w] = IF o = "List" THEN "read" ELSE "lookup"]
  /\ UNCHANGED <<given, world, outcome, job, copy, draft, troubles>>

Request(w) == \E o \in Endpoints : Begin(w, o)

(* Delivered at least once: a stalled job runs while its first run goes on.*)
HandleEvent(w) ==
  /\ job # "none"
  /\ \/ outcome = "completed" /\ Begin(w, "PaymentCompleted")
     \/ outcome = "failed" /\ Begin(w, "PaymentFailed")

(* ExpirePendingOrders asks the row who is pending, then runs CancelOrder, *)
(* which looks the order up again, through the cache.                      *)
ListExpired(w) == row.status = "PENDING_PAYMENT" /\ Begin(w, "Expire")

(* CachedOrderRepository.findById: a hit ends it; on a miss the row is     *)
(* read and the entry set.  listOrders goes to the rows and sets their     *)
(* entries: the NX it asks for never reaches Redis (setAll hands it to     *)
(* json.set as further arguments), so an entry that is there is overwritten*)
NextAfterFind(w) ==
  IF op[w] = "DeliverCod" /\ method = "COD" THEN "collect" ELSE "decide"

Hold(w, order, s) == /\ copy' = [copy EXCEPT ![w] = order]
                      /\ step' = [step EXCEPT ![w] = s]
                      /\ UNCHANGED op

Lookup(w) ==
  /\ step[w] = "lookup"
  /\ IF cache = Missing
     THEN Goto(w, "read")
     ELSE Hold(w, cache, NextAfterFind(w))
  /\ UNCHANGED <<given, world, outcome, job, draft, troubles>>

ReadRow(w) ==
  /\ step[w] = "read"
  /\ Hold(w, row, "fill")
  /\ UNCHANGED <<given, world, outcome, job, draft, troubles>>

Fill(w) ==
  /\ step[w] = "fill"
  /\ cache' = copy[w]
  /\ Goto(w, NextAfterFind(w))
  /\ UNCHANGED <<given, row, flows, seen, outcome, job, draft, troubles>>

(* DeliverOrder records the cash and its paymentId before it asks whether  *)
(* the order may be delivered at all.                                      *)
CollectCod(w) ==
  /\ step[w] = "collect"
  /\ outcome' = "collected"
  /\ Goto(w, "attach")
  /\ UNCHANGED <<given, world, job, draft, troubles>>

AttachPayment(w) ==
  /\ step[w] = "attach"
  /\ row' = [row EXCEPT !.paid = TRUE]
  /\ Goto(w, "refreshPaid")
  /\ UNCHANGED <<given, cache, flows, seen, outcome, job, draft, troubles>>

(* The entity refuses, or there was only something to look at, or a        *)
(* handler finds its own work done.                                        *)
Decline(w) ==
  /\ step[w] = "decide"
  /\ op[w] \in {"View", "List"} \/ ~Accepts(w)
  /\ Return(w)
  /\ UNCHANGED <<given, world, outcome, troubles>>

(* updateStatus: an UPDATE by id, whatever the row holds by now.           *)
Forgotten(w) == row    \* mutant: only the entity's copy changes
Updated(w) == [row EXCEPT !.status = Target(op[w])]

WriteStatus(w) ==
  /\ step[w] = "decide"
  /\ op[w] \notin {"Cancel", "Expire", "View", "List"}
  /\ Accepts(w)
  /\ row' = Updated(w)
  /\ seen' = seen \cup {row'.status}
  /\ Hold(w, Missing, "refresh")
  /\ UNCHANGED <<given, cache, flows, outcome, job, draft, troubles>>

(* cancelOrder: the whole copy is saved over the row.                      *)
SaveCancelled(w) ==
  /\ step[w] = "decide"
  /\ op[w] \in {"Cancel", "Expire"}
  /\ Accepts(w)
  /\ row' = [copy[w] EXCEPT !.status = Target(op[w])]
  /\ seen' = seen \cup {row'.status}
  /\ Hold(w, Missing, "evict")
  /\ UNCHANGED <<given, cache, flows, outcome, job, draft, troubles>>

NotEvicted(w) == cache    \* mutant: cancelOrder leaves the entry
Evicted(w) == Missing

Evict(w) ==
  /\ step[w] = "evict"
  /\ cache' = Evicted(w)
  /\ Goto(w, "schedule")
  /\ UNCHANGED <<given, row, flows, seen, outcome, job, draft, troubles>>

(* What follows the write of a status, or of the paymentId.                *)
Proceed(w, s) == Goto(w, s) /\ draft' = [draft EXCEPT ![w] = Missing] /\ UNCHANGED job
Onward(w) ==
  IF step[w] \in {"refreshPaid", "storePaid"} THEN Proceed(w, "decide")
  ELSE IF op[w] \in Handlers \cup {"Confirm"} THEN Proceed(w, "schedule")
       ELSE Return(w)

(* An entry that is there is read, patched and set again; one that is not  *)
(* stays away.                                                             *)
Patched(w) == IF step[w] = "refresh" THEN [cache EXCEPT !.status = Target(op[w])]
                                     ELSE [cache EXCEPT !.paid = TRUE]

ReadEntry(w) ==
  /\ step[w] \in {"refresh", "refreshPaid"}
  /\ IF cache = Missing
     THEN Onward(w)
     ELSE /\ draft' = [draft EXCEPT ![w] = Patched(w)]
          /\ Goto(w, IF step[w] = "refresh" THEN "store" ELSE "storePaid")
          /\ UNCHANGED job
  /\ UNCHANGED <<given, world, outcome, troubles>>

WriteEntry(w) ==
  /\ step[w] \in {"store", "storePaid"}
  /\ cache' = draft[w]
  /\ Onward(w)
  /\ UNCHANGED <<given, row, flows, seen, outcome, troubles>>

Counted(f) == [flows EXCEPT ![f] = IF @ = Many THEN Many ELSE @ + 1]

SwappedFlow(w) ==    \* mutant: each the other's flow
  IF op[w] \in {"PaymentCompleted", "Confirm"} THEN "release" ELSE "postPayment"
FollowUp(w) == IF op[w] \in {"PaymentCompleted", "Confirm"} THEN "postPayment"
                                                          ELSE "release"

(* PaymentCompleted asks its event for the reservation and the cart,       *)
(* PaymentFailed for the reservation; a confirmation of cash on delivery is*)
(* told both or not; a cancellation needs neither.                         *)
NamesBoth(w) ==    \* mutant: the failed payment asks for the cart as well
  CASE op[w] \in Handlers -> named = Names
    [] op[w] = "Confirm" -> method = "COD"
    [] OTHER -> TRUE
Named(w) ==
  CASE op[w] = "PaymentCompleted" -> named = Names
    [] op[w] = "PaymentFailed" -> "reservation" \in named
    [] op[w] = "Confirm" -> method = "COD"
    [] OTHER -> TRUE

Schedule(w) ==
  /\ step[w] = "schedule"
  /\ \/ Named(w) /\ flows' = Counted(FollowUp(w))
     \/ (op[w] = "Confirm" \/ ~Named(w)) /\ UNCHANGED flows
  /\ Return(w)
  /\ UNCHANGED <<given, row, cache, seen, outcome, troubles>>

-----------------------------------------------------------------------------
(* The entry's TTL ends, or Redis evicts it.                               *)
CacheExpires ==
  /\ cache # Missing
  /\ cache' = Missing
  /\ UNCHANGED <<given, row, flows, seen, outcome, job, worker, troubles>>

Fault(kind) == /\ kind \in FaultKinds
               /\ faults < MaxFaults
               /\ faults' = faults + 1
               /\ UNCHANGED <<given, row, cache, seen, outcome>>

(* What is lost with a use case that ends here: its follow-up, if it has   *)
(* written the status it follows up.                                       *)
WithoutFollowUp(w) ==
  IF /\ step[w] \in {"refresh", "store", "evict", "schedule"}
     /\ op[w] \in Handlers \cup {"Confirm", "Cancel", "Expire"}
  THEN lost \cup {FollowUp(w)}
  ELSE lost

(* The process dies.                                                       *)
Crash(w) == /\ op[w] # "none"
            /\ Leave(w)
            /\ lost' = WithoutFollowUp(w)
            /\ Fault("crash")
            /\ UNCHANGED <<flows, job>>

(* The database or Redis answers with an error.  The payment handlers do   *)
(* not look at the result of updateStatus, nor DeliverOrder at that of     *)
(* updatePaymentId: they go on.  Every other use case returns the error.   *)
AttachIgnored(w) == step[w] \in {"attach", "refreshPaid", "storePaid"}
UpdateIgnored(w) ==
  step[w] \in {"decide", "refresh", "store"} /\ op[w] \in Handlers

RepositoryFails(w) ==
  /\ step[w] \notin {"idle", "schedule"}
  /\ step[w] = "decide" => op[w] \notin {"View", "List"} /\ Accepts(w)
  /\ \/ /\ ~AttachIgnored(w) /\ ~UpdateIgnored(w) /\ Return(w)
        /\ lost' = WithoutFollowUp(w)
     \/ AttachIgnored(w) /\ Proceed(w, "decide") /\ UNCHANGED lost
     \/ /\ UpdateIgnored(w) /\ Hold(w, Missing, "schedule")
        /\ draft' = [draft EXCEPT ![w] = Missing]
        /\ UNCHANGED <<job, lost>>
  /\ Fault("repository")
  /\ UNCHANGED flows

(* The queue does not take the follow-up: logged, and the answer is still  *)
(* success.                                                                *)
ScheduleFails(w) ==
  /\ step[w] = "schedule"
  /\ Named(w)
  /\ Return(w)
  /\ lost' = WithoutFollowUp(w)
  /\ Fault("queue")
  /\ UNCHANGED flows

WorkerStep(w) == \/ Lookup(w) \/ ReadRow(w) \/ Fill(w) \/ CollectCod(w)
                 \/ AttachPayment(w) \/ Decline(w) \/ WriteStatus(w) \/ SaveCancelled(w)
                 \/ Evict(w) \/ ReadEntry(w) \/ WriteEntry(w) \/ Schedule(w)

Next == \/ \E result \in {"completed", "failed"} : PaymentSettles(result)
        \/ EmitEvent \/ CacheExpires
        \/ \E w \in Workers :
             \/ Request(w) \/ HandleEvent(w) \/ ListExpired(w)
             \/ WorkerStep(w)
             \/ Crash(w) \/ RepositoryFails(w) \/ ScheduleFails(w)

Spec == Init /\ [][Next]_vars

(* A use case that runs goes on, and an event on the queue is taken up;    *)
(* BullMQ runs the event of a process that died once more, which is why    *)
(* the instances bound the crashes by one.  Nothing forces a request, a    *)
(* payment, its event or the cron.                                         *)
Fairness ==
  /\ \A w \in Workers : WF_vars(WorkerStep(w))
  /\ SF_vars(\E w \in Workers : job = "queued" /\ HandleEvent(w))

FairSpec == Spec /\ Fairness

-----------------------------------------------------------------------------
Quiet == \A w \in Workers : op[w] = "none"

(* Whatever overlaps, no status is ever reached over an edge the table     *)
(* does not have: every status the row has had, but the first, was allowed *)
(* from another one it had had.  (Decisions on stale copies.)              *)
LegalHistory ==
  \A s \in seen : s = Created(method).status \/ \E t \in seen : s \in Transitions[t]

(* Goods leave only for money: an online order was never confirmed unless  *)
(* its payment completed, nor marked failed unless it failed, and a        *)
(* cash-on-delivery order never enters the payment phase.                  *)
(* (HandlePaymentCompleted, HandlePaymentFailed, ConfirmOrder together.)   *)
PaymentRespected ==
  /\ method = "ONLINE" /\ "CONFIRMED" \in seen => outcome = "completed"
  /\ "PAYMENT_FAILED" \in seen => outcome = "failed"
  /\ method = "COD" => seen \cap PaymentPhase = {}

(* Stock is given back only for an order that was cancelled or whose       *)
(* payment failed, and taken only for one that was confirmed.              *)
(* (The follow-up is scheduled after the write, by the same use case.)     *)
FlowsJustified ==
  /\ flows["release"] > 0 => seen \cap {"CANCELLED", "PAYMENT_FAILED"} # {}
  /\ flows["postPayment"] > 0 => "CONFIRMED" \in seen

(* When nothing is running the cache says what the row says.               *)
(* (CachedOrderRepository: patch on updateStatus, eviction on cancel.)     *)
CacheCoherent == Quiet => cache \in {Missing, row}

(* One order leads to one post-payment flow.                               *)
(* (The idempotency check at the top of HandlePaymentCompleted.)           *)
FlowOnce == flows["postPayment"] <= 1

(* Only the transitions of the table, seen from outside: with no overlap   *)
(* and no fault the row is the order status machine.                       *)
StatusMachine == INSTANCE OrderStatusMachine WITH status <- row.status
ImplementsStatusMachine == StatusMachine!Machine

(* Cancelled is final.  (OrderStatusVO.canTransitionTo.)                   *)
CancelledIsFinal == [][row.status = "CANCELLED" => row'.status = "CANCELLED"]_vars

(* A confirmed online order carries its payment.                           *)
(* (Order.confirmPayment sets the id; only the status is written.)         *)
ConfirmedHasPayment ==
  method = "ONLINE" /\ row.status = "CONFIRMED" => row.paid

(* An order does not stay pending once the event of its payment is on the  *)
(* queue, although a handler may die with it or decide on an old copy.     *)
(* (HandlePaymentCompleted, HandlePaymentFailed, retried by the queue.)    *)
EventLeavesPending == job = "queued" ~> row.status # "PENDING_PAYMENT"

(* A cancelled order's stock is released.  The one thing that can prevent  *)
(* it is a fault after the cancellation was saved: the process dies before *)
(* the release is scheduled, or the queue does not take it.                *)
(* (CancelOrder, ExpirePendingOrders.)                                     *)
CancelledReleases ==
  "CANCELLED" \in seen ~> flows["release"] > 0 \/ "release" \in lost

(* So is the stock of an order whose payment failed, if the event names the*)
(* reservation; also when the event is run again after a handler died.     *)
(* (HandlePaymentFailed.)                                                  *)
FailureReleases ==
  "PAYMENT_FAILED" \in seen /\ "reservation" \in named
    ~> flows["release"] > 0 \/ "release" \in lost

(* An online order that was paid and confirmed gets its post-payment flow, *)
(* which sells the reservation and clears the cart.                        *)
(* (HandlePaymentCompleted.)                                               *)
ConfirmedFlows ==
  method = "ONLINE" /\ "CONFIRMED" \in seen
    ~> flows["postPayment"] > 0 \/ "postPayment" \in lost
=============================================================================
