------------------------ MODULE OrderLifecycleProofs ------------------------
(***************************************************************************)
(* What OrderLifecycle guarantees for any number of workers and faults.    *)
(* The argument: every status anybody holds -- in the row, in the cache,   *)
(* in a worker's copy or in an entry about to be set -- is a status the    *)
(* row has had.  A decision on a stale copy is then still a decision on a  *)
(* status the order once had, and its edge is an edge of the table.        *)
(***************************************************************************)
EXTENDS OrderLifecycle, TLAPS

USE DEF given, troubles

(* Everything held in memory or in Redis was once committed.               *)
Committed ==
  /\ row.status \in seen
  /\ cache # Missing => cache.status \in seen
  /\ \A w \in Workers : copy[w] # Missing => copy[w].status \in seen
  /\ \A w \in Workers : draft[w] # Missing => draft[w].status \in seen

(* A worker at a step that uses its copy or its entry has one, and one     *)
(* past its write has its target in the history.                           *)
InHand ==
  \A w \in Workers :
    /\ step[w] # "idle" => op[w] \in Operations
    /\ step[w] \in {"fill", "collect", "attach", "refreshPaid", "storePaid", "decide"}
         => copy[w] # Missing
    /\ step[w] \in {"store", "storePaid"} => draft[w] # Missing
    /\ step[w] \in {"refresh", "store"} => Target(op[w]) \in seen

(* No online order has a paymentId, and events are those of the outcome.   *)
PaymentIdOnlyForCod ==
  method = "ONLINE" =>
    /\ ~row.paid
    /\ cache # Missing => ~cache.paid
    /\ \A w \in Workers : copy[w] # Missing => ~copy[w].paid
    /\ \A w \in Workers : draft[w] # Missing => ~draft[w].paid
    /\ \A w \in Workers : step[w] \notin {"collect", "attach", "refreshPaid", "storePaid"}

EventsOfOutcome ==
  /\ method = "COD" => outcome \in {"none", "collected"}
  /\ \A w \in Workers : /\ op[w] = "PaymentCompleted" => outcome = "completed"
                        /\ op[w] = "PaymentFailed" => outcome = "failed"
                        /\ step[w] = "collect" => method = "COD"

IInv == /\ TypeOK
        /\ Committed
        /\ InHand
        /\ PaymentIdOnlyForCod
        /\ EventsOfOutcome
        /\ LegalHistory
        /\ PaymentRespected

-----------------------------------------------------------------------------
LEMMA InitIInv == Init => IInv
<1> SUFFICES ASSUME Init PROVE IInv
  OBVIOUS
<1> USE LifecycleAssumption DEF Init
<1>1. row \in Orders /\ method \in {"ONLINE", "COD"} /\ ~row.paid
  BY DEF Orders, Created, Statuses, PaymentPhase
<1>2. TypeOK
  <2>1. row \in Orders /\ seen \in SUBSET Statuses /\ cache \in Orders \cup {Missing}
    BY <1>1 DEF Orders
  <2>2. flows \in [FollowUps -> 0..Many]
    BY DEF Many
  <2> QED BY <1>1, <2>1, <2>2 DEF TypeOK, Steps
<1>3. Committed /\ InHand /\ PaymentIdOnlyForCod /\ EventsOfOutcome
  BY <1>1 DEF Committed, InHand, PaymentIdOnlyForCod, EventsOfOutcome
<1>4. LegalHistory /\ PaymentRespected
  BY <1>1 DEF LegalHistory, PaymentRespected, Created, PaymentPhase
<1> QED BY <1>2, <1>3, <1>4 DEF IInv

(* Types.  Only the copy saved over the row needs more than types.         *)
LEMMA TypeStep == TypeOK /\ InHand /\ [Next]_vars => TypeOK'
<1> SUFFICES ASSUME TypeOK, InHand, [Next]_vars PROVE TypeOK'
  OBVIOUS
<1> USE LifecycleAssumption DEF TypeOK
<1>1. CASE UNCHANGED vars
  BY <1>1 DEF vars
<1>2. ASSUME EmitEvent \/ \E result \in {"completed", "failed"} : PaymentSettles(result)
      PROVE  TypeOK'
  BY <1>2 DEF PaymentSettles, EmitEvent, world, worker
<1>3. CASE CacheExpires
  BY <1>3 DEF CacheExpires, worker
<1>4. ASSUME NEW w \in Workers, NEW o \in Operations, Begin(w, o)
      PROVE  TypeOK'
  BY <1>4 DEF Begin, world, Steps
<1>5. ASSUME NEW w \in Workers, Lookup(w)
      PROVE  TypeOK'
  <2>1. NextAfterFind(w) \in Steps /\ UNCHANGED <<given, world, outcome, job, draft, troubles>>
    BY <1>5 DEF Lookup, NextAfterFind, Steps
  <2>2. CASE Goto(w, "read")
    BY <2>1, <2>2 DEF Goto, world, Steps
  <2>3. CASE cache # Missing /\ Hold(w, cache, NextAfterFind(w))
    BY <2>1, <2>3 DEF Hold, world
  <2> QED
    BY <1>5, <2>2, <2>3 DEF Lookup
<1>6. ASSUME NEW w \in Workers, ReadRow(w) \/ Fill(w)
      PROVE  TypeOK'
  <2>1. CASE ReadRow(w)
    BY <2>1 DEF ReadRow, Hold, world, Steps
  <2>2. CASE Fill(w)
    BY <2>2 DEF Fill, Goto, NextAfterFind, world, Steps
  <2> QED
    BY <1>6, <2>1, <2>2
<1>7. ASSUME NEW w \in Workers, CollectCod(w) \/ AttachPayment(w)
      PROVE  TypeOK'
  <2>1. CASE CollectCod(w)
    BY <2>1 DEF CollectCod, Goto, world, Steps
  <2>2. CASE AttachPayment(w)
    BY <2>2 DEF AttachPayment, Goto, world, Steps, Orders
  <2> QED
    BY <1>7, <2>1, <2>2
<1>8. ASSUME NEW w \in Workers, Decline(w)
      PROVE  TypeOK'
  BY <1>8 DEF Decline, Return, Leave, world, Steps
<1> DEFINE targets == \A o : Target(o) \in Statuses
<1>9. targets
  BY DEF Target, Statuses, PaymentPhase
<1>10. ASSUME NEW w \in Workers, WriteStatus(w)
       PROVE  TypeOK'
  BY <1>9, <1>10 DEF WriteStatus, Updated, Hold, Steps, Orders
<1>11. ASSUME NEW w \in Workers, SaveCancelled(w)
       PROVE  TypeOK'
  BY <1>9, <1>11 DEF SaveCancelled, Hold, Steps, Orders, InHand
<1>12. ASSUME NEW w \in Workers, Evict(w)
       PROVE  TypeOK'
  BY <1>12 DEF Evict, Evicted, Goto, Steps
<1>13. ASSUME NEW w \in Workers, ReadEntry(w)
       PROVE  TypeOK'
  <2>1. cache # Missing => Patched(w) \in Orders
    BY <1>9 DEF Patched, Orders
  <2> QED BY <2>1, <1>13 DEF ReadEntry, Onward, Proceed, Return, Leave, Goto, world, Steps
<1>14. ASSUME NEW w \in Workers, WriteEntry(w)
       PROVE  TypeOK'
  BY <1>14 DEF WriteEntry, Onward, Proceed, Return, Leave, Goto, Steps
<1>15. ASSUME NEW w \in Workers, Schedule(w)
       PROVE  TypeOK'
  BY <1>15 DEF Schedule, Counted, FollowUp, FollowUps, Many, Return, Leave, Steps
<1>15a. ASSUME NEW w \in Workers
        PROVE  WithoutFollowUp(w) \subseteq FollowUps
  BY DEF WithoutFollowUp, FollowUp, FollowUps
<1>16. ASSUME NEW w \in Workers, Crash(w) \/ RepositoryFails(w) \/ ScheduleFails(w)
       PROVE  TypeOK'
  <2>1. CASE Crash(w)
    BY <1>15a, <2>1 DEF Crash, Fault, Leave, Steps
  <2>2. CASE RepositoryFails(w)
    <3>1. CASE Return(w)
      BY <1>15a, <2>2, <3>1 DEF RepositoryFails, Fault, Return, Leave, Steps
    <3>2. CASE Proceed(w, "decide")
      BY <1>15a, <2>2, <3>2 DEF RepositoryFails, Fault, Proceed, Goto, Steps
    <3>3. CASE /\ Hold(w, Missing, "schedule")
               /\ draft' = [draft EXCEPT ![w] = Missing]
               /\ UNCHANGED <<job, lost>>
      BY <2>2, <3>3 DEF RepositoryFails, Fault, Hold, Steps
    <3> QED BY <2>2, <3>1, <3>2, <3>3 DEF RepositoryFails
  <2>3. CASE ScheduleFails(w)
    BY <1>15a, <2>3 DEF ScheduleFails, Fault, Return, Leave, Steps
  <2> QED BY <1>16, <2>1, <2>2, <2>3
<1>17. ASSUME NEW w \in Workers, Request(w) \/ HandleEvent(w) \/ ListExpired(w)
       PROVE  \E o \in Operations : Begin(w, o)
  BY <1>17 DEF Request, HandleEvent, ListExpired, Operations, Handlers
<1> HIDE DEF TypeOK
<1>18. ASSUME NEW w \in Workers, WorkerStep(w)
       PROVE  TypeOK'
  BY <1>5, <1>6, <1>7, <1>8, <1>10, <1>11, <1>12, <1>13, <1>14, <1>15, <1>18 DEF
       WorkerStep
<1> QED
  BY <1>1, <1>2, <1>3, <1>4, <1>16, <1>17, <1>18 DEF Next

(* The copies and the history.  Only four actions add a status to anything:*)
(* the two writes add their target to the history first.                   *)
LEMMA CommittedStep ==
  TypeOK /\ Committed /\ InHand /\ [Next]_vars => Committed' /\ InHand'
<1> SUFFICES ASSUME TypeOK, Committed, InHand, [Next]_vars
             PROVE  Committed' /\ InHand'
  OBVIOUS
<1> DEFINE Typed == /\ op \in [Workers -> Operations \cup {"none"}]
                    /\ step \in [Workers -> Steps]
                    /\ copy \in [Workers -> Orders \cup {Missing}]
                    /\ draft \in [Workers -> Orders \cup {Missing}]
                    /\ row \in Orders
                    /\ cache \in Orders \cup {Missing}
                    /\ Missing \notin Orders
<1>0. Typed
  BY LifecycleAssumption DEF TypeOK
<1> USE <1>0 DEF Committed, InHand
<1>1. CASE UNCHANGED vars
  BY <1>1 DEF vars
<1>2. ASSUME EmitEvent \/ \E result \in {"completed", "failed"} : PaymentSettles(result)
      PROVE  Committed' /\ InHand'
  BY <1>2 DEF PaymentSettles, EmitEvent, world, worker
<1>3. CASE CacheExpires
  BY <1>3 DEF CacheExpires, worker
<1>4. ASSUME NEW w \in Workers, NEW o \in Operations, Begin(w, o)
      PROVE  Committed' /\ InHand'
  BY <1>4 DEF Begin, world
<1>5. ASSUME NEW w \in Workers, Lookup(w)
      PROVE  Committed' /\ InHand'
  BY <1>5 DEF Lookup, Hold, Goto, NextAfterFind, world
<1>6. ASSUME NEW w \in Workers, ReadRow(w)
      PROVE  Committed' /\ InHand'
  BY <1>6 DEF ReadRow, Hold, world
<1>7. ASSUME NEW w \in Workers, Fill(w)
      PROVE  Committed' /\ InHand'
  BY <1>7 DEF Fill, Goto, NextAfterFind
<1>8. ASSUME NEW w \in Workers, CollectCod(w) \/ AttachPayment(w)
      PROVE  Committed' /\ InHand'
  BY <1>8 DEF CollectCod, AttachPayment, Goto, world, Orders
<1>9. ASSUME NEW w \in Workers, Decline(w)
      PROVE  Committed' /\ InHand'
  BY <1>9 DEF Decline, Return, Leave, world
<1>10. ASSUME NEW w \in Workers, WriteStatus(w) \/ SaveCancelled(w)
       PROVE  Committed' /\ InHand'
  <2>1. row'.status = Target(op[w]) /\ seen' = seen \cup {Target(op[w])} /\ UNCHANGED op
    BY <1>10 DEF WriteStatus, SaveCancelled, Updated, Hold, Orders
  <2> QED BY <2>1, <1>10 DEF WriteStatus, SaveCancelled, Hold
<1>11. ASSUME NEW w \in Workers, Evict(w)
       PROVE  Committed' /\ InHand'
  BY <1>11 DEF Evict, Evicted, Goto
<1>12. ASSUME NEW w \in Workers, ReadEntry(w)
       PROVE  Committed' /\ InHand'
  <2>1. cache # Missing => Patched(w).status \in seen /\ Patched(w) # Missing
    BY <1>12 DEF Patched, ReadEntry, Orders, TypeOK
  <2> QED BY <2>1, <1>12 DEF ReadEntry, Onward, Proceed, Return, Leave, Goto, world
<1>13. ASSUME NEW w \in Workers, WriteEntry(w)
       PROVE  Committed' /\ InHand'
  BY <1>13 DEF WriteEntry, Onward, Proceed, Return, Leave, Goto
<1>14. ASSUME NEW w \in Workers, Schedule(w) \/ ScheduleFails(w) \/ Crash(w)
       PROVE  Committed' /\ InHand'
  BY <1>14 DEF Schedule, ScheduleFails, Crash, Fault, Return, Leave
<1>15. ASSUME NEW w \in Workers, RepositoryFails(w)
       PROVE  Committed' /\ InHand'
  BY <1>15 DEF RepositoryFails, AttachIgnored, UpdateIgnored, Proceed, Fault, Return,
       Leave, Goto,
              Hold
<1>16. ASSUME NEW w \in Workers, Request(w) \/ HandleEvent(w) \/ ListExpired(w)
       PROVE  \E o \in Operations : Begin(w, o)
  BY <1>16, LifecycleAssumption
     DEF Request, HandleEvent, ListExpired, Operations, Handlers
<1> HIDE DEF Committed, InHand
<1>17. ASSUME NEW w \in Workers, WorkerStep(w)
       PROVE  Committed' /\ InHand'
  BY <1>5, <1>6, <1>7, <1>8, <1>9, <1>10, <1>11, <1>12, <1>13, <1>14, <1>17 DEF WorkerStep
<1> QED BY <1>1, <1>2, <1>3, <1>4, <1>14, <1>15, <1>16, <1>17 DEF Next

(* An online order has no paymentId anywhere: only cash on delivery writes *)
(* one.  This is why ConfirmOrder never confirms an online order.          *)
LEMMA PaymentIdStep ==
  TypeOK /\ InHand /\ PaymentIdOnlyForCod /\ [Next]_vars => PaymentIdOnlyForCod'
<1> SUFFICES ASSUME TypeOK, InHand, PaymentIdOnlyForCod, [Next]_vars, method' = "ONLINE"
             PROVE  PaymentIdOnlyForCod'
  BY DEF PaymentIdOnlyForCod
<1> DEFINE Typed == /\ op \in [Workers -> Operations \cup {"none"}]
                    /\ step \in [Workers -> Steps]
                    /\ copy \in [Workers -> Orders \cup {Missing}]
                    /\ draft \in [Workers -> Orders \cup {Missing}]
                    /\ row \in Orders
                    /\ cache \in Orders \cup {Missing}
                    /\ Missing \notin Orders
<1>0. Typed
  BY LifecycleAssumption DEF TypeOK
<1> USE <1>0 DEF PaymentIdOnlyForCod
<1>1. CASE UNCHANGED vars
  BY <1>1 DEF vars
<1>2. ASSUME EmitEvent \/ \E result \in {"completed", "failed"} : PaymentSettles(result)
      PROVE  PaymentIdOnlyForCod'
  BY <1>2 DEF PaymentSettles, EmitEvent, world, worker
<1>3. CASE CacheExpires
  BY <1>3 DEF CacheExpires, worker
<1>4. ASSUME NEW w \in Workers, NEW o \in Operations, Begin(w, o)
      PROVE  PaymentIdOnlyForCod'
  BY <1>4 DEF Begin, world
<1>5. ASSUME NEW w \in Workers, Lookup(w) \/ ReadRow(w)
      PROVE  PaymentIdOnlyForCod'
  BY <1>5 DEF Lookup, ReadRow, Hold, Goto, NextAfterFind, world
<1>6. ASSUME NEW w \in Workers, Fill(w)
      PROVE  PaymentIdOnlyForCod'
  BY <1>6 DEF Fill, Goto, NextAfterFind, InHand
<1>7. ASSUME NEW w \in Workers, CollectCod(w) \/ AttachPayment(w)
      PROVE  FALSE
  BY <1>7 DEF CollectCod, AttachPayment
<1>8. ASSUME NEW w \in Workers, Decline(w)
      PROVE  PaymentIdOnlyForCod'
  BY <1>8 DEF Decline, Return, Leave, world
<1>9. ASSUME NEW w \in Workers, WriteStatus(w)
      PROVE  PaymentIdOnlyForCod'
  BY <1>9 DEF WriteStatus, Updated, Hold, Orders
<1>10. ASSUME NEW w \in Workers, SaveCancelled(w)
       PROVE  PaymentIdOnlyForCod'
  <2>1. row'.paid = copy[w].paid /\ copy[w] # Missing
    BY <1>10 DEF SaveCancelled, InHand, Orders
  <2> QED BY <2>1, <1>10 DEF SaveCancelled, Hold
<1>11. ASSUME NEW w \in Workers, Evict(w)
       PROVE  PaymentIdOnlyForCod'
  BY <1>11 DEF Evict, Evicted, Goto
<1>12. ASSUME NEW w \in Workers, ReadEntry(w)
       PROVE  PaymentIdOnlyForCod'
  <2>1. step[w] = "refresh"
    BY <1>12 DEF ReadEntry
  <2>2. cache # Missing => ~Patched(w).paid
    BY <1>12, <2>1 DEF Patched, ReadEntry, Orders
  <2> QED BY <2>1, <2>2, <1>12 DEF ReadEntry, Onward, Proceed, Return, Leave, Goto, world
<1>13. ASSUME NEW w \in Workers, WriteEntry(w)
       PROVE  PaymentIdOnlyForCod'
  BY <1>13 DEF WriteEntry, Onward, Proceed, Return, Leave, Goto, InHand
<1>14. ASSUME NEW w \in Workers, Schedule(w) \/ ScheduleFails(w) \/ Crash(w)
       PROVE  PaymentIdOnlyForCod'
  BY <1>14 DEF Schedule, ScheduleFails, Crash, Fault, Return, Leave
<1>15. ASSUME NEW w \in Workers, RepositoryFails(w)
       PROVE  PaymentIdOnlyForCod'
  BY <1>15 DEF RepositoryFails, AttachIgnored, UpdateIgnored, Proceed, Fault, Return,
       Leave, Goto,
              Hold
<1>16. ASSUME NEW w \in Workers, Request(w) \/ HandleEvent(w) \/ ListExpired(w)
       PROVE  \E o \in Operations : Begin(w, o)
  BY <1>16, LifecycleAssumption
     DEF Request, HandleEvent, ListExpired, Operations, Handlers
<1> HIDE DEF PaymentIdOnlyForCod
<1>17. ASSUME NEW w \in Workers, WorkerStep(w)
       PROVE  PaymentIdOnlyForCod'
  BY <1>5, <1>6, <1>7, <1>8, <1>9, <1>10, <1>11, <1>12, <1>13, <1>14, <1>17 DEF WorkerStep
<1> QED BY <1>1, <1>2, <1>3, <1>4, <1>14, <1>15, <1>16, <1>17 DEF Next

(* A handler runs only for the outcome it is named after.                  *)
LEMMA EventsStep == TypeOK /\ EventsOfOutcome /\ [Next]_vars => EventsOfOutcome'
<1> SUFFICES ASSUME TypeOK, EventsOfOutcome, [Next]_vars
             PROVE  EventsOfOutcome'
  OBVIOUS
<1>0. /\ op \in [Workers -> Operations \cup {"none"}]
      /\ step \in [Workers -> Steps]
      /\ method \in {"ONLINE", "COD"}
  BY DEF TypeOK
<1> USE <1>0 DEF EventsOfOutcome
<1>1. CASE UNCHANGED vars
  BY <1>1 DEF vars
<1>2. ASSUME EmitEvent \/ \E result \in {"completed", "failed"} : PaymentSettles(result)
      PROVE  EventsOfOutcome'
  BY <1>2 DEF PaymentSettles, EmitEvent, world, worker
<1>3. CASE CacheExpires
  BY <1>3 DEF CacheExpires, worker
<1>4. ASSUME NEW w \in Workers, Request(w) \/ ListExpired(w)
      PROVE  EventsOfOutcome'
  BY <1>4, LifecycleAssumption DEF Request, ListExpired, Begin, Requests
<1>5. ASSUME NEW w \in Workers, HandleEvent(w)
      PROVE  EventsOfOutcome'
  BY <1>5 DEF HandleEvent, Begin
<1>6. ASSUME NEW w \in Workers, Lookup(w) \/ ReadRow(w) \/ Fill(w)
      PROVE  EventsOfOutcome'
  BY <1>6 DEF Lookup, ReadRow, Fill, Hold, Goto, NextAfterFind
<1>7. ASSUME NEW w \in Workers, CollectCod(w) \/ AttachPayment(w)
      PROVE  EventsOfOutcome'
  BY <1>7 DEF CollectCod, AttachPayment, Goto
<1>8. ASSUME NEW w \in Workers, Decline(w) \/ Schedule(w) \/ ScheduleFails(w) \/ Crash(w)
      PROVE  EventsOfOutcome'
  BY <1>8 DEF Decline, Schedule, ScheduleFails, Crash, Fault, Return, Leave
<1>9. ASSUME NEW w \in Workers, WriteStatus(w) \/ SaveCancelled(w) \/ Evict(w)
      PROVE  EventsOfOutcome'
  BY <1>9 DEF WriteStatus, SaveCancelled, Evict, Hold, Goto
<1>10. ASSUME NEW w \in Workers, ReadEntry(w) \/ WriteEntry(w)
       PROVE  EventsOfOutcome'
  BY <1>10 DEF ReadEntry, WriteEntry, Onward, Proceed, Return, Leave, Goto
<1>11. ASSUME NEW w \in Workers, RepositoryFails(w)
       PROVE  EventsOfOutcome'
  BY <1>11 DEF RepositoryFails, Proceed, Fault, Return, Leave, Goto, Hold
<1> HIDE DEF EventsOfOutcome
<1>12. ASSUME NEW w \in Workers, WorkerStep(w)
       PROVE  EventsOfOutcome'
  BY <1>6, <1>7, <1>8, <1>9, <1>10, <1>12 DEF WorkerStep
<1> QED BY <1>1, <1>2, <1>3, <1>4, <1>5, <1>8, <1>11, <1>12 DEF Next

(* The history grows only by a write, and only by that write's target.     *)
Grows(w) == /\ WriteStatus(w) \/ SaveCancelled(w)
            /\ op[w] \in Operations
            /\ copy[w].status \in seen
            /\ Target(op[w]) \in Transitions[copy[w].status]
            /\ seen' = seen \cup {Target(op[w])}

LEMMA HistoryGrows ==
  TypeOK /\ Committed /\ InHand /\ [Next]_vars
    => /\ method' = method
       /\ seen' = seen \/ \E w \in Workers : Grows(w)
<1> SUFFICES ASSUME TypeOK, Committed, InHand, [Next]_vars
             PROVE  /\ method' = method
                    /\ seen' = seen \/ \E w \in Workers : Grows(w)
  OBVIOUS
<1>1. CASE UNCHANGED vars
  BY <1>1 DEF vars
<1>2. CASE CacheExpires \/ EmitEvent
              \/ \E result \in {"completed", "failed"} : PaymentSettles(result)
  BY <1>2 DEF CacheExpires, PaymentSettles, EmitEvent, world
<1>3. ASSUME NEW w \in Workers, Request(w) \/ HandleEvent(w) \/ ListExpired(w)
      PROVE  method' = method /\ seen' = seen
  BY <1>3 DEF Request, HandleEvent, ListExpired, Begin, world
<1>4. ASSUME NEW w \in Workers, WriteStatus(w) \/ SaveCancelled(w)
      PROVE  method' = method /\ Grows(w)
  <2>1. /\ row'.status = Target(op[w]) /\ seen' = seen \cup {Target(op[w])}
        /\ step[w] = "decide" /\ Accepts(w) /\ method' = method
    BY <1>4 DEF WriteStatus, SaveCancelled, Updated, Orders, TypeOK, InHand
  <2>2. copy[w].status \in seen
    BY <2>1 DEF Committed, InHand
  <2>3. op[w] \in Operations
    BY <2>1 DEF InHand
  <2> QED BY <1>4, <2>1, <2>2, <2>3 DEF Grows, Accepts
<1>5. ASSUME NEW w \in Workers,
             Lookup(w) \/ ReadRow(w) \/ Fill(w) \/ CollectCod(w) \/ AttachPayment(w)
      PROVE  method' = method /\ seen' = seen
  BY <1>5 DEF Lookup, ReadRow, Fill, CollectCod, AttachPayment, world
<1>6. ASSUME NEW w \in Workers,
             Decline(w) \/ Evict(w) \/ ReadEntry(w) \/ WriteEntry(w) \/ Schedule(w)
      PROVE  method' = method /\ seen' = seen
  BY <1>6 DEF Decline, Evict, ReadEntry, WriteEntry, Schedule, world
<1>7. ASSUME NEW w \in Workers, Crash(w) \/ RepositoryFails(w) \/ ScheduleFails(w)
      PROVE  method' = method /\ seen' = seen
  BY <1>7 DEF Crash, RepositoryFails, ScheduleFails, Fault
<1> QED BY <1>1, <1>2, <1>3, <1>4, <1>5, <1>6, <1>7 DEF Next, WorkerStep

LEMMA HistoryStep ==
  TypeOK /\ Committed /\ InHand /\ LegalHistory /\ [Next]_vars => LegalHistory'
<1> SUFFICES ASSUME TypeOK, Committed, InHand, LegalHistory, [Next]_vars
             PROVE  LegalHistory'
  OBVIOUS
<1>1. /\ Created(method)' = Created(method)
      /\ seen' = seen \/ \E w \in Workers : Grows(w)
  BY HistoryGrows DEF Created
<1>2. CASE seen' = seen
  BY <1>1, <1>2 DEF LegalHistory
<1>3. ASSUME NEW w \in Workers, Grows(w)
      PROVE  LegalHistory'
  BY <1>1, <1>3 DEF LegalHistory, Grows
<1> QED BY <1>1, <1>2, <1>3

(* Outcomes are settled once, and only for online orders.                  *)
LEMMA OutcomeSettled ==
  TypeOK /\ PaymentIdOnlyForCod /\ EventsOfOutcome /\ [Next]_vars
    => \/ outcome' = outcome
       \/ method = "ONLINE" /\ outcome = "none"
       \/ method = "COD"
<1> SUFFICES ASSUME TypeOK, PaymentIdOnlyForCod, EventsOfOutcome, [Next]_vars,
                    method = "ONLINE", outcome # "none"
             PROVE  outcome' = outcome
  BY DEF TypeOK
<1>1. CASE UNCHANGED vars
  BY <1>1 DEF vars
<1>2. CASE CacheExpires \/ EmitEvent
              \/ \E result \in {"completed", "failed"} : PaymentSettles(result)
  BY <1>2 DEF CacheExpires, PaymentSettles, EmitEvent
<1>3. ASSUME NEW w \in Workers, Request(w) \/ HandleEvent(w) \/ ListExpired(w)
      PROVE  outcome' = outcome
  BY <1>3 DEF Request, HandleEvent, ListExpired, Begin
<1>4. ASSUME NEW w \in Workers, WorkerStep(w)
      PROVE  outcome' = outcome
  <2>1. ~CollectCod(w)
    BY DEF CollectCod, PaymentIdOnlyForCod
  <2> QED BY <2>1, <1>4
          DEF WorkerStep, Lookup, ReadRow, Fill, AttachPayment, Decline, WriteStatus,
              SaveCancelled, Evict, ReadEntry, WriteEntry, Schedule
<1>5. ASSUME NEW w \in Workers, Crash(w) \/ RepositoryFails(w) \/ ScheduleFails(w)
      PROVE  outcome' = outcome
  BY <1>5 DEF Crash, RepositoryFails, ScheduleFails, Fault
<1> QED BY <1>1, <1>2, <1>3, <1>4, <1>5 DEF Next

LEMMA RespectedStep == IInv /\ [Next]_vars => PaymentRespected'
<1> SUFFICES ASSUME IInv, [Next]_vars
             PROVE  PaymentRespected'
  OBVIOUS
<1> USE DEF IInv
<1>1. method' = method /\ (seen' = seen \/ \E w \in Workers : Grows(w))
  BY HistoryGrows
<1>2. \/ outcome' = outcome
      \/ method = "ONLINE" /\ outcome = "none"
      \/ method = "COD"
  BY OutcomeSettled
<1>3. method = "COD" => "PAYMENT_FAILED" \notin seen
  BY DEF PaymentRespected, PaymentPhase
<1>4. CASE seen' = seen
  BY <1>1, <1>2, <1>3, <1>4 DEF PaymentRespected
<1>5. ASSUME NEW w \in Workers, Grows(w)
      PROVE  PaymentRespected'
  <2>1. outcome' = outcome /\ step[w] = "decide" /\ Accepts(w)
    BY <1>5 DEF Grows, WriteStatus, SaveCancelled
  <2>2. seen' = seen \cup {Target(op[w])} /\ copy[w] # Missing /\ op[w] \in Operations
    BY <1>5, <2>1 DEF Grows, InHand
  <2>3. Target(op[w]) = "PAYMENT_FAILED" => op[w] = "PaymentFailed"
    BY <2>2 DEF Target
  <2>4. Target(op[w]) # "PENDING_PAYMENT"
    BY <2>2 DEF Target
  <2>5. op[w] = "PaymentFailed" => outcome = "failed" /\ method # "COD"
    BY DEF EventsOfOutcome
  <2>6. Target(op[w]) = "CONFIRMED" => op[w] \in {"PaymentCompleted", "Confirm"}
    BY <2>2 DEF Target
  <2>7. method = "ONLINE" => op[w] # "Confirm"
    BY <2>1, <2>2 DEF Accepts, PaymentPresent, PaymentIdOnlyForCod
  <2>8. op[w] = "PaymentCompleted" => outcome = "completed"
    BY DEF EventsOfOutcome
  <2> QED
    BY <1>1, <2>1, <2>2, <2>3, <2>4, <2>5, <2>6, <2>7, <2>8
       DEF PaymentRespected, PaymentPhase
<1> QED BY <1>1, <1>4, <1>5

LEMMA InductiveStep == IInv /\ [Next]_vars => IInv'
BY TypeStep, CommittedStep, PaymentIdStep, EventsStep, HistoryStep, RespectedStep DEF IInv

THEOREM IInvAlways == Spec => []IInv
<1>1. Init => IInv
  BY InitIInv
<1>2. IInv /\ [Next]_vars => IInv'
  BY InductiveStep
<1> QED BY <1>1, <1>2, PTL DEF Spec

(* Every variable keeps its type, whatever overlaps or fails.              *)
THEOREM TypeCorrect == Spec => []TypeOK
BY IInvAlways, PTL DEF IInv

(* Any number of requests, jobs, stale copies and faults: the statuses an  *)
(* order has had are connected by edges of the transition table.           *)
THEOREM HistoryIsLegal == Spec => []LegalHistory
BY IInvAlways, PTL DEF IInv

(* No online order is confirmed without its payment, by anybody, ever, and *)
(* none is marked failed unless it failed.                                 *)
THEOREM PaymentIsRespected == Spec => []PaymentRespected
BY IInvAlways, PTL DEF IInv

-----------------------------------------------------------------------------
(* Follow-up flows.  Where the repositories do not fail, a worker that is  *)
(* about to schedule one has its own write behind it.                      *)
ScheduledAfterWrite ==
  \A w \in Workers :
    /\ step[w] = "evict" => op[w] \in {"Cancel", "Expire"} /\ "CANCELLED" \in seen
    /\ step[w] = "schedule" =>
         /\ op[w] \in Handlers \cup {"Confirm", "Cancel", "Expire"}
         /\ Target(op[w]) \in seen

FInv == ScheduledAfterWrite /\ FlowsJustified

LEMMA FlowsStep ==
  ASSUME "repository" \notin FaultKinds, TypeOK, Committed, InHand, FInv, [Next]_vars
  PROVE  FInv'
<1> USE DEF FInv
<1>0. /\ op \in [Workers -> Operations \cup {"none"}]
      /\ step \in [Workers -> Steps]
      /\ flows \in [FollowUps -> 0..Many]
      /\ seen \subseteq seen'
  BY HistoryGrows DEF TypeOK, Grows
<1> USE <1>0 DEF ScheduledAfterWrite
<1>1. CASE UNCHANGED vars
  BY <1>1 DEF vars, FlowsJustified
<1>2. CASE CacheExpires \/ EmitEvent
              \/ \E result \in {"completed", "failed"} : PaymentSettles(result)
  BY <1>2 DEF CacheExpires, PaymentSettles, EmitEvent, world, worker, FlowsJustified
<1>3. ASSUME NEW w \in Workers, NEW o \in Operations, Begin(w, o)
      PROVE  FInv'
  BY <1>3 DEF Begin, world, FlowsJustified
<1>4. ASSUME NEW w \in Workers,
             Lookup(w) \/ ReadRow(w) \/ Fill(w) \/ CollectCod(w) \/ AttachPayment(w)
      PROVE  FInv'
  BY <1>4 DEF Lookup, ReadRow, Fill, CollectCod, AttachPayment, Hold, Goto, NextAfterFind,
              world, FlowsJustified
<1>5. ASSUME NEW w \in Workers, Decline(w) \/ Crash(w) \/ ScheduleFails(w)
      PROVE  FInv'
  BY <1>5 DEF Decline, Crash, ScheduleFails, Fault, Return, Leave, world, FlowsJustified
<1>6. ASSUME NEW w \in Workers, WriteStatus(w) \/ SaveCancelled(w)
      PROVE  FInv'
  <2>1. row'.status = Target(op[w]) /\ seen' = seen \cup {Target(op[w])}
    BY <1>6 DEF WriteStatus, SaveCancelled, Updated, Orders, TypeOK, InHand
  <2>2. op[w] \in {"Cancel", "Expire"} => Target(op[w]) = "CANCELLED"
    BY DEF Target
  <2> QED BY <1>6, <2>1, <2>2 DEF WriteStatus, SaveCancelled, Hold, FlowsJustified
<1>7. ASSUME NEW w \in Workers, Evict(w)
      PROVE  FInv'
  BY <1>7 DEF Evict, Goto, Target, FlowsJustified
<1>8. ASSUME NEW w \in Workers, ReadEntry(w) \/ WriteEntry(w)
      PROVE  FInv'
  BY <1>8 DEF ReadEntry, WriteEntry, Onward, Proceed, Return, Leave, Goto, world, InHand,
              FlowsJustified
<1>9. ASSUME NEW w \in Workers, Schedule(w)
      PROVE  FInv'
  <2>1. /\ Target(op[w]) \in seen
        /\ Target(op[w]) = IF op[w] \in {"PaymentCompleted", "Confirm"} THEN "CONFIRMED"
                           ELSE IF op[w] = "PaymentFailed" THEN "PAYMENT_FAILED"
                           ELSE "CANCELLED"
    BY <1>9 DEF Schedule, Target, Handlers
  <2>2. FlowsJustified'
    <3>1. CASE UNCHANGED flows
      BY <1>9, <3>1 DEF Schedule, FlowsJustified
    <3>2. CASE flows' = Counted(FollowUp(w))
      <4>1. CASE op[w] \in {"PaymentCompleted", "Confirm"}
        <5>1. flows'["release"] = flows["release"] /\ "CONFIRMED" \in seen
          BY <2>1, <3>2, <4>1 DEF Counted, FollowUp, FollowUps
        <5> QED BY <5>1, <1>9 DEF Schedule, FlowsJustified
      <4>2. CASE op[w] \notin {"PaymentCompleted", "Confirm"}
        <5>1. /\ flows'["postPayment"] = flows["postPayment"]
              /\ seen \cap {"CANCELLED", "PAYMENT_FAILED"} # {}
          BY <2>1, <3>2, <4>2 DEF Counted, FollowUp, FollowUps
        <5> QED BY <5>1, <1>9 DEF Schedule, FlowsJustified
      <4> QED BY <4>1, <4>2
    <3> QED BY <1>9, <3>1, <3>2 DEF Schedule
  <2>3. ScheduledAfterWrite'
    BY <1>9 DEF Schedule, Return, Leave
  <2> QED BY <2>2, <2>3
<1>10. ASSUME NEW w \in Workers
       PROVE  ~RepositoryFails(w)
  BY DEF RepositoryFails, Fault
<1>11. ASSUME NEW w \in Workers, Request(w) \/ HandleEvent(w) \/ ListExpired(w)
       PROVE  \E o \in Operations : Begin(w, o)
  BY <1>11, LifecycleAssumption
     DEF Request, HandleEvent, ListExpired, Operations, Handlers
<1> HIDE DEF FInv
<1> QED
  BY <1>1, <1>2, <1>3, <1>4, <1>5, <1>6, <1>7, <1>8, <1>9, <1>10, <1>11 DEF Next,
       WorkerStep

(* Where the database and Redis answer, stock is released only for orders  *)
(* that were cancelled or whose payment failed, and the post-payment flow  *)
(* runs only for orders that were confirmed -- whatever crashes.           *)
THEOREM FlowsAreJustified ==
  ASSUME "repository" \notin FaultKinds
  PROVE  Spec => []FlowsJustified
<1>1. Init => FInv
  BY DEF Init, FInv, ScheduledAfterWrite, FlowsJustified, FollowUps
<1>2. IInv /\ FInv /\ [Next]_vars => FInv'
  BY FlowsStep DEF IInv
<1>3. FInv => FlowsJustified
  BY DEF FInv
<1> QED BY <1>1, <1>2, <1>3, IInvAlways, PTL DEF Spec

-----------------------------------------------------------------------------
(* One use case at a time, and nothing fails: what order_sequential checks.*)
Sequential == /\ \A v, w \in Workers : v = w
              /\ MaxFaults = 0

(* The copy in the worker's hands has the status of the row, and where the *)
(* entry lags behind the row, the worker is on its way to set that right.  *)
Writing == {"refreshPaid", "storePaid", "refresh", "store", "evict"}

Fresh ==
  /\ \A w \in Workers :
       /\ step[w] = "fill" => copy[w] = row
       /\ step[w] \in {"collect", "attach", "refreshPaid", "storePaid", "decide"}
            => copy[w].status = row.status
       /\ step[w] = "decide" /\ op[w] # "DeliverCod" => copy[w] = row
       /\ step[w] \in {"collect", "attach", "refreshPaid", "storePaid"} => op[w] = "DeliverCod"
       /\ step[w] \in {"store", "storePaid"} => draft[w] = row
       /\ step[w] = "refreshPaid" /\ cache # Missing => [cache EXCEPT !.paid = TRUE] = row
       /\ step[w] = "refresh" /\ cache # Missing =>
            [cache EXCEPT !.status = Target(op[w])] = row
  /\ (\A w \in Workers : step[w] \notin Writing) => cache \in {Missing, row}

(* A confirmed order is not pending again; only the worker that confirmed  *)
(* it has a post-payment flow to schedule, and does so once.               *)
Confirming == {"PaymentCompleted", "Confirm"}

OneFlow ==
  /\ "CONFIRMED" \in seen => row.status \notin {"PENDING_PAYMENT", "PENDING_CONFIRMATION"}
  /\ flows["postPayment"] <= 1
  /\ flows["postPayment"] > 0 => "CONFIRMED" \in seen
  /\ \A w \in Workers :
       /\ step[w] = "evict" => op[w] \notin Confirming
       /\ op[w] \in Confirming /\ step[w] \in {"refresh", "store", "schedule"} =>
            flows["postPayment"] = 0 /\ "CONFIRMED" \in seen

LEMMA FreshStep ==
  ASSUME Sequential, TypeOK, InHand, Fresh, [Next]_vars
  PROVE  Fresh'
<1> DEFINE Typed == /\ op \in [Workers -> Operations \cup {"none"}]
                    /\ step \in [Workers -> Steps]
                    /\ copy \in [Workers -> Orders \cup {Missing}]
                    /\ draft \in [Workers -> Orders \cup {Missing}]
                    /\ row \in Orders
                    /\ cache \in Orders \cup {Missing}
                    /\ Missing \notin Orders
<1>0. Typed
  BY LifecycleAssumption DEF TypeOK
<1>a. \A v, w \in Workers : v = w
  BY DEF Sequential
<1> USE <1>0, <1>a
<1>1. CASE UNCHANGED vars
  BY <1>1 DEF vars, Fresh
<1>2. ASSUME EmitEvent \/ \E result \in {"completed", "failed"} : PaymentSettles(result)
      PROVE  Fresh'
  BY <1>2 DEF PaymentSettles, EmitEvent, world, worker, Fresh
<1>3. CASE CacheExpires
  BY <1>3 DEF CacheExpires, worker, Fresh
<1>4. ASSUME NEW w \in Workers, NEW o \in Operations, Begin(w, o)
      PROVE  Fresh'
  <2>1. step[w] = "idle"
    BY <1>4 DEF Begin, InHand, Operations, Requests, Handlers
  <2> QED BY <2>1, <1>4 DEF Begin, world, Fresh, Writing
<1>5. ASSUME NEW w \in Workers, Lookup(w)
      PROVE  Fresh'
  <2>1. cache \in {Missing, row}
    BY <1>5 DEF Lookup, Fresh, Writing
  <2> QED BY <2>1, <1>5 DEF Lookup, Hold, Goto, NextAfterFind, world, Fresh, Writing
<1>6. ASSUME NEW w \in Workers, ReadRow(w)
      PROVE  Fresh'
  BY <1>6 DEF ReadRow, Hold, world, Fresh, Writing
<1>7. ASSUME NEW w \in Workers, Fill(w)
      PROVE  Fresh'
  BY <1>7 DEF Fill, Goto, NextAfterFind, Fresh, Writing
<1>8. ASSUME NEW w \in Workers, CollectCod(w)
      PROVE  Fresh'
  BY <1>8 DEF CollectCod, Goto, world, Fresh, Writing
<1>9. ASSUME NEW w \in Workers, AttachPayment(w)
      PROVE  Fresh'
  <2>1. cache \in {Missing, row}
    BY <1>9 DEF AttachPayment, Fresh, Writing
  <2> QED BY <2>1, <1>9 DEF AttachPayment, Goto, Fresh, Writing, Orders
<1>10. ASSUME NEW w \in Workers, Decline(w) \/ Schedule(w)
       PROVE  Fresh'
  BY <1>10 DEF Decline, Schedule, Return, Leave, world, Fresh, Writing
<1>11. ASSUME NEW w \in Workers, WriteStatus(w)
       PROVE  Fresh'
  <2>1. cache \in {Missing, row}
    BY <1>11 DEF WriteStatus, Fresh, Writing
  <2> QED BY <2>1, <1>11 DEF WriteStatus, Updated, Hold, Fresh, Writing, Orders
<1>12. ASSUME NEW w \in Workers, SaveCancelled(w)
       PROVE  Fresh'
  BY <1>12 DEF SaveCancelled, Hold, Fresh, Writing
<1>13. ASSUME NEW w \in Workers, Evict(w)
       PROVE  Fresh'
  BY <1>13 DEF Evict, Evicted, Goto, Fresh, Writing
<1>14. ASSUME NEW w \in Workers, ReadEntry(w)
       PROVE  Fresh'
  <2>1. CASE cache = Missing
    BY <2>1, <1>14 DEF ReadEntry, Onward, Proceed, Return, Leave, Goto, world, Fresh,
         Writing
  <2>2. CASE cache # Missing
    <3>1. Patched(w) = row
      BY <2>2, <1>14 DEF ReadEntry, Patched, Fresh
    <3> QED BY <3>1, <2>2, <1>14 DEF ReadEntry, Goto, world, Fresh, Writing
  <2> QED BY <2>1, <2>2
<1>15. ASSUME NEW w \in Workers, WriteEntry(w)
       PROVE  Fresh'
  <2>1. cache' = row /\ row' = row
    BY <1>15 DEF WriteEntry, Fresh
  <2> QED BY <2>1, <1>15 DEF WriteEntry, Onward, Proceed, Return, Leave, Goto, Fresh,
       Writing
<1>16. ASSUME NEW w \in Workers, Crash(w) \/ RepositoryFails(w) \/ ScheduleFails(w)
       PROVE  FALSE
  BY <1>16, LifecycleAssumption DEF Crash, RepositoryFails, ScheduleFails, Fault,
       Sequential, TypeOK
<1>17. ASSUME NEW w \in Workers, Request(w) \/ HandleEvent(w) \/ ListExpired(w)
       PROVE  \E o \in Operations : Begin(w, o)
  BY <1>17, LifecycleAssumption
     DEF Request, HandleEvent, ListExpired, Operations, Handlers
<1> QED
  BY <1>1, <1>2, <1>3, <1>4, <1>5, <1>6, <1>7, <1>8, <1>9, <1>10, <1>11, <1>12, <1>13,
     <1>14, <1>15, <1>16, <1>17 DEF Next, WorkerStep

(* The row moves along the table: what the worker decides on is the row.   *)
LEMMA RowMoves ==
  ASSUME Sequential, TypeOK, InHand, Fresh, [Next]_vars
  PROVE  row'.status # row.status => row'.status \in Transitions[row.status]
<1>1. ASSUME NEW w \in Workers, WriteStatus(w) \/ SaveCancelled(w)
      PROVE  /\ row'.status = Target(op[w])
             /\ Target(op[w]) \in Transitions[row.status]
  <2>1. copy[w].status = row.status /\ Accepts(w) /\ copy[w] \in Orders /\ row \in Orders
    BY <1>1 DEF WriteStatus, SaveCancelled, Fresh, InHand, TypeOK
  <2>2. row'.status = Target(op[w])
    BY <1>1, <2>1 DEF WriteStatus, SaveCancelled, Updated, Orders
  <2> QED BY <2>1, <2>2 DEF Accepts
<1>2. ASSUME \A w \in Workers : ~WriteStatus(w) /\ ~SaveCancelled(w)
      PROVE  row'.status = row.status
  <2>1. ASSUME NEW w \in Workers, AttachPayment(w)
        PROVE  row'.status = row.status
    BY <2>1 DEF AttachPayment, TypeOK, Orders
  <2>2. CASE \A w \in Workers : ~AttachPayment(w)
    <3>1. UNCHANGED row
      BY <1>2, <2>2
         DEF Next, WorkerStep, vars, world, PaymentSettles, EmitEvent, CacheExpires, Request, HandleEvent,
             ListExpired, Begin, Lookup, ReadRow, Fill, CollectCod, Decline, Evict, ReadEntry,
             WriteEntry, Schedule, Crash, RepositoryFails, ScheduleFails, Fault
    <3> QED BY <3>1
  <2> QED BY <2>1, <2>2
<1> QED BY <1>1, <1>2

LEMMA OneFlowStep ==
  ASSUME Sequential, TypeOK, InHand, Fresh, OneFlow, [Next]_vars
  PROVE  OneFlow'
<1>0. /\ op \in [Workers -> Operations \cup {"none"}]
      /\ step \in [Workers -> Steps]
      /\ flows \in [FollowUps -> 0..Many]
      /\ row \in Orders
  BY DEF TypeOK
<1>a. \A v, w \in Workers : v = w
  BY DEF Sequential
<1> USE <1>0, <1>a DEF Confirming
<1>1. CASE UNCHANGED vars
  BY <1>1 DEF vars, OneFlow
<1>2. CASE CacheExpires \/ EmitEvent
              \/ \E result \in {"completed", "failed"} : PaymentSettles(result)
  BY <1>2 DEF CacheExpires, PaymentSettles, EmitEvent, world, worker, OneFlow
<1>3. ASSUME NEW w \in Workers, NEW o \in Operations, Begin(w, o)
      PROVE  OneFlow'
  BY <1>3 DEF Begin, world, OneFlow
<1>4. ASSUME NEW w \in Workers,
             Lookup(w) \/ ReadRow(w) \/ Fill(w) \/ CollectCod(w)
      PROVE  OneFlow'
  BY <1>4 DEF Lookup, ReadRow, Fill, CollectCod, Hold, Goto, NextAfterFind, world, OneFlow
<1>5. ASSUME NEW w \in Workers, AttachPayment(w)
      PROVE  OneFlow'
  BY <1>5 DEF AttachPayment, Goto, Orders, OneFlow
<1>6. ASSUME NEW w \in Workers, Decline(w)
      PROVE  OneFlow'
  BY <1>6 DEF Decline, Return, Leave, world, OneFlow
<1>7. ASSUME NEW w \in Workers, WriteStatus(w)
      PROVE  OneFlow'
  <2>1. copy[w].status = row.status /\ Accepts(w)
    BY <1>7 DEF WriteStatus, Fresh
  <2>2. /\ row'.status = Target(op[w]) /\ seen' = seen \cup {Target(op[w])}
        /\ UNCHANGED <<op, flows>>
        /\ step' = [step EXCEPT ![w] = "refresh"]
    BY <1>7 DEF WriteStatus, Updated, Hold, Orders
  <2>3. Target(op[w]) \notin {"PENDING_PAYMENT", "PENDING_CONFIRMATION"}
    BY DEF Target
  <2>4. CASE op[w] \in Confirming
    <3>1. row.status \in {"PENDING_PAYMENT", "PENDING_CONFIRMATION"} /\ Target(op[w]) = "CONFIRMED"
      BY <2>1, <2>4 DEF Accepts, Required, Handlers, Target
    <3>2. flows["postPayment"] = 0
      BY <3>1 DEF OneFlow, FollowUps
    <3> QED BY <2>2, <2>3, <3>1, <3>2 DEF OneFlow
  <2>5. CASE op[w] \notin Confirming
    <3>1. Target(op[w]) # "CONFIRMED" \/ op[w] \in Confirming
      BY DEF Target
    <3> QED BY <2>2, <2>3, <2>5, <3>1 DEF OneFlow
  <2> QED BY <2>4, <2>5
<1>8. ASSUME NEW w \in Workers, SaveCancelled(w)
      PROVE  OneFlow'
  <2>1. Target(op[w]) = "CANCELLED" /\ op[w] \notin Confirming
    BY <1>8 DEF SaveCancelled, Target
  <2>2. /\ row'.status = "CANCELLED" /\ seen' = seen \cup {"CANCELLED"}
        /\ UNCHANGED <<op, flows>>
    BY <1>8, <2>1 DEF SaveCancelled, Hold, Orders, InHand, TypeOK
  <2> QED BY <2>1, <2>2 DEF OneFlow
<1>9. ASSUME NEW w \in Workers, Evict(w)
      PROVE  OneFlow'
  <2>1. op[w] \notin Confirming
    BY <1>9 DEF Evict, OneFlow
  <2> QED BY <2>1, <1>9 DEF Evict, Goto, OneFlow
<1>10. ASSUME NEW w \in Workers, ReadEntry(w) \/ WriteEntry(w)
       PROVE  OneFlow'
  <2>1. step[w] \in {"refreshPaid", "storePaid"} => op[w] = "DeliverCod"
    BY DEF Fresh
  <2> QED BY <2>1, <1>10
          DEF ReadEntry, WriteEntry, Onward, Proceed, Return, Leave, Goto, world, OneFlow
<1>11. ASSUME NEW w \in Workers, Schedule(w)
       PROVE  OneFlow'
  <2>1. CASE op[w] \in Confirming
    <3>1. flows["postPayment"] = 0 /\ "CONFIRMED" \in seen
      BY <1>11, <2>1 DEF Schedule, OneFlow
    <3>2. flows'["postPayment"] \in {0, 1}
      BY <1>11, <2>1, <3>1 DEF Schedule, Counted, FollowUp, FollowUps, Many
    <3> QED BY <1>11, <3>1, <3>2 DEF Schedule, Return, Leave, OneFlow
  <2>2. CASE op[w] \notin Confirming
    <3>1. flows'["postPayment"] = flows["postPayment"]
      BY <1>11, <2>2 DEF Schedule, Counted, FollowUp, FollowUps
    <3> QED BY <1>11, <3>1 DEF Schedule, Return, Leave, OneFlow
  <2> QED BY <2>1, <2>2
<1>12. ASSUME NEW w \in Workers, Crash(w) \/ RepositoryFails(w) \/ ScheduleFails(w)
       PROVE  FALSE
  BY <1>12, LifecycleAssumption DEF Crash, RepositoryFails, ScheduleFails, Fault,
       Sequential, TypeOK
<1>13. ASSUME NEW w \in Workers, Request(w) \/ HandleEvent(w) \/ ListExpired(w)
       PROVE  \E o \in Operations : Begin(w, o)
  BY <1>13, LifecycleAssumption
     DEF Request, HandleEvent, ListExpired, Operations, Handlers
<1> QED
  BY <1>1, <1>2, <1>3, <1>4, <1>5, <1>6, <1>7, <1>8, <1>9, <1>10, <1>11, <1>12, <1>13
     DEF Next, WorkerStep

LEMMA SequentialInv ==
  ASSUME Sequential
  PROVE  Spec => [](Fresh /\ OneFlow)
<1>1. Init => Fresh /\ OneFlow
  BY DEF Init, Fresh, Writing, OneFlow, Created, FollowUps
<1>2. IInv /\ Fresh /\ OneFlow /\ [Next]_vars => Fresh' /\ OneFlow'
  BY FreshStep, OneFlowStep DEF IInv
<1> QED BY <1>1, <1>2, IInvAlways, PTL DEF Spec

(* One use case at a time leaves a cache that agrees with the row.         *)
THEOREM CacheStaysCoherent ==
  ASSUME Sequential
  PROVE  Spec => []CacheCoherent
<1>1. IInv /\ Fresh => CacheCoherent
  <2> SUFFICES ASSUME IInv, Fresh, Quiet PROVE cache \in {Missing, row}
    BY DEF CacheCoherent
  <2>1. \A w \in Workers : step[w] = "idle"
    BY DEF Quiet, IInv, InHand, Operations, Requests, Handlers
  <2> QED BY <2>1 DEF Fresh, Writing
<1> QED BY <1>1, SequentialInv, IInvAlways, PTL

(* One use case at a time schedules one post-payment flow for an order.    *)
THEOREM FlowRunsOnce ==
  ASSUME Sequential
  PROVE  Spec => []FlowOnce
<1>1. OneFlow => FlowOnce
  BY DEF OneFlow, FlowOnce
<1> QED BY <1>1, SequentialInv, PTL

(* One use case at a time, the row is the order status machine.            *)
THEOREM OrdersImplementStatusMachine ==
  ASSUME Sequential
  PROVE  Spec => ImplementsStatusMachine
<1>1. Init => StatusMachine!Pending
  BY DEF Init, Created, StatusMachine!Pending
<1>2. IInv /\ Fresh /\ [Next]_vars => [StatusMachine!Move]_(row.status)
  <2> SUFFICES ASSUME IInv, Fresh, [Next]_vars, row'.status # row.status
               PROVE  StatusMachine!Move
    OBVIOUS
  <2>1. row'.status \in Transitions[row.status]
    BY RowMoves DEF IInv
  <2> QED BY <2>1 DEF StatusMachine!Move, StatusMachine!Transitions, Transitions
<1> QED
  BY <1>1, <1>2, IInvAlways, SequentialInv, PTL
     DEF Spec, ImplementsStatusMachine, StatusMachine!Machine
=============================================================================
