---------------------------- MODULE Notifications ----------------------------
(***************************************************************************)
(* Notifications: a flow of three jobs saves each one to the history, shows*)
(* it to the clients that are connected and marks it as delivered, while   *)
(* its addressee reads it and the nightly job deletes what has expired.    *)
(* The worker runs many jobs at once; every call of a job is an await.     *)
(***************************************************************************)
EXTENDS Integers, FiniteSets

CONSTANTS Ids,        \* notifications
          Users,
          Workers,    \* job runs that may overlap
          Attempts,   \* of a job whose failure may be retried
          MaxErrors,  \* bound: calls of the database that fail
          MaxStalls,  \* bound: runs the queue takes for dead
          Absent      \* no row, no run, nobody

Jobs == {"save", "send", "update"}
Steps == {"find", "load", "write", "send", "finish"}
Statuses == {"PENDING", "SENT", "DELIVERED", "READ", "FAILED"}
Row == [status : Statuses, delivered : BOOLEAN]    \* is deliveredAt set?
Run == [id : Ids, job : Jobs, step : Steps, copy : Row \cup {Absent},
        known : Row \cup {Absent}, lock : BOOLEAN]

ASSUME NotificationsAssumption == /\ Attempts \in Nat \ {0}
                                  /\ MaxErrors \in Nat /\ MaxStalls \in Nat
                                  /\ Absent \notin Users \cup Row \cup Run

VARIABLES to,       \* the user a notification is for, if it is for one
          rows,     \* the history
          stage,    \* the job of its flow whose turn it is
          failed,   \* notifications whose job has failed for good
          tries,    \* failed attempts of that job
          run,      \* what each worker does, and if the job is still its own
          online,   \* users whose clients have joined their room
          shown,    \* notifications that a client has got
          expired,
          stalled,  \* history: notifications with a job that was run again
          crossed,  \* history: read before their flow was through, or deleted
                    \* under a job
          errors    \* see MaxErrors

vars == <<to, rows, stage, failed, tries, run, online, shown, expired,
          stalled, crossed, errors>>
flow == <<to, stage, failed, tries>>
clients == <<online, shown>>
history == <<stalled, crossed, errors>>

TypeOK == /\ to \in [Ids -> Users \cup {Absent}]
          /\ rows \in [Ids -> Row \cup {Absent}]
          /\ stage \in [Ids -> Jobs \cup {"none", "done"}]
          /\ failed \in SUBSET Ids
          /\ tries \in [Ids -> 0..Attempts - 1]
          /\ run \in [Workers -> Run \cup {Absent}]
          /\ online \in SUBSET Users
          /\ shown \in SUBSET Ids
          /\ expired \in SUBSET Ids
          /\ stalled \in SUBSET Ids
          /\ crossed \in SUBSET Ids
          /\ errors \in 0..MaxErrors

Init == /\ to = [n \in Ids |-> Absent]
        /\ rows = [n \in Ids |-> Absent]
        /\ stage = [n \in Ids |-> "none"]
        /\ failed = {}
        /\ tries = [n \in Ids |-> 0]
        /\ run = [w \in Workers |-> Absent]
        /\ online = {} /\ shown = {} /\ expired = {}
        /\ stalled = {} /\ crossed = {} /\ errors = 0

RunsOf(n) == {w \in Workers : run[w] # Absent /\ run[w].id = n}
InFlow(n) == stage[n] \in Jobs /\ n \notin failed

-----------------------------------------------------------------------------
(* The flow: each job is a child of the next.  A job is given the          *)
(* notification as it was when it was made.                                *)
Created == [status |-> "PENDING", delivered |-> FALSE]

SendFirst == "send"    \* mutant: the flow has lost its innermost child
FirstJob == "save"

NextJob(j) == IF j = "save" THEN "send" ELSE IF j = "send" THEN "update" ELSE "done"

ScheduleNotification(n) ==
  /\ stage[n] = "none"
  /\ \E u \in Users \cup {Absent} : to' = [to EXCEPT ![n] = u]
  /\ stage' = [stage EXCEPT ![n] = FirstJob]
  /\ UNCHANGED <<rows, failed, tries, run, clients, expired, history>>

(* What a job does first.                                                  *)
FirstStep(j) == IF j = "save" THEN "load" ELSE IF j = "send" THEN "send" ELSE "find"

Start(w, n) ==
  /\ run[w] = Absent
  /\ InFlow(n)
  /\ \A v \in RunsOf(n) : ~run[v].lock
  /\ run' = [run EXCEPT ![w] =
       [id |-> n, job |-> stage[n], step |-> FirstStep(stage[n]),
        copy |-> IF stage[n] = "save" THEN Created ELSE Absent,
        known |-> Absent, lock |-> TRUE]]
  /\ UNCHANGED <<rows, flow, clients, expired, history>>

-----------------------------------------------------------------------------
At(w, s) == run[w] # Absent /\ run[w].step = s
Goto(w, s) == run' = [run EXCEPT ![w].step = s]
Leave(w) == run' = [run EXCEPT ![w] = Absent]

(* Only the run the job still belongs to can settle it.                    *)
MayRetry(w) == /\ run[w].job # "save"    \* its errors are marked as final
               /\ tries[run[w].id] < Attempts - 1

Fail(w, retry) ==
  /\ Leave(w)
  /\ IF run[w].lock /\ retry
       THEN tries' = [tries EXCEPT ![run[w].id] = @ + 1] /\ UNCHANGED failed
       ELSE /\ failed' = IF run[w].lock THEN failed \cup {run[w].id} ELSE failed
            /\ UNCHANGED tries
  /\ UNCHANGED <<to, stage>>

Swallowed(w) == Goto(w, "finish") /\ UNCHANGED flow    \* mutant: as in the send job
AfterError(w) == Fail(w, MayRetry(w))

DbError(w) ==
  /\ run[w] # Absent /\ run[w].step \in {"find", "load", "write"}
  /\ errors < MaxErrors
  /\ errors' = errors + 1
  /\ AfterError(w)
  /\ UNCHANGED <<rows, clients, expired, stalled, crossed>>

(* markAsDelivered, on the copy.                                           *)
Delivered(row) == [row EXCEPT !.status = "DELIVERED", !.delivered = TRUE]

MadeAnew(w) ==    \* mutant: a missing row is no error
  /\ run' = [run EXCEPT ![w].copy = Delivered(Created), ![w].step = "load"]
  /\ UNCHANGED flow
Awaited(w) == UNCHANGED <<run, flow>>    \* mutant: wait for the row
IfMissing(w) == Fail(w, FALSE)

FindById(w) ==
  /\ At(w, "find")
  /\ LET n == run[w].id
     IN  IF rows[n] = Absent
           THEN IfMissing(w)
           ELSE /\ run' = [run EXCEPT ![w].copy = Delivered(rows[n]), ![w].step = "load"]
                /\ UNCHANGED flow
  /\ UNCHANGED <<rows, clients, expired, history>>

(* A save reads the row and then inserts one, or updates the columns that  *)
(* differ from what it has read.                                           *)
Load(w) ==
  /\ At(w, "load")
  /\ run' = [run EXCEPT ![w].known = rows[run[w].id], ![w].step = "write"]
  /\ UNCHANGED <<rows, flow, clients, expired, history>>

Changed(row, known, copy) ==
  [c \in DOMAIN row |-> IF copy[c] # known[c] THEN copy[c] ELSE row[c]]

RowAfterSave(row, known, copy) ==
  IF known = Absent THEN copy
  ELSE IF row = Absent THEN Absent ELSE Changed(row, known, copy)

Duplicate(w) == run[w].known = Absent /\ rows[run[w].id] # Absent

Write(w) ==
  /\ At(w, "write")
  /\ ~Duplicate(w)
  /\ rows' = [rows EXCEPT ![run[w].id] = RowAfterSave(@, run[w].known, run[w].copy)]
  /\ Goto(w, "finish")
  /\ UNCHANGED <<flow, clients, expired, history>>

WriteRefused(w) ==
  /\ At(w, "write")
  /\ Duplicate(w)
  /\ AfterError(w)
  /\ UNCHANGED <<rows, clients, expired, history>>

(* To the room of its user, if it has one; who is not there misses it, and *)
(* an error is as good as success.                                         *)
Reached(n) == to[n] \in online

Send(w) ==
  /\ At(w, "send")
  /\ shown' = IF Reached(run[w].id) THEN shown \cup {run[w].id} ELSE shown
  /\ Goto(w, "finish")
  /\ UNCHANGED <<rows, flow, online, expired, history>>

Finish(w) ==
  /\ At(w, "finish")
  /\ Leave(w)
  /\ IF run[w].lock
       THEN /\ stage' = [stage EXCEPT ![run[w].id] = NextJob(@)]
            /\ tries' = [tries EXCEPT ![run[w].id] = 0]
       ELSE UNCHANGED <<stage, tries>>
  /\ UNCHANGED <<rows, to, failed, clients, expired, history>>

(* A run that does not renew its lock is taken for dead and its job is run *)
(* again; it may be alive all the same.  One stall for each notification:  *)
(* that the second stall of a job fails it for good is left out.           *)
Stall(w) ==
  /\ run[w] # Absent /\ run[w].lock
  /\ run[w].id \notin stalled
  /\ Cardinality(stalled) < MaxStalls
  /\ stalled' = stalled \cup {run[w].id}
  /\ \/ run' = [run EXCEPT ![w].lock = FALSE]
     \/ Leave(w)
  /\ UNCHANGED <<rows, flow, clients, expired, crossed, errors>>

-----------------------------------------------------------------------------
(* The addressee.  The update names the user and asks for no status.       *)
ReadBy(n, u) == to[n] = u

MarkAsRead(n, u) ==
  /\ rows[n] # Absent /\ rows[n].status # "READ"
  /\ ReadBy(n, u)
  /\ rows' = [rows EXCEPT ![n].status = "READ"]
  /\ crossed' = IF InFlow(n) \/ RunsOf(n) # {} THEN crossed \cup {n} ELSE crossed
  /\ UNCHANGED <<flow, run, clients, expired, stalled, errors>>

Listed(u) == {n \in Ids : rows[n] # Absent /\ to[n] = u}
Unread(u) == Cardinality({n \in Listed(u) : rows[n].status = "SENT"})

Connect(u) ==
  /\ u \notin online
  /\ online' = online \cup {u}
  /\ UNCHANGED <<rows, flow, run, shown, expired, history>>

Disconnect(u) ==
  /\ u \in online
  /\ online' = online \ {u}
  /\ UNCHANGED <<rows, flow, run, shown, expired, history>>

(* Time passes; at night what has expired is deleted.                      *)
Expire(n) ==
  /\ stage[n] # "none" /\ n \notin expired
  /\ expired' = expired \cup {n}
  /\ UNCHANGED <<rows, flow, run, clients, history>>

Overdue == {n \in expired : rows[n] # Absent}

CleanupExpired ==
  /\ Overdue # {}
  /\ rows' = [n \in Ids |-> IF n \in Overdue THEN Absent ELSE rows[n]]
  /\ crossed' = crossed \cup {n \in Overdue : RunsOf(n) # {}}
  /\ UNCHANGED <<flow, run, clients, expired, stalled, errors>>

-----------------------------------------------------------------------------
RunStep(w) == \/ FindById(w) \/ Load(w) \/ Write(w) \/ WriteRefused(w)
              \/ Send(w) \/ Finish(w)

Next == \/ \E n \in Ids : \/ ScheduleNotification(n)
                          \/ Expire(n)
                          \/ \E w \in Workers : Start(w, n)
                          \/ \E u \in Users : MarkAsRead(n, u)
        \/ \E w \in Workers : RunStep(w) \/ DbError(w) \/ Stall(w)
        \/ \E u \in Users : Connect(u) \/ Disconnect(u)
        \/ CleanupExpired

(* The queue hands out every job that waits, and what runs goes on.        *)
Fairness == /\ \A n \in Ids : WF_vars(\E w \in Workers : Start(w, n))
            /\ \A w \in Workers : WF_vars(RunStep(w))

Spec == Init /\ [][Next]_vars /\ Fairness

-----------------------------------------------------------------------------
(* What a client was shown can be found in the history of its user until   *)
(* it expires, whatever fails, stalls and overlaps.                        *)
ShownIsListed == \A n \in shown : n \in Listed(to[n]) \/ n \in expired

(* A flow that has gone through leaves a notification that is recorded as  *)
(* delivered, unless one of its jobs was run twice or its row was deleted. *)
DeliveryRecorded ==
  \A n \in Ids : stage[n] = "done" /\ n \notin stalled \cup expired =>
                   rows[n] # Absent /\ rows[n].delivered

(* What its user has read stays read, and what was deleted does not come   *)
(* back, unless that met a job of the flow or a job was run twice.         *)
SettledStays ==
  [][\A n \in Ids \ (crossed' \cup stalled') :
        stage[n] # "none" /\ stage[n] # "save" =>
          /\ rows[n] = Absent => rows'[n] = Absent
          /\ rows[n] # Absent /\ rows[n].status = "READ" =>
               rows'[n] = Absent \/ rows'[n] = rows[n]]_vars

(* The same with no exception.  It does not hold: the last job of the flow *)
(* saves the copy it has found, over a row that has since been read, or in *)
(* the place of one that has been deleted.                                 *)
ReadStaysRead ==
  [][\A n \in Ids : rows[n] # Absent /\ rows[n].status = "READ" =>
                      rows'[n] = Absent \/ rows'[n].status = "READ"]_vars

(* Every flow comes to an end: its jobs are done, or one failed for good.  *)
FlowSettles == \A n \in Ids : InFlow(n) ~> ~InFlow(n)

(* The number of unread notifications in the list is the number of those   *)
(* their user has not read.  It does not hold: SENT, the status that is    *)
(* counted, is one that no code sets.                                      *)
UnreadAreCounted ==
  \A u \in Users : Unread(u) = Cardinality({n \in Listed(u) : rows[n].status # "READ"})
=============================================================================
