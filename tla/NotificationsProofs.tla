------------------------- MODULE NotificationsProofs -------------------------
(***************************************************************************)
(* Theorems about Notifications, for any number of notifications, users,   *)
(* overlapping runs, errors and stalls.                                    *)
(***************************************************************************)
EXTENDS Notifications, TLAPS

USE DEF FirstJob, AfterError, IfMissing, Leave, Goto, At

(* What a run holds: the row it is about to save, which is never one that  *)
(* says READ and, in the last job, says delivered.                         *)
InHand ==
  \A w \in Workers : run[w] # Absent =>
    /\ run[w].step \in {"load", "write"} =>
         /\ run[w].job \in {"save", "update"}
         /\ run[w].copy \in Row /\ run[w].copy.status # "READ"
         /\ run[w].job = "update" => run[w].copy.delivered
    /\ run[w].step = "find" => run[w].job = "update"
    /\ run[w].step = "send" => run[w].job = "send"

(* A job belongs to one run at a time, and a run without its job is one of *)
(* a notification that stalled; its flow may have moved on, never back.    *)
Owned ==
  \A w \in Workers : run[w] # Absent =>
    /\ stage[run[w].id] # "none"
    /\ run[w].lock => stage[run[w].id] = run[w].job /\ run[w].id \notin failed
    /\ ~run[w].lock => run[w].id \in stalled
    /\ run[w].job = "send" => stage[run[w].id] # "save"
    /\ run[w].job = "update" => stage[run[w].id] \notin {"save", "send"}
    /\ \A v \in Workers : run[v] # Absent /\ run[v].id = run[w].id
         => v = w \/ ~run[v].lock \/ ~run[w].lock

(* A row, once it is there, is there until it expires; and it is there     *)
(* before anything is sent.                                                *)
Kept(n) == rows[n] # Absent \/ n \in expired
Recorded ==
  /\ \A n \in Ids : /\ stage[n] = "none" => rows[n] = Absent
                    /\ stage[n] \notin {"none", "save"} => Kept(n)
  /\ \A n \in shown : Kept(n)
  /\ \A w \in Workers :
       run[w] # Absent /\ (run[w].step = "finish" \/ run[w].known # Absent)
         => Kept(run[w].id)

(* The last job leaves the row delivered.                                  *)
Plain(n) == n \notin stalled /\ n \notin expired
Delivers ==
  /\ DeliveryRecorded
  /\ \A w \in Workers :
       run[w] # Absent /\ run[w].job = "update" /\ Plain(run[w].id) =>
         /\ run[w].step = "finish" => rows[run[w].id].delivered
         /\ run[w].step = "write" /\ run[w].known # Absent /\ run[w].known.delivered
              => rows[run[w].id].delivered

(* Whoever reads, or deletes, under the flow is on record.                 *)
Met(n) == n \in crossed \cup stalled
Settles ==
  /\ \A n \in Ids : rows[n] # Absent /\ rows[n].status = "READ" /\ InFlow(n) => Met(n)
  /\ \A w \in Workers : run[w] # Absent =>
       LET n == run[w].id
       IN  /\ rows[n] # Absent /\ rows[n].status = "READ" => Met(n)
           /\ /\ rows[n] = Absent /\ run[w].job = "update"
              /\ run[w].step \in {"load", "write"}
              => Met(n)

IInv == TypeOK /\ InHand /\ Owned /\ Recorded /\ Delivers /\ Settles

-----------------------------------------------------------------------------
LEMMA InitInv == Init => IInv
<1> SUFFICES ASSUME Init PROVE IInv
  OBVIOUS
<1> USE NotificationsAssumption DEF Init
<1>1. TypeOK
  BY DEF TypeOK
<1>2. InHand /\ Owned /\ Recorded
  BY DEF InHand, Owned, Recorded, Kept
<1>3. Delivers /\ Settles
  BY DEF Delivers, DeliveryRecorded, Settles, InFlow, Jobs
<1> QED
  BY <1>1, <1>2, <1>3 DEF IInv

(* What Load and Write make of the runs, and of the row that is saved.     *)
LEMMA LoadedRun ==
  ASSUME TypeOK, NEW w \in Workers, Load(w)
  PROVE  /\ \A v \in Workers : run'[v] # Absent =>
              /\ run[v] # Absent
              /\ run'[v].id = run[v].id /\ run'[v].job = run[v].job
              /\ run'[v].lock = run[v].lock
              /\ \/ run'[v] = run[v]
                 \/ /\ run[v].step = "load" /\ run'[v].step = "write"
                    /\ run'[v].known = rows[run[v].id]
         /\ UNCHANGED <<rows, to, stage, failed, tries, online, shown, expired,
                        stalled, crossed, errors>>
<1>1. run[w] \in Run /\ run[w].step = "load"
  BY NotificationsAssumption DEF Load, TypeOK
<1>2. run' = [run EXCEPT ![w] = [run[w] EXCEPT !.known = rows[run[w].id], !.step = "write"]]
  BY <1>1 DEF Load, TypeOK, Run
<1>3. ASSUME NEW v \in Workers, run'[v] # Absent, v # w PROVE run'[v] = run[v]
  BY <1>2, <1>3 DEF TypeOK
<1>4. /\ run[w] # Absent
      /\ run'[w].id = run[w].id /\ run'[w].job = run[w].job /\ run'[w].lock = run[w].lock
      /\ run'[w].step = "write" /\ run'[w].known = rows[run[w].id]
  BY <1>1, <1>2, NotificationsAssumption DEF TypeOK, Run
<1> QED
  BY <1>1, <1>3, <1>4 DEF Load, flow, clients, history

LEMMA WrittenRun ==
  ASSUME TypeOK, NEW w \in Workers, Write(w)
  PROVE  /\ run[w] \in Run /\ run[w].step = "write"
         /\ run[w].known = Absent => rows[run[w].id] = Absent
         /\ \A v \in Workers : run'[v] # Absent =>
              /\ run[v] # Absent
              /\ run'[v].id = run[v].id /\ run'[v].job = run[v].job
              /\ run'[v].step \in {"load", "write"} => run'[v] = run[v]
         /\ \A n \in Ids : rows'[n] =
              IF n = run[w].id THEN RowAfterSave(rows[n], run[w].known, run[w].copy)
                               ELSE rows[n]
         /\ UNCHANGED <<to, stage, failed, tries, online, shown, expired,
                        stalled, crossed, errors>>
<1>1. run[w] \in Run /\ run[w].step = "write"
  BY NotificationsAssumption DEF Write, TypeOK
<1>2. run' = [run EXCEPT ![w] = [run[w] EXCEPT !.step = "finish"]]
  BY <1>1 DEF Write, TypeOK, Run
<1>3. ASSUME NEW v \in Workers, run'[v] # Absent, v # w PROVE run'[v] = run[v]
  BY <1>2, <1>3 DEF TypeOK
<1>4. /\ run[w] # Absent /\ run'[w].step = "finish"
      /\ run'[w].id = run[w].id /\ run'[w].job = run[w].job
  BY <1>1, <1>2, NotificationsAssumption DEF TypeOK, Run
<1>5. \A n \in Ids : rows'[n] =
        IF n = run[w].id THEN RowAfterSave(rows[n], run[w].known, run[w].copy)
                         ELSE rows[n]
  BY DEF Write, TypeOK
<1> QED
  BY <1>1, <1>3, <1>4, <1>5 DEF Write, Duplicate, flow, clients, history

LEMMA SavedRow ==
  ASSUME NEW row \in Row \cup {Absent}, NEW seen \in Row \cup {Absent},
         NEW copied \in Row, copied.status # "READ"
  PROVE  /\ RowAfterSave(row, seen, copied) = Absent => row = Absent
         /\ /\ RowAfterSave(row, seen, copied) # Absent
            /\ RowAfterSave(row, seen, copied).status = "READ"
            => row # Absent /\ row.status = "READ"
<1>1. Absent \notin Row
  BY NotificationsAssumption
<1>2. CASE seen # Absent /\ row # Absent
  BY <1>1, <1>2 DEF RowAfterSave, Changed, Row
<1>3. CASE seen = Absent
  BY <1>1, <1>3 DEF RowAfterSave
<1> QED
  BY <1>1, <1>2, <1>3 DEF RowAfterSave

(* Types.                                                                  *)
LEMMA TypeStep ==
  TypeOK /\ InHand /\ [Next]_vars => TypeOK'
<1> SUFFICES ASSUME TypeOK, InHand, [Next]_vars PROVE TypeOK'
  OBVIOUS
<1> USE NotificationsAssumption DEF TypeOK, InHand, Run, Row, Jobs, Steps, Statuses,
     InFlow
<1>1. ASSUME NEW n \in Ids, ScheduleNotification(n) PROVE TypeOK'
  BY <1>1 DEF ScheduleNotification, clients, history
<1>2. ASSUME NEW n \in Ids, Expire(n) PROVE TypeOK'
  BY <1>2 DEF Expire, flow, clients, history
<1>3. ASSUME NEW n \in Ids, NEW w \in Workers, Start(w, n) PROVE TypeOK'
  BY <1>3 DEF Start, FirstStep, Created, flow, clients, history
<1>4. ASSUME NEW n \in Ids, NEW u \in Users, MarkAsRead(n, u) PROVE TypeOK'
  BY <1>4 DEF MarkAsRead, flow, clients
<1>5. ASSUME NEW w \in Workers, FindById(w) PROVE TypeOK'
  BY <1>5 DEF FindById, Fail, Delivered, flow, clients, history
<1>6. ASSUME NEW w \in Workers, Load(w) PROVE TypeOK'
  BY <1>6 DEF Load, flow, clients, history
<1>7. ASSUME NEW w \in Workers, Write(w) PROVE TypeOK'
  BY <1>7 DEF Write, Duplicate, RowAfterSave, Changed, flow, clients, history
<1>8. ASSUME NEW w \in Workers, WriteRefused(w) PROVE TypeOK'
  BY <1>8 DEF WriteRefused, Fail, MayRetry, clients, history
<1>9. ASSUME NEW w \in Workers, Send(w) PROVE TypeOK'
  BY <1>9 DEF Send, flow, history
<1>10. ASSUME NEW w \in Workers, Finish(w) PROVE TypeOK'
  BY <1>10 DEF Finish, NextJob, clients, history
<1>11. ASSUME NEW w \in Workers, DbError(w) PROVE TypeOK'
  BY <1>11 DEF DbError, Fail, MayRetry, clients
<1>12. ASSUME NEW w \in Workers, Stall(w) PROVE TypeOK'
  <2>1. run[w] \in Run
    BY <1>12 DEF Stall
  <2>2. run' \in [Workers -> Run \cup {Absent}]
    <3>1. CASE run' = [run EXCEPT ![w].lock = FALSE]
      <4>1. [run[w] EXCEPT !.lock = FALSE] \in Run
        BY <2>1
      <4> QED
        BY <3>1, <4>1, <2>1
    <3>2. CASE run' = [run EXCEPT ![w] = Absent]
      BY <3>2
    <3> QED
      BY <1>12, <3>1, <3>2 DEF Stall
  <2>3. stalled' \in SUBSET Ids
    BY <1>12, <2>1 DEF Stall
  <2> QED
    BY <1>12, <2>2, <2>3 DEF Stall, flow, clients
<1>13. ASSUME NEW u \in Users, Connect(u) \/ Disconnect(u) PROVE TypeOK'
  BY <1>13 DEF Connect, Disconnect, flow, history
<1>14. CASE CleanupExpired
  BY <1>14 DEF CleanupExpired, Overdue, flow, clients
<1>15. CASE UNCHANGED vars
  BY <1>15 DEF vars, flow, clients, history
<1> QED
  BY <1>1, <1>2, <1>3, <1>4, <1>5, <1>6, <1>7, <1>8, <1>9, <1>10, <1>11, <1>12, <1>13,
       <1>14, <1>15
  DEF Next, RunStep

(* A copy is what a job was given, or was made of a row that it found.     *)
LEMMA InHandStep ==
  TypeOK /\ InHand /\ [Next]_vars => InHand'
<1> SUFFICES ASSUME TypeOK, InHand, [Next]_vars PROVE InHand'
  OBVIOUS
<1> USE NotificationsAssumption DEF TypeOK, InHand, Run, Row, Jobs, Steps, Statuses,
     InFlow
<1>1. ASSUME NEW n \in Ids, ScheduleNotification(n) PROVE InHand'
  BY <1>1 DEF ScheduleNotification, clients, history
<1>2. ASSUME NEW n \in Ids, Expire(n) PROVE InHand'
  BY <1>2 DEF Expire, flow, clients, history
<1>3. ASSUME NEW n \in Ids, NEW w \in Workers, Start(w, n) PROVE InHand'
  BY <1>3 DEF Start, FirstStep, Created, flow, clients, history
<1>4. ASSUME NEW n \in Ids, NEW u \in Users, MarkAsRead(n, u) PROVE InHand'
  BY <1>4 DEF MarkAsRead, flow, clients
<1>5. ASSUME NEW w \in Workers, FindById(w) PROVE InHand'
  BY <1>5 DEF FindById, Fail, Delivered, flow, clients, history
<1>6. ASSUME NEW w \in Workers, Load(w) PROVE InHand'
  BY <1>6 DEF Load, flow, clients, history
<1>7. ASSUME NEW w \in Workers, Write(w) PROVE InHand'
  BY <1>7 DEF Write, Duplicate, RowAfterSave, Changed, flow, clients, history
<1>8. ASSUME NEW w \in Workers, WriteRefused(w) PROVE InHand'
  BY <1>8 DEF WriteRefused, Fail, MayRetry, clients, history
<1>9. ASSUME NEW w \in Workers, Send(w) PROVE InHand'
  BY <1>9 DEF Send, flow, history
<1>10. ASSUME NEW w \in Workers, Finish(w) PROVE InHand'
  BY <1>10 DEF Finish, NextJob, clients, history
<1>11. ASSUME NEW w \in Workers, DbError(w) PROVE InHand'
  BY <1>11 DEF DbError, Fail, MayRetry, clients
<1>12. ASSUME NEW w \in Workers, Stall(w) PROVE InHand'
  BY <1>12 DEF Stall, flow, clients
<1>13. ASSUME NEW u \in Users, Connect(u) \/ Disconnect(u) PROVE InHand'
  BY <1>13 DEF Connect, Disconnect, flow, history
<1>14. CASE CleanupExpired
  BY <1>14 DEF CleanupExpired, Overdue, flow, clients
<1>15. CASE UNCHANGED vars
  BY <1>15 DEF vars, flow, clients, history
<1> QED
  BY <1>1, <1>2, <1>3, <1>4, <1>5, <1>6, <1>7, <1>8, <1>9, <1>10, <1>11, <1>12, <1>13,
       <1>14, <1>15
  DEF Next, RunStep

(* The queue hands a job out again only when its run is taken for dead.    *)
LEMMA OwnedStep ==
  TypeOK /\ Owned /\ [Next]_vars => Owned'
<1> SUFFICES ASSUME TypeOK, Owned, [Next]_vars PROVE Owned'
  OBVIOUS
<1> USE NotificationsAssumption DEF TypeOK, Owned, Run, Jobs, InFlow, RunsOf
<1>1. ASSUME NEW n \in Ids, ScheduleNotification(n) PROVE Owned'
  BY <1>1 DEF ScheduleNotification, clients, history
<1>2. ASSUME NEW n \in Ids, Expire(n) PROVE Owned'
  BY <1>2 DEF Expire, flow, clients, history
<1>3. ASSUME NEW n \in Ids, NEW w \in Workers, Start(w, n) PROVE Owned'
  BY <1>3 DEF Start, FirstStep, Created, flow, clients, history
<1>4. ASSUME NEW n \in Ids, NEW u \in Users, MarkAsRead(n, u) PROVE Owned'
  BY <1>4 DEF MarkAsRead, flow, clients
<1>5. ASSUME NEW w \in Workers, FindById(w) PROVE Owned'
  BY <1>5 DEF FindById, Fail, Delivered, flow, clients, history
<1>6. ASSUME NEW w \in Workers, Load(w) PROVE Owned'
  BY <1>6 DEF Load, flow, clients, history
<1>7. ASSUME NEW w \in Workers, Write(w) PROVE Owned'
  BY <1>7 DEF Write, Duplicate, RowAfterSave, Changed, flow, clients, history
<1>8. ASSUME NEW w \in Workers, WriteRefused(w) PROVE Owned'
  BY <1>8 DEF WriteRefused, Fail, MayRetry, clients, history
<1>9. ASSUME NEW w \in Workers, Send(w) PROVE Owned'
  BY <1>9 DEF Send, flow, history
<1>10. ASSUME NEW w \in Workers, Finish(w) PROVE Owned'
  BY <1>10 DEF Finish, NextJob, clients, history
<1>11. ASSUME NEW w \in Workers, DbError(w) PROVE Owned'
  BY <1>11 DEF DbError, Fail, MayRetry, clients
<1>12. ASSUME NEW w \in Workers, Stall(w) PROVE Owned'
  BY <1>12 DEF Stall, flow, clients
<1>13. ASSUME NEW u \in Users, Connect(u) \/ Disconnect(u) PROVE Owned'
  BY <1>13 DEF Connect, Disconnect, flow, history
<1>14. CASE CleanupExpired
  BY <1>14 DEF CleanupExpired, Overdue, flow, clients
<1>15. CASE UNCHANGED vars
  BY <1>15 DEF vars, flow, clients, history
<1> QED
  BY <1>1, <1>2, <1>3, <1>4, <1>5, <1>6, <1>7, <1>8, <1>9, <1>10, <1>11, <1>12, <1>13,
       <1>14, <1>15
  DEF Next, RunStep

(* Reading a notification changes nothing but its status.                  *)
LEMMA MarksRead ==
  ASSUME TypeOK, NEW n \in Ids, NEW u \in Users, MarkAsRead(n, u), NEW m \in Ids
  PROVE  /\ rows'[m] = Absent <=> rows[m] = Absent
         /\ rows[m] # Absent => rows'[m].delivered = rows[m].delivered
<1>1. rows[n] \in Row /\ rows' = [rows EXCEPT ![n] = [rows[n] EXCEPT !.status = "READ"]]
  BY DEF TypeOK, MarkAsRead
<1>2. rows'[n] \in Row /\ rows'[n].delivered = rows[n].delivered
  BY <1>1 DEF TypeOK, Row, Statuses
<1> QED
  BY <1>1, <1>2, NotificationsAssumption DEF TypeOK

(* Only the cleanup makes a row disappear, and only an expired one.        *)
LEMMA RecordedStep ==
  TypeOK /\ InHand /\ Owned /\ Recorded /\ [Next]_vars => Recorded'
<1> SUFFICES ASSUME TypeOK, InHand, Owned, Recorded, [Next]_vars PROVE Recorded'
  OBVIOUS
<1> USE NotificationsAssumption DEF TypeOK, InHand, Owned, Recorded, Kept, Run, Row,
     Jobs, InFlow
<1>1. ASSUME NEW n \in Ids, ScheduleNotification(n) PROVE Recorded'
  BY <1>1 DEF ScheduleNotification, clients, history
<1>2. ASSUME NEW n \in Ids, Expire(n) PROVE Recorded'
  BY <1>2 DEF Expire, flow, clients, history
<1>3. ASSUME NEW n \in Ids, NEW w \in Workers, Start(w, n) PROVE Recorded'
  BY <1>3 DEF Start, FirstStep, Created, flow, clients, history
<1>4. ASSUME NEW n \in Ids, NEW u \in Users, MarkAsRead(n, u) PROVE Recorded'
  <2>1. \A m \in Ids : rows'[m] = Absent <=> rows[m] = Absent
    BY <1>4, MarksRead
  <2> QED
    BY <1>4, <2>1 DEF MarkAsRead, flow, clients
<1>5. ASSUME NEW w \in Workers, FindById(w) PROVE Recorded'
  BY <1>5 DEF FindById, Fail, Delivered, flow, clients, history
<1>6. ASSUME NEW w \in Workers, Load(w) PROVE Recorded'
  BY <1>6 DEF Load, flow, clients, history
<1>7. ASSUME NEW w \in Workers, Write(w) PROVE Recorded'
  BY <1>7 DEF Write, Duplicate, RowAfterSave, Changed, flow, clients, history
<1>8. ASSUME NEW w \in Workers, WriteRefused(w) PROVE Recorded'
  BY <1>8 DEF WriteRefused, Fail, MayRetry, clients, history
<1>9. ASSUME NEW w \in Workers, Send(w) PROVE Recorded'
  BY <1>9 DEF Send, flow, history
<1>10. ASSUME NEW w \in Workers, Finish(w) PROVE Recorded'
  BY <1>10 DEF Finish, NextJob, clients, history
<1>11. ASSUME NEW w \in Workers, DbError(w) PROVE Recorded'
  BY <1>11 DEF DbError, Fail, MayRetry, clients
<1>12. ASSUME NEW w \in Workers, Stall(w) PROVE Recorded'
  BY <1>12 DEF Stall, flow, clients
<1>13. ASSUME NEW u \in Users, Connect(u) \/ Disconnect(u) PROVE Recorded'
  BY <1>13 DEF Connect, Disconnect, flow, history
<1>14. CASE CleanupExpired
  BY <1>14 DEF CleanupExpired, Overdue, flow, clients
<1>15. CASE UNCHANGED vars
  BY <1>15 DEF vars, flow, clients, history
<1> QED
  BY <1>1, <1>2, <1>3, <1>4, <1>5, <1>6, <1>7, <1>8, <1>9, <1>10, <1>11, <1>12, <1>13,
       <1>14, <1>15
  DEF Next, RunStep

(* A save writes the columns that differ from what it has read.            *)
LEMMA ChangedColumn ==
  ASSUME NEW row \in Row, NEW known, NEW copy
  PROVE  Changed(row, known, copy).delivered =
           IF copy.delivered # known.delivered THEN copy.delivered ELSE row.delivered
  BY DEF Changed, Row

(* No other run writes the row of a notification that did not stall.       *)
LEMMA DeliversStep ==
  TypeOK /\ InHand /\ Owned /\ Recorded /\ Delivers /\ [Next]_vars => Delivers'
<1> SUFFICES ASSUME TypeOK, InHand, Owned, Recorded, Delivers, [Next]_vars PROVE Delivers'
  OBVIOUS
<1> USE NotificationsAssumption DEF TypeOK, InHand, Owned, Recorded, Kept, Plain,
     Delivers, DeliveryRecorded, Run, Row, Jobs, InFlow
<1>1. ASSUME NEW n \in Ids, ScheduleNotification(n) PROVE Delivers'
  BY <1>1 DEF ScheduleNotification, clients, history
<1>2. ASSUME NEW n \in Ids, Expire(n) PROVE Delivers'
  BY <1>2 DEF Expire, flow, clients, history
<1>3. ASSUME NEW n \in Ids, NEW w \in Workers, Start(w, n) PROVE Delivers'
  BY <1>3 DEF Start, FirstStep, Created, flow, clients, history
<1>4. ASSUME NEW n \in Ids, NEW u \in Users, MarkAsRead(n, u) PROVE Delivers'
  <2>1. \A m \in Ids : /\ rows'[m] = Absent <=> rows[m] = Absent
                       /\ rows[m] # Absent => rows'[m].delivered = rows[m].delivered
    BY <1>4, MarksRead
  <2>2. \A w \in Workers : run[w] # Absent /\ run[w].job = "update" /\ Plain(run[w].id)
                           => rows[run[w].id] # Absent
    <3>1. \A w \in Workers : run[w] # Absent => run[w] \in Run /\ run[w].id \in Ids
      OBVIOUS
    <3> QED
      BY <3>1
  <2>3. UNCHANGED <<to, stage, run, expired, stalled>>
    BY <1>4 DEF MarkAsRead, flow
  <2> QED
    BY <2>1, <2>2, <2>3
<1>5. ASSUME NEW w \in Workers, FindById(w) PROVE Delivers'
  BY <1>5 DEF FindById, Fail, Delivered, flow, clients, history
<1>6. ASSUME NEW w \in Workers, Load(w) PROVE Delivers'
  BY ONLY <1>6, LoadedRun, TypeOK, Delivers DEF Delivers, DeliveryRecorded, Plain
<1>7. ASSUME NEW w \in Workers, Write(w) PROVE Delivers'
  <2> DEFINE n == run[w].id
             s == rows'[n]
  <2>1. /\ run[w] \in Run /\ n \in Ids /\ run[w].copy \in Row
        /\ run[w].job \in {"save", "update"} /\ run[w].step = "write"
    BY <1>7 DEF Write
  <2>2. /\ rows' = [rows EXCEPT ![n] = s]
        /\ s = RowAfterSave(rows[n], run[w].known, run[w].copy)
        /\ run' = [run EXCEPT ![w].step = "finish"]
        /\ UNCHANGED <<stage, expired, stalled>>
    BY <1>7, <2>1 DEF Write, flow, history
  <2>3. ASSUME Plain(n), run[w].job = "update" PROVE s.delivered
    <3>1. rows[n] # Absent /\ run[w].known # Absent /\ run[w].copy.delivered
      BY <1>7, <2>1, <2>3 DEF Write, Duplicate
    <3>5. rows[n] \in Row
      BY <2>1, <3>1
    <3>2. s = Changed(rows[n], run[w].known, run[w].copy)
      BY <2>2, <3>1 DEF RowAfterSave
    <3>3. s.delivered = IF run[w].copy.delivered # run[w].known.delivered
                          THEN run[w].copy.delivered ELSE rows[n].delivered
      BY <3>2, <3>5, ChangedColumn
    <3>4. CASE run[w].known.delivered
      BY <2>1, <2>3, <3>1, <3>3, <3>4
    <3> QED
      BY <2>1, <3>1, <3>3, <3>4
  <2>4. ASSUME Plain(n), run[w].job = "save" PROVE stage[n] = "save"
    BY <2>1, <2>4
  <2>5. ASSUME NEW v \in Workers, v # w, run[v] # Absent, run[v].id = n, Plain(n) PROVE FALSE
    BY <2>1, <2>5
  <2>6. DeliveryRecorded'
    BY <2>1, <2>2, <2>3, <2>4 DEF RowAfterSave, Changed
  <2>7. ASSUME NEW v \in Workers, run'[v] # Absent, run'[v].job = "update", run'[v].id \notin stalled, run'[v].id \notin expired
        PROVE  /\ run'[v].step = "finish" => rows'[run'[v].id].delivered
               /\ run'[v].step = "write" /\ run'[v].known # Absent /\ run'[v].known.delivered
                    => rows'[run'[v].id].delivered
    <3>1. CASE v = w
      BY <2>1, <2>2, <2>3, <2>7, <3>1
    <3>2. CASE v # w
      BY <2>1, <2>2, <2>5, <2>7, <3>2
    <3> QED
      BY <3>1, <3>2
  <2>8. UNCHANGED <<stalled, expired>>
    BY <2>2
  <2> QED
    BY <2>6, <2>7, <2>8
<1>8. ASSUME NEW w \in Workers, WriteRefused(w) PROVE Delivers'
  BY <1>8 DEF WriteRefused, Fail, MayRetry, clients, history
<1>9. ASSUME NEW w \in Workers, Send(w) PROVE Delivers'
  BY <1>9 DEF Send, flow, history
<1>10. ASSUME NEW w \in Workers, Finish(w) PROVE Delivers'
  BY <1>10 DEF Finish, NextJob, clients, history
<1>11. ASSUME NEW w \in Workers, DbError(w) PROVE Delivers'
  BY <1>11 DEF DbError, Fail, MayRetry, clients
<1>12. ASSUME NEW w \in Workers, Stall(w) PROVE Delivers'
  BY <1>12 DEF Stall, flow, clients
<1>13. ASSUME NEW u \in Users, Connect(u) \/ Disconnect(u) PROVE Delivers'
  BY <1>13 DEF Connect, Disconnect, flow, history
<1>14. CASE CleanupExpired
  BY <1>14 DEF CleanupExpired, Overdue, flow, clients
<1>15. CASE UNCHANGED vars
  BY <1>15 DEF vars, flow, clients, history
<1> QED
  BY <1>1, <1>2, <1>3, <1>4, <1>5, <1>6, <1>7, <1>8, <1>9, <1>10, <1>11, <1>12, <1>13,
       <1>14, <1>15
  DEF Next, RunStep

(* The marks of the history are made in the step that reads or deletes.    *)
LEMMA SettlesStep ==
  TypeOK /\ InHand /\ Owned /\ Recorded /\ Settles /\ [Next]_vars => Settles'
<1> SUFFICES ASSUME TypeOK, InHand, Owned, Recorded, Settles, [Next]_vars PROVE Settles'
  OBVIOUS
<1> USE NotificationsAssumption DEF TypeOK, InHand, Owned, Recorded, Kept, Met, Settles,
     Run, Row, Jobs, InFlow, RunsOf
<1>1. ASSUME NEW n \in Ids, ScheduleNotification(n) PROVE Settles'
  BY <1>1 DEF ScheduleNotification, clients, history
<1>2. ASSUME NEW n \in Ids, Expire(n) PROVE Settles'
  BY <1>2 DEF Expire, flow, clients, history
<1>3. ASSUME NEW n \in Ids, NEW w \in Workers, Start(w, n) PROVE Settles'
  BY <1>3 DEF Start, FirstStep, Created, flow, clients, history
<1>4. ASSUME NEW n \in Ids, NEW u \in Users, MarkAsRead(n, u) PROVE Settles'
  BY <1>4 DEF MarkAsRead, flow, clients
<1>5. ASSUME NEW w \in Workers, FindById(w) PROVE Settles'
  BY <1>5 DEF FindById, Fail, Delivered, flow, clients, history
<1>6. ASSUME NEW w \in Workers, Load(w) PROVE Settles'
  BY ONLY <1>6, LoadedRun, TypeOK, Settles DEF Settles, Met, InFlow
<1>7. ASSUME NEW w \in Workers, Write(w) PROVE Settles'
  <2>1. /\ rows[run[w].id] \in Row \cup {Absent} /\ run[w].known \in Row \cup {Absent}
        /\ run[w].copy \in Row /\ run[w].copy.status # "READ" /\ run[w] # Absent
        /\ run[w].id \in Ids
    BY <1>7, WrittenRun
  <2>2. ASSUME NEW n \in Ids, rows'[n] # Absent, rows'[n].status = "READ"
        PROVE  rows[n] # Absent /\ rows[n].status = "READ"
    <3>1. CASE n # run[w].id
      BY ONLY <1>7, TypeOK, <2>2, <3>1, WrittenRun
    <3>2. CASE n = run[w].id
      <4>1. rows'[n] = RowAfterSave(rows[n], run[w].known, run[w].copy)
        BY ONLY <1>7, TypeOK, <2>1, <3>2, WrittenRun
      <4> QED
        BY <2>1, <2>2, <3>2, <4>1, SavedRow
    <3> QED
      BY <3>1, <3>2
  <2>3. ASSUME NEW n \in Ids, rows'[n] = Absent PROVE rows[n] = Absent
    BY ONLY <1>7, TypeOK, <2>1, <2>3, WrittenRun, SavedRow
  <2>4. \A v \in Workers : run[v] # Absent => run[v].id \in Ids
    OBVIOUS
  <2>5. UNCHANGED <<stage, failed, stalled, crossed>>
    BY ONLY <1>7, TypeOK, WrittenRun
  <2>6. ASSUME NEW n \in Ids, rows'[n] # Absent, rows'[n].status = "READ", InFlow(n)'
        PROVE  Met(n)'
    BY ONLY <2>2, <2>5, <2>6, Settles DEF Settles, Met, InFlow
  <2>7. ASSUME NEW v \in Workers, run'[v] # Absent
        PROVE  /\ run[v] # Absent /\ run'[v].id = run[v].id
               /\ run'[v].step \in {"load", "write"} => run'[v] = run[v]
    BY ONLY <1>7, TypeOK, <2>7, WrittenRun
  <2>8. ASSUME NEW v \in Workers, run'[v] # Absent
        PROVE  /\ rows'[run[v].id] # Absent /\ rows'[run[v].id].status = "READ"
                    => run[v].id \in crossed \cup stalled
               /\ rows'[run[v].id] = Absent /\ run'[v].job = "update"
                  /\ run'[v].step \in {"load", "write"}
                    => run[v].id \in crossed \cup stalled
    BY ONLY <2>2, <2>3, <2>4, <2>7, <2>8, Settles DEF Settles, Met
  <2> QED
    BY ONLY <2>5, <2>6, <2>7, <2>8 DEF Settles, Met
<1>8. ASSUME NEW w \in Workers, WriteRefused(w) PROVE Settles'
  BY <1>8 DEF WriteRefused, Fail, MayRetry, clients, history
<1>9. ASSUME NEW w \in Workers, Send(w) PROVE Settles'
  BY <1>9 DEF Send, flow, history
<1>10. ASSUME NEW w \in Workers, Finish(w) PROVE Settles'
  BY <1>10 DEF Finish, NextJob, clients, history
<1>11. ASSUME NEW w \in Workers, DbError(w) PROVE Settles'
  BY <1>11 DEF DbError, Fail, MayRetry, clients
<1>12. ASSUME NEW w \in Workers, Stall(w) PROVE Settles'
  BY <1>12 DEF Stall, flow, clients
<1>13. ASSUME NEW u \in Users, Connect(u) \/ Disconnect(u) PROVE Settles'
  BY <1>13 DEF Connect, Disconnect, flow, history
<1>14. CASE CleanupExpired
  BY <1>14 DEF CleanupExpired, Overdue, flow, clients
<1>15. CASE UNCHANGED vars
  BY <1>15 DEF vars, flow, clients, history
<1> QED
  BY <1>1, <1>2, <1>3, <1>4, <1>5, <1>6, <1>7, <1>8, <1>9, <1>10, <1>11, <1>12, <1>13,
       <1>14, <1>15
  DEF Next, RunStep

(* The strengthening of the invariants below is one itself.                *)
THEOREM IInvAlways == Spec => []IInv
<1>1. IInv /\ [Next]_vars => IInv'
  BY TypeStep, InHandStep, OwnedStep, RecordedStep, DeliversStep, SettlesStep DEF IInv
<1> QED
  BY InitInv, <1>1, PTL DEF Spec

(* The state of the flows, the history and the runs is always of its type. *)
THEOREM TypeAlways == Spec => []TypeOK
<1>1. IInv => TypeOK
  BY DEF IInv
<1> QED
  BY IInvAlways, <1>1, PTL

(* What was shown is in the list of the user it was for, until it expires. *)
THEOREM ShownIsAlwaysListed == Spec => []ShownIsListed
<1>1. IInv => ShownIsListed
  BY DEF IInv, TypeOK, Recorded, Kept, ShownIsListed, Listed
<1> QED
  BY IInvAlways, <1>1, PTL

(* A flow that is through leaves its notification recorded as delivered.   *)
THEOREM DeliveryIsAlwaysRecorded == Spec => []DeliveryRecorded
<1>1. IInv => DeliveryRecorded
  BY DEF IInv, Delivers
<1> QED
  BY IInvAlways, <1>1, PTL

(* What was read or deleted stays so, unless that met the flow or a job    *)
(* was run twice.                                                          *)
THEOREM SettledAlwaysStays == Spec => SettledStays
<1> DEFINE Stays(n) ==
      stage[n] # "none" /\ stage[n] # "save" =>
        /\ rows[n] = Absent => rows'[n] = Absent
        /\ rows[n] # Absent /\ rows[n].status = "READ" =>
             rows'[n] = Absent \/ rows'[n] = rows[n]
<1>1. ASSUME IInv, [Next]_vars, NEW n \in Ids \ (crossed' \cup stalled')
      PROVE  Stays(n)
  <2> USE NotificationsAssumption
  <2>1. TypeOK /\ InHand /\ Owned /\ Recorded /\ Settles
    BY <1>1 DEF IInv
  <2>2. CASE UNCHANGED rows
    BY <2>2
  <2>3. ASSUME NEW w \in Workers, Write(w) PROVE Stays(n)
    <3>1. n \notin crossed /\ n \notin stalled
      BY <1>1, <2>3 DEF Write, history
    <3>2. CASE run[w].id # n
      BY <2>1, <2>3, <3>2 DEF Write, TypeOK, Run
    <3>3. ASSUME run[w].id = n, stage[n] # "none", stage[n] # "save" PROVE Stays(n)
      <4>1. run[w] # Absent /\ run[w].step = "write"
        BY <2>3 DEF Write
      <4>2. run[w].job = "update"
        BY <2>1, <3>1, <3>3, <4>1 DEF InHand, Owned
      <4>3. rows[n] # Absent /\ rows[n].status # "READ"
        BY <2>1, <3>1, <3>3, <4>1, <4>2 DEF Settles, Met
      <4> QED
        BY <4>3
    <3> QED
      BY <3>2, <3>3
  <2>4. ASSUME NEW m \in Ids, NEW u \in Users, MarkAsRead(m, u) PROVE Stays(n)
    BY <2>1, <2>4 DEF MarkAsRead, TypeOK
  <2>5. CASE CleanupExpired
    BY <2>1, <2>5 DEF CleanupExpired, Overdue, TypeOK
  <2>6. \/ UNCHANGED rows
        \/ \E w \in Workers : Write(w)
        \/ \E m \in Ids, u \in Users : MarkAsRead(m, u)
        \/ CleanupExpired
    BY <1>1 DEF Next, RunStep, ScheduleNotification, Expire, Start, FindById, Load,
      WriteRefused, Send, Finish, DbError, Stall, Connect, Disconnect, vars
  <2> QED
    BY <2>2, <2>3, <2>4, <2>5, <2>6
<1>2. IInv /\ [Next]_vars =>
        [\A n \in Ids \ (crossed' \cup stalled') : Stays(n)]_vars
  BY <1>1
<1> QED
  BY IInvAlways, <1>2, PTL DEF Spec, SettledStays
=============================================================================
