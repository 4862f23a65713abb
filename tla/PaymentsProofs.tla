---------------------------- MODULE PaymentsProofs ----------------------------
(***************************************************************************)
(* Theorems about Payments, for any number of payments, refunds, amounts   *)
(* and overlapping requests, jobs and webhook deliveries.                  *)
(***************************************************************************)
EXTENDS Payments, TLAPS

(* What a worker holds at each step, and that a payment being created      *)
(* belongs to one request until its row is there.                          *)
Finders == {"Capture", "Refund", "View"}
Webhooks == {"Stripe", "PayPal"}
Holding == {"fill", "payBack", "decide", "insert", "load", "commit", "store"}

InHand ==
  \A w \in Workers :
    /\ op[w] = "none" => step[w] = "idle"
    /\ step[w] = "idle" => op[w] = "none"
    /\ op[w] # "Refund" => refund[w] = {}
    /\ step[w] \notin Holding => copy[w] = Absent
    /\ step[w] \in Holding => copy[w] \in Payment
    /\ step[w] = "gateway" => op[w] \in {"Create", "Intent"}
    /\ step[w] \in {"lookup", "read", "fill"} => op[w] \in Finders
    /\ step[w] = "payBack" => op[w] = "Refund"
    /\ step[w] \in {"decide", "load", "commit"} => op[w] \in {"Capture", "Refund"}
    /\ step[w] = "insert" => op[w] \in Creators \cup Webhooks
    /\ step[w] = "find" => op[w] \in Webhooks

Placed ==
  /\ \A p \in Ids : rows[p] = Absent => cache[p] = Absent
  /\ \A w \in Workers :
       /\ step[w] \in Holding /\ op[w] \notin Creators => rows[target[w]] # Absent
       /\ step[w] = "store" => rows[target[w]] # Absent
       /\ op[w] \in Creators /\ step[w] # "store" => rows[target[w]] = Absent
       /\ \A v \in Workers : op[w] \in Creators /\ op[v] \in Creators
                             /\ target[v] = target[w] => v = w

(* Whatever copy of a payment there is has only refunds that were paid.    *)
Paid ==
  /\ RefundsArePaid
  /\ \A p \in Ids : cache[p] # Absent => cache[p].refunds \subseteq paidBack[p]
  /\ \A w \in Workers :
       /\ step[w] \in Holding => copy[w].refunds \subseteq paidBack[target[w]]
       /\ step[w] = "decide" /\ op[w] = "Refund" =>
            refund[w] \subseteq paidBack[target[w]]

(* The copies of one payment that may yet be saved, its entry and its row  *)
(* are of one family, and AUTHORIZED is never written over another status. *)
Families == {{"AUTHORIZED", "CAPTURED", "REFUNDED", "PARTIALLY_REFUNDED"},
             {"COMPLETED", "REFUNDED", "PARTIALLY_REFUNDED"},
             {"PENDING"}, {"FAILED"}, {"NOT_REQUIRED_YET"}, {"CANCELLED"}}
InUse(w, p) == target[w] = p /\ step[w] \in Holding \ {"insert"}
Within(p, F) ==
  /\ rows[p].status \in F
  /\ cache[p] # Absent => cache[p].status \in F
  /\ \A w \in Workers : InUse(w, p) => copy[w].status \in F
Kin == \A p \in Ids : rows[p] # Absent => \E F \in Families : Within(p, F)

Writing == {"load", "commit"}
Early(p) ==
  /\ cache[p] # Absent => cache[p].status = "AUTHORIZED"
  /\ \A w \in Workers : InUse(w, p) =>
       copy[w].status = IF step[w] \in Writing THEN "CAPTURED" ELSE "AUTHORIZED"
Forward ==
  /\ \A p \in Ids : rows[p] # Absent /\ rows[p].status = "AUTHORIZED" => Early(p)
  /\ \A w \in Workers : step[w] \in Writing => copy[w].status # "AUTHORIZED"

IInv == TypeOK /\ InHand /\ Placed /\ Paid /\ Kin /\ Forward

-----------------------------------------------------------------------------
(* The entity: what its methods make of a payment is one.                  *)
LEMMA FreshPayments ==
  /\ NewCod \in Payment /\ NewCod.refunds = {}
  /\ WithIntent \in Payment /\ WithIntent.refunds = {}
  /\ \A a \in Answers : Answered(a) \in Payment /\ Answered(a).refunds = {}
<1>1. NewPayment \in Payment /\ NewPayment.refunds = {}
  BY PaymentsAssumption DEF NewPayment, Payment, Statuses
<1>2. NewCod \in Payment /\ NewCod.refunds = {}
  BY <1>1 DEF NewCod, Payment, Statuses
<1>3. WithIntent \in Payment /\ WithIntent.refunds = {}
  BY <1>1 DEF WithIntent, Payment
<1>4. ASSUME NEW a \in Answers
      PROVE  Answered(a) \in Payment /\ Answered(a).refunds = {}
  <2>1. a = "refused" \/ a \in Statuses
    BY PaymentsAssumption DEF Statuses
  <2>2. CASE a = "refused"
    BY <1>1, <2>2 DEF Answered, Payment, Statuses
  <2>3. CASE a # "refused"
    BY <1>1, <2>1, <2>3 DEF Answered, Payment
  <2> QED
    BY <2>2, <2>3
<1> QED
  BY <1>2, <1>3, <1>4

LEMMA CapturedPayment ==
  ASSUME NEW c \in Payment
  PROVE  /\ Captured(c) \in Payment /\ Captured(c).refunds = c.refunds
         /\ Captured(c).status =
              IF c.status = "AUTHORIZED" THEN "CAPTURED" ELSE c.status
  BY DEF Captured, Payment, Statuses

LEMMA RefundedPayment ==
  ASSUME NEW c \in Payment, NEW r \in Refunds, Refundable(c, r)
  PROVE  /\ WithRefund(c, r) \in Payment
         /\ WithRefund(c, r).refunds = c.refunds \cup {r}
         /\ c.status \in CanBeRefunded
         /\ WithRefund(c, r).status \in {c.status, "REFUNDED", "PARTIALLY_REFUNDED"}
<1> DEFINE total == c.refunded + SizeOf[r]
<1>1. total \in 0..Amount /\ c.status \in CanBeRefunded
  BY PaymentsAssumption DEF Refundable, Payment
<1> DEFINE st == IF total = Amount THEN "REFUNDED"
                 ELSE IF total > 0 THEN "PARTIALLY_REFUNDED" ELSE c.status
<1>2. st \in {c.status, "REFUNDED", "PARTIALLY_REFUNDED"} /\ st \in Statuses
  BY DEF Payment, Statuses
<1>3. WithRefund(c, r) = [c EXCEPT !.refunded = total, !.refunds = c.refunds \cup {r},
                                   !.status = st]
  BY DEF WithRefund, Payment
<1> HIDE DEF total, st
<1>4. WithRefund(c, r) \in Payment
  <2>1. WithRefund(c, r) = [status |-> st, txn |-> c.txn, intent |-> c.intent,
                            refunded |-> total, refunds |-> c.refunds \cup {r}]
    BY <1>3 DEF Payment
  <2>2. c.txn \in BOOLEAN /\ c.intent \in BOOLEAN /\ c.refunds \cup {r} \in SUBSET Refunds
    BY DEF Payment
  <2> QED
    BY <1>1, <1>2, <2>1, <2>2 DEF Payment
<1>5. /\ WithRefund(c, r).refunds = c.refunds \cup {r}
      /\ WithRefund(c, r).status = st
  BY <1>3 DEF Payment
<1> QED
  BY <1>1, <1>2, <1>4, <1>5

LEMMA SettledPayment ==
  ASSUME NEW c \in Payment
  PROVE  /\ [c EXCEPT !.status = "COMPLETED", !.txn = TRUE] \in Payment
         /\ [c EXCEPT !.status = "COMPLETED", !.txn = TRUE].refunds = c.refunds
         /\ [c EXCEPT !.status = "FAILED"] \in Payment
         /\ [c EXCEPT !.status = "FAILED"].refunds = c.refunds
  BY DEF Payment, Statuses

(* A committed update keeps the refunds the row had.                       *)
LEMMA UpdatedPayment ==
  ASSUME TypeOK, NEW w \in Workers, OrphansRefund(w), copy[w] \in Payment,
         rows[target[w]] # Absent
  PROVE  /\ RowAfterUpdate(w) \in Payment
         /\ RowAfterUpdate(w).status = copy[w].status
         /\ rows[target[w]].refunds \subseteq RowAfterUpdate(w).refunds
         /\ RowAfterUpdate(w).refunds \subseteq
              rows[target[w]].refunds \cup copy[w].refunds
<1>1. rows[target[w]] \in Payment
  BY DEF TypeOK
<1> QED
  BY <1>1 DEF RowAfterUpdate, OrphansRefund, Payment

(* What the three steps that use the entity come to.                       *)
LEMMA FoundCopy ==
  ASSUME TypeOK, NEW w \in Workers, FindByIntent(w)
  PROVE  /\ UNCHANGED <<world, heard, disturbed, faults>>
         /\ step[w] = "find"
         /\ \/ Leave(w)
            \/ /\ rows[target[w]] # Absent
               /\ \E c \in Payment : /\ Hold(w, c, "insert")
                                     /\ c.refunds = rows[target[w]].refunds
<1>1. CASE rows[target[w]] = Absent
  BY <1>1 DEF FindByIntent
<1>2. CASE rows[target[w]] # Absent
  <2>1. rows[target[w]] \in Payment
    BY <1>2 DEF TypeOK
  <2> QED
    BY <1>2, <2>1, SettledPayment DEF FindByIntent
<1> QED
  BY <1>1, <1>2

LEMMA FilledEntry ==
  ASSUME InHand, NEW w \in Workers, Fill(w)
  PROVE  /\ UNCHANGED <<rows, intents, paidBack, heard, disturbed, faults>>
         /\ step[w] = "fill" /\ copy[w] \in Payment
         /\ cache' = [cache EXCEPT ![target[w]] = copy[w]]
         /\ \/ Leave(w)
            \/ Hold(w, copy[w], "payBack") /\ op[w] = "Refund"
            \/ Hold(w, copy[w], "decide") /\ op[w] = "Capture"
<1>1. step[w] = "fill" /\ copy[w] \in Payment /\ op[w] \in Finders
  BY DEF Fill, InHand, Holding
<1> QED
  BY <1>1 DEF Fill, Proceed, AfterFind, Finders

LEMMA DecidedCopy ==
  ASSUME TypeOK, InHand, NEW w \in Workers, Decide(w)
  PROVE  /\ UNCHANGED <<world, heard, disturbed, faults>>
         /\ step[w] = "decide" /\ copy[w] \in Payment
         /\ \/ Leave(w)
            \/ \E c \in Payment :
                 /\ Hold(w, c, "load")
                 /\ c.refunds \subseteq copy[w].refunds \cup refund[w]
                 /\ \/ c.status = IF copy[w].status = "AUTHORIZED"
                                    THEN "CAPTURED" ELSE copy[w].status
                    \/ /\ copy[w].status \in CanBeRefunded
                       /\ c.status \in {copy[w].status, "REFUNDED", "PARTIALLY_REFUNDED"}
<1>1. step[w] = "decide" /\ copy[w] \in Payment
  BY DEF Decide, InHand, Holding
<1>2. CASE Hold(w, Captured(copy[w]), "load")
  BY <1>1, <1>2, CapturedPayment DEF Decide
<1>3. ASSUME NEW r \in refund[w],
             IF Refundable(copy[w], r) THEN Hold(w, WithRefund(copy[w], r), "load")
                                       ELSE Leave(w)
      PROVE  \/ Leave(w)
             \/ \E c \in Payment :
                  /\ Hold(w, c, "load")
                  /\ c.refunds \subseteq copy[w].refunds \cup refund[w]
                  /\ copy[w].status \in CanBeRefunded
                  /\ c.status \in {copy[w].status, "REFUNDED", "PARTIALLY_REFUNDED"}
  <2>1. r \in Refunds
    BY <1>3 DEF TypeOK
  <2>2. CASE Refundable(copy[w], r)
    BY <1>1, <1>3, <2>1, <2>2, RefundedPayment
  <2> QED
    BY <1>3, <2>2
<1> QED
  BY <1>1, <1>2, <1>3 DEF Decide

LEMMA CommittedRow ==
  ASSUME TypeOK, InHand, Placed, NEW w \in Workers, CommitUpdate(w)
  PROVE  /\ UNCHANGED <<cache, intents, paidBack, heard, disturbed, faults>>
         /\ step[w] = "commit" /\ copy[w] \in Payment /\ rows[target[w]] \in Payment
         /\ \/ Leave(w) /\ UNCHANGED rows
            \/ \E c \in Payment :
                 /\ rows' = [rows EXCEPT ![target[w]] = c]
                 /\ Goto(w, "store")
                 /\ c.status = copy[w].status
                 /\ rows[target[w]].refunds \subseteq c.refunds
                 /\ c.refunds \subseteq rows[target[w]].refunds \cup copy[w].refunds
<1>1. step[w] = "commit" /\ copy[w] \in Payment /\ rows[target[w]] # Absent
  BY DEF CommitUpdate, InHand, Placed, Holding, Creators
<1>2. rows[target[w]] \in Payment
  BY <1>1 DEF TypeOK
<1> QED
  BY <1>1, <1>2, UpdatedPayment DEF CommitUpdate

(* The requests that start with nothing in their hands.                    *)
Starts(w, o, p, s, rs) ==
  /\ Begin(w, o, p, s, rs)
  /\ rs \subseteq Refunds /\ (o # "Refund" => rs = {})
  /\ \/ o \in {"Create", "Intent"} /\ s = "gateway" /\ Unused(p)
     \/ o \in Finders /\ s = "lookup"
     \/ o \in Webhooks /\ s = "find"

Step == \/ \E w \in Workers, p \in Ids : \/ \E o, s, rs : Starts(w, o, p, s, rs)
                                         \/ RecordCodPayment(w, p)
        \/ \E w \in Workers :
             \/ Authorize(w) \/ CreateIntent(w) \/ RefuseIntent(w)
             \/ Lookup(w) \/ ReadRow(w) \/ Fill(w)
             \/ FindByIntent(w) \/ PayBack(w) \/ Decide(w) \/ Insert(w)
             \/ LoadForUpdate(w) \/ CommitUpdate(w) \/ Store(w) \/ Interrupted(w)
        \/ \E p \in Ids : CacheExpires(p)

LEMMA NextIsStep == Next => Step
<1> SUFFICES ASSUME Next PROVE Step
  OBVIOUS
<1>1. ASSUME NEW w \in Workers, NEW p \in Ids,
             \/ CreatePayment(w, p) \/ CreatePaymentIntent(w, p)
             \/ CapturePayment(w, p) \/ ProcessRefund(w, p) \/ GetPayment(w, p)
             \/ VerifyPayment(w, p) \/ ListPayments(w, p)
             \/ StripeWebhook(w, p) \/ PayPalWebhook(w, p)
      PROVE  \E o, s, rs : Starts(w, o, p, s, rs)
  <2>1. CASE CreatePayment(w, p)
    BY <2>1 DEF CreatePayment, Starts
  <2>2. CASE CreatePaymentIntent(w, p)
    BY <2>2 DEF CreatePaymentIntent, Starts
  <2>3. CASE CapturePayment(w, p)
    BY <2>3 DEF CapturePayment, Starts, Finders
  <2>4. CASE ProcessRefund(w, p)
    <3>1. PICK r \in Refunds : Begin(w, "Refund", p, "lookup", {r})
      BY <2>4 DEF ProcessRefund
    <3> QED
      BY <3>1 DEF Starts, Finders
  <2>5. CASE GetPayment(w, p)
    BY <2>5 DEF GetPayment, Starts, Finders
  <2>6. CASE VerifyPayment(w, p)
    BY <2>6 DEF VerifyPayment, Starts, Finders
  <2>7. CASE ListPayments(w, p)
    BY <2>7 DEF ListPayments, Starts, Finders
  <2>8. CASE StripeWebhook(w, p)
    BY <2>8 DEF StripeWebhook, Starts, Webhooks
  <2>9. CASE PayPalWebhook(w, p)
    BY <2>9 DEF PayPalWebhook, Starts, Webhooks
  <2> QED
    BY <1>1, <2>1, <2>2, <2>3, <2>4, <2>5, <2>6, <2>7, <2>8, <2>9
<1> QED
  BY <1>1 DEF Next, Step

-----------------------------------------------------------------------------
LEMMA InitInv == Init => IInv
<1> SUFFICES ASSUME Init PROVE IInv
  OBVIOUS
<1> USE PaymentsAssumption DEF Init
<1>1. TypeOK
  BY DEF TypeOK, Steps
<1>2. InHand /\ Placed
  BY DEF InHand, Placed, Holding, Creators
<1>3. Paid /\ Kin /\ Forward
  BY DEF Paid, RefundsArePaid, Kin, Forward, Holding, Writing
<1> QED
  BY <1>1, <1>2, <1>3 DEF IInv

(* Types.                                                                  *)
LEMMA TypeStep ==
  TypeOK /\ InHand /\ Placed /\ [Next]_vars => TypeOK'
<1> SUFFICES ASSUME TypeOK, InHand, Placed, [Next]_vars PROVE TypeOK'
  OBVIOUS
<1> USE PaymentsAssumption DEF TypeOK, InHand, Placed, Steps, Operations, Creators,
     Finders, Webhooks, Holding
<1>1. ASSUME NEW w \in Workers, NEW p \in Ids, NEW o, NEW s, NEW rs, Starts(w, o, p, s, rs)
      PROVE  TypeOK'
  BY <1>1 DEF Starts, Begin, Unused, world
<1>2. ASSUME NEW w \in Workers, NEW p \in Ids, RecordCodPayment(w, p) PROVE TypeOK'
  BY <1>2, FreshPayments DEF RecordCodPayment, Unused, world
<1>3. ASSUME NEW w \in Workers, Authorize(w) PROVE TypeOK'
  BY <1>3, FreshPayments DEF Authorize, Hold, world
<1>4. ASSUME NEW w \in Workers, CreateIntent(w) PROVE TypeOK'
  BY <1>4, FreshPayments DEF CreateIntent, Hold, world
<1>5. ASSUME NEW w \in Workers, RefuseIntent(w) PROVE TypeOK'
  BY <1>5 DEF RefuseIntent, Leave, world
<1>6. ASSUME NEW w \in Workers, Lookup(w) PROVE TypeOK'
  <2>1. UNCHANGED <<world, heard, disturbed, faults>> /\ AfterFind(w) \in Steps
    BY <1>6 DEF Lookup, AfterFind
  <2>2. CASE Leave(w)
    BY <2>1, <2>2 DEF Leave, world
  <2>3. CASE cache[target[w]] # Absent /\ Hold(w, cache[target[w]], AfterFind(w))
    BY <2>1, <2>3 DEF Hold, world
  <2>4. CASE Goto(w, "read")
    BY <2>1, <2>4 DEF Goto, world
  <2> QED
    BY <1>6, <2>2, <2>3, <2>4 DEF Lookup, Proceed
<1>7. ASSUME NEW w \in Workers, ReadRow(w) PROVE TypeOK'
  <2>1. UNCHANGED <<world, heard, disturbed, faults>> /\ step[w] = "read"
    BY <1>7 DEF ReadRow
  <2>2. CASE Leave(w)
    BY <2>1, <2>2 DEF Leave, world
  <2>3. CASE rows[target[w]] \in Payment /\ Hold(w, rows[target[w]], "fill")
    BY <1>7, <2>1, <2>3 DEF Hold, world
  <2> QED
    BY <1>7, <2>2, <2>3 DEF ReadRow
<1>8. ASSUME NEW w \in Workers, Fill(w) PROVE TypeOK'
  <2>1. /\ UNCHANGED <<rows, intents, paidBack, heard, disturbed, faults>>
        /\ step[w] = "fill" /\ copy[w] \in Payment
        /\ cache' = [cache EXCEPT ![target[w]] = copy[w]]
    BY <1>8, FilledEntry
  <2>2. CASE Leave(w)
    BY <2>1, <2>2 DEF Leave
  <2>3. CASE Hold(w, copy[w], "payBack") /\ op[w] = "Refund"
    BY <2>1, <2>3 DEF Hold
  <2>4. CASE Hold(w, copy[w], "decide") /\ op[w] = "Capture"
    BY <2>1, <2>4 DEF Hold
  <2> QED
    BY <1>8, FilledEntry, <2>2, <2>3, <2>4
<1>9. ASSUME NEW w \in Workers, FindByIntent(w) PROVE TypeOK'
  <2>1. PICK c \in Payment : \/ Leave(w)
                              \/ /\ rows[target[w]] # Absent
                                 /\ Hold(w, c, "insert")
                                 /\ c.refunds = rows[target[w]].refunds
    BY <1>9, FoundCopy, FreshPayments
  <2>2. step[w] = "find" /\ UNCHANGED <<world, heard, disturbed, faults>>
    BY <1>9, FoundCopy
  <2>3. CASE Leave(w)
    BY <2>2, <2>3 DEF Leave, world
  <2>4. CASE rows[target[w]] # Absent /\ Hold(w, c, "insert") /\ c.refunds = rows[target[w]].refunds
    BY <2>2, <2>4 DEF Hold, world
  <2> QED
    BY <2>1, <2>3, <2>4
<1>10. ASSUME NEW w \in Workers, PayBack(w) PROVE TypeOK'
  <2>1. /\ UNCHANGED <<rows, cache, intents, heard, disturbed, faults>>
        /\ step[w] = "payBack"
    BY <1>10 DEF PayBack
  <2>2. CASE Leave(w) /\ UNCHANGED paidBack
    BY <2>1, <2>2 DEF Leave
  <2>3. CASE /\ Goto(w, "decide")
             /\ paidBack' = [paidBack EXCEPT ![target[w]] = @ \cup refund[w]]
    BY <2>1, <2>3 DEF Goto
  <2> QED
    BY <1>10, <2>2, <2>3 DEF PayBack
<1>11. ASSUME NEW w \in Workers, Decide(w) PROVE TypeOK'
  <2> DEFINE Decided(c) ==
        /\ Hold(w, c, "load")
        /\ c.refunds \subseteq copy[w].refunds \cup refund[w]
        /\ \/ c.status = IF copy[w].status = "AUTHORIZED" THEN "CAPTURED" ELSE copy[w].status
           \/ /\ copy[w].status \in CanBeRefunded
              /\ c.status \in {copy[w].status, "REFUNDED", "PARTIALLY_REFUNDED"}
  <2>1. /\ UNCHANGED <<world, heard, disturbed, faults>>
        /\ step[w] = "decide" /\ copy[w] \in Payment
        /\ Leave(w) \/ \E c \in Payment : Decided(c)
    BY <1>11, DecidedCopy
  <2>2. CASE Leave(w)
    BY <2>1, <2>2 DEF Leave, world
  <2>3. ASSUME NEW c \in Payment, Decided(c) PROVE TypeOK'
    BY <2>1, <2>3 DEF Hold, world, CanBeRefunded, Families
  <2> QED
    BY <2>1, <2>2, <2>3
<1>12. ASSUME NEW w \in Workers, Insert(w) PROVE TypeOK'
  <2>1. UNCHANGED <<cache, intents, paidBack, disturbed, faults>> /\ step[w] = "insert"
    BY <1>12 DEF Insert
  <2>2. CASE Leave(w) /\ UNCHANGED rows
    BY <1>12, <2>1, <2>2 DEF Leave, Insert
  <2>3. CASE /\ rows[target[w]] = Absent /\ Goto(w, "store")
             /\ rows' = [rows EXCEPT ![target[w]] = copy[w]]
    BY <1>12, <2>1, <2>3 DEF Goto, Insert
  <2> QED
    BY <1>12, <2>2, <2>3 DEF Insert, Inserted
<1>13. ASSUME NEW w \in Workers, LoadForUpdate(w) PROVE TypeOK'
  <2>1. rows[target[w]] \in Payment
    BY <1>13 DEF LoadForUpdate
  <2>2. rows[target[w]].refunds \subseteq Refunds
    BY <2>1 DEF Payment
  <2> QED
    BY <1>13, <2>2 DEF LoadForUpdate, world
<1>14. ASSUME NEW w \in Workers, CommitUpdate(w) PROVE TypeOK'
  <2> DEFINE Committed(c) ==
        /\ rows' = [rows EXCEPT ![target[w]] = c]
        /\ Goto(w, "store")
        /\ c.status = copy[w].status
        /\ rows[target[w]].refunds \subseteq c.refunds
        /\ c.refunds \subseteq rows[target[w]].refunds \cup copy[w].refunds
  <2>1. /\ UNCHANGED <<cache, intents, paidBack, heard, disturbed, faults>>
        /\ step[w] = "commit" /\ copy[w] \in Payment /\ rows[target[w]] \in Payment
        /\ (Leave(w) /\ UNCHANGED rows) \/ \E c \in Payment : Committed(c)
    BY <1>14, CommittedRow
  <2>2. CASE Leave(w) /\ UNCHANGED rows
    BY <2>1, <2>2 DEF Leave
  <2>3. ASSUME NEW c \in Payment, Committed(c) PROVE TypeOK'
    BY <2>1, <2>3 DEF Goto
  <2> QED
    BY <2>1, <2>2, <2>3
<1>15. ASSUME NEW w \in Workers, Store(w) PROVE TypeOK'
  BY <1>15 DEF Store, Leave, world
<1>16. ASSUME NEW w \in Workers, Interrupted(w) PROVE TypeOK'
  BY <1>16 DEF Interrupted, Leave, world
<1>17. ASSUME NEW p \in Ids, CacheExpires(p) PROVE TypeOK'
  BY <1>17 DEF CacheExpires, worker
<1>18. CASE UNCHANGED vars
  BY <1>18 DEF vars
<1> QED
  BY NextIsStep, <1>1, <1>2, <1>3, <1>4, <1>5, <1>6, <1>7, <1>8, <1>9,
     <1>10, <1>11, <1>12, <1>13, <1>14, <1>15, <1>16, <1>17, <1>18 DEF Step

(* A worker takes a copy, and drops it at the end.                         *)
LEMMA InHandStep ==
  TypeOK /\ InHand /\ Placed /\ [Next]_vars => InHand'
<1> SUFFICES ASSUME TypeOK, InHand, Placed, [Next]_vars PROVE InHand'
  OBVIOUS
<1> USE PaymentsAssumption DEF TypeOK, InHand, Placed, Operations, Creators, Finders,
     Webhooks, Holding
<1>1. ASSUME NEW w \in Workers, NEW p \in Ids, NEW o, NEW s, NEW rs, Starts(w, o, p, s, rs)
      PROVE  InHand'
  BY <1>1 DEF Starts, Begin, Unused, world
<1>2. ASSUME NEW w \in Workers, NEW p \in Ids, RecordCodPayment(w, p) PROVE InHand'
  BY <1>2, FreshPayments DEF RecordCodPayment, Unused, world
<1>3. ASSUME NEW w \in Workers, Authorize(w) PROVE InHand'
  BY <1>3, FreshPayments DEF Authorize, Hold, world
<1>4. ASSUME NEW w \in Workers, CreateIntent(w) PROVE InHand'
  BY <1>4, FreshPayments DEF CreateIntent, Hold, world
<1>5. ASSUME NEW w \in Workers, RefuseIntent(w) PROVE InHand'
  BY <1>5 DEF RefuseIntent, Leave, world
<1>6. ASSUME NEW w \in Workers, Lookup(w) PROVE InHand'
  BY <1>6 DEF Lookup, Proceed, AfterFind, Hold, Goto, Leave, world
<1>7. ASSUME NEW w \in Workers, ReadRow(w) PROVE InHand'
  <2>1. UNCHANGED <<world, heard, disturbed, faults>> /\ step[w] = "read"
    BY <1>7 DEF ReadRow
  <2>2. CASE Leave(w)
    BY <2>1, <2>2 DEF Leave, world
  <2>3. CASE rows[target[w]] \in Payment /\ Hold(w, rows[target[w]], "fill")
    BY <1>7, <2>1, <2>3 DEF Hold, world
  <2> QED
    BY <1>7, <2>2, <2>3 DEF ReadRow
<1>8. ASSUME NEW w \in Workers, Fill(w) PROVE InHand'
  <2>1. /\ UNCHANGED <<rows, intents, paidBack, heard, disturbed, faults>>
        /\ step[w] = "fill" /\ copy[w] \in Payment
        /\ cache' = [cache EXCEPT ![target[w]] = copy[w]]
    BY <1>8, FilledEntry
  <2>2. CASE Leave(w)
    BY <2>1, <2>2 DEF Leave
  <2>3. CASE Hold(w, copy[w], "payBack") /\ op[w] = "Refund"
    BY <2>1, <2>3 DEF Hold
  <2>4. CASE Hold(w, copy[w], "decide") /\ op[w] = "Capture"
    BY <2>1, <2>4 DEF Hold
  <2> QED
    BY <1>8, FilledEntry, <2>2, <2>3, <2>4
<1>9. ASSUME NEW w \in Workers, FindByIntent(w) PROVE InHand'
  <2>1. PICK c \in Payment : \/ Leave(w)
                              \/ /\ rows[target[w]] # Absent
                                 /\ Hold(w, c, "insert")
                                 /\ c.refunds = rows[target[w]].refunds
    BY <1>9, FoundCopy, FreshPayments
  <2>2. step[w] = "find" /\ UNCHANGED <<world, heard, disturbed, faults>>
    BY <1>9, FoundCopy
  <2>3. CASE Leave(w)
    BY <2>2, <2>3 DEF Leave, world
  <2>4. CASE rows[target[w]] # Absent /\ Hold(w, c, "insert") /\ c.refunds = rows[target[w]].refunds
    BY <2>2, <2>4 DEF Hold, world
  <2> QED
    BY <2>1, <2>3, <2>4
<1>10. ASSUME NEW w \in Workers, PayBack(w) PROVE InHand'
  <2>1. /\ UNCHANGED <<rows, cache, intents, heard, disturbed, faults>>
        /\ step[w] = "payBack"
    BY <1>10 DEF PayBack
  <2>2. CASE Leave(w) /\ UNCHANGED paidBack
    BY <2>1, <2>2 DEF Leave
  <2>3. CASE /\ Goto(w, "decide")
             /\ paidBack' = [paidBack EXCEPT ![target[w]] = @ \cup refund[w]]
    BY <2>1, <2>3 DEF Goto
  <2> QED
    BY <1>10, <2>2, <2>3 DEF PayBack
<1>11. ASSUME NEW w \in Workers, Decide(w) PROVE InHand'
  <2> DEFINE Decided(c) ==
        /\ Hold(w, c, "load")
        /\ c.refunds \subseteq copy[w].refunds \cup refund[w]
        /\ \/ c.status = IF copy[w].status = "AUTHORIZED" THEN "CAPTURED" ELSE copy[w].status
           \/ /\ copy[w].status \in CanBeRefunded
              /\ c.status \in {copy[w].status, "REFUNDED", "PARTIALLY_REFUNDED"}
  <2>1. /\ UNCHANGED <<world, heard, disturbed, faults>>
        /\ step[w] = "decide" /\ copy[w] \in Payment
        /\ Leave(w) \/ \E c \in Payment : Decided(c)
    BY <1>11, DecidedCopy
  <2>2. CASE Leave(w)
    BY <2>1, <2>2 DEF Leave, world
  <2>3. ASSUME NEW c \in Payment, Decided(c) PROVE InHand'
    BY <2>1, <2>3 DEF Hold, world, CanBeRefunded, Families
  <2> QED
    BY <2>1, <2>2, <2>3
<1>12. ASSUME NEW w \in Workers, Insert(w) PROVE InHand'
  <2>1. UNCHANGED <<cache, intents, paidBack, disturbed, faults>> /\ step[w] = "insert"
    BY <1>12 DEF Insert
  <2>2. CASE Leave(w) /\ UNCHANGED rows
    BY <1>12, <2>1, <2>2 DEF Leave, Insert
  <2>3. CASE /\ rows[target[w]] = Absent /\ Goto(w, "store")
             /\ rows' = [rows EXCEPT ![target[w]] = copy[w]]
    BY <1>12, <2>1, <2>3 DEF Goto, Insert
  <2> QED
    BY <1>12, <2>2, <2>3 DEF Insert, Inserted
<1>13. ASSUME NEW w \in Workers, LoadForUpdate(w) PROVE InHand'
  BY <1>13 DEF LoadForUpdate, world
<1>14. ASSUME NEW w \in Workers, CommitUpdate(w) PROVE InHand'
  <2> DEFINE Committed(c) ==
        /\ rows' = [rows EXCEPT ![target[w]] = c]
        /\ Goto(w, "store")
        /\ c.status = copy[w].status
        /\ rows[target[w]].refunds \subseteq c.refunds
        /\ c.refunds \subseteq rows[target[w]].refunds \cup copy[w].refunds
  <2>1. /\ UNCHANGED <<cache, intents, paidBack, heard, disturbed, faults>>
        /\ step[w] = "commit" /\ copy[w] \in Payment /\ rows[target[w]] \in Payment
        /\ (Leave(w) /\ UNCHANGED rows) \/ \E c \in Payment : Committed(c)
    BY <1>14, CommittedRow
  <2>2. CASE Leave(w) /\ UNCHANGED rows
    BY <2>1, <2>2 DEF Leave
  <2>3. ASSUME NEW c \in Payment, Committed(c) PROVE InHand'
    BY <2>1, <2>3 DEF Goto
  <2> QED
    BY <2>1, <2>2, <2>3
<1>15. ASSUME NEW w \in Workers, Store(w) PROVE InHand'
  BY <1>15 DEF Store, Leave, world
<1>16. ASSUME NEW w \in Workers, Interrupted(w) PROVE InHand'
  BY <1>16 DEF Interrupted, Leave, world
<1>17. ASSUME NEW p \in Ids, CacheExpires(p) PROVE InHand'
  BY <1>17 DEF CacheExpires, worker
<1>18. CASE UNCHANGED vars
  BY <1>18 DEF vars
<1> QED
  BY NextIsStep, <1>1, <1>2, <1>3, <1>4, <1>5, <1>6, <1>7, <1>8, <1>9,
     <1>10, <1>11, <1>12, <1>13, <1>14, <1>15, <1>16, <1>17, <1>18 DEF Step

(* Rows are never deleted, and entries are made of rows.                   *)
LEMMA PlacedStep ==
  TypeOK /\ InHand /\ Placed /\ [Next]_vars => Placed'
<1> SUFFICES ASSUME TypeOK, InHand, Placed, [Next]_vars PROVE Placed'
  OBVIOUS
<1> USE PaymentsAssumption DEF TypeOK, InHand, Placed, Operations, Creators, Finders,
     Webhooks, Holding
<1>1. ASSUME NEW w \in Workers, NEW p \in Ids, NEW o, NEW s, NEW rs, Starts(w, o, p, s, rs)
      PROVE  Placed'
  BY <1>1 DEF Starts, Begin, Unused, world
<1>2. ASSUME NEW w \in Workers, NEW p \in Ids, RecordCodPayment(w, p) PROVE Placed'
  BY <1>2, FreshPayments DEF RecordCodPayment, Unused, world
<1>3. ASSUME NEW w \in Workers, Authorize(w) PROVE Placed'
  BY <1>3, FreshPayments DEF Authorize, Hold, world
<1>4. ASSUME NEW w \in Workers, CreateIntent(w) PROVE Placed'
  BY <1>4, FreshPayments DEF CreateIntent, Hold, world
<1>5. ASSUME NEW w \in Workers, RefuseIntent(w) PROVE Placed'
  BY <1>5 DEF RefuseIntent, Leave, world
<1>6. ASSUME NEW w \in Workers, Lookup(w) PROVE Placed'
  BY <1>6 DEF Lookup, Proceed, AfterFind, Hold, Goto, Leave, world
<1>7. ASSUME NEW w \in Workers, ReadRow(w) PROVE Placed'
  <2>1. UNCHANGED <<world, heard, disturbed, faults>> /\ step[w] = "read"
    BY <1>7 DEF ReadRow
  <2>2. CASE Leave(w)
    BY <2>1, <2>2 DEF Leave, world
  <2>3. CASE rows[target[w]] \in Payment /\ Hold(w, rows[target[w]], "fill")
    BY <1>7, <2>1, <2>3 DEF Hold, world
  <2> QED
    BY <1>7, <2>2, <2>3 DEF ReadRow
<1>8. ASSUME NEW w \in Workers, Fill(w) PROVE Placed'
  <2>1. /\ UNCHANGED <<rows, intents, paidBack, heard, disturbed, faults>>
        /\ step[w] = "fill" /\ copy[w] \in Payment
        /\ cache' = [cache EXCEPT ![target[w]] = copy[w]]
    BY <1>8, FilledEntry
  <2>2. CASE Leave(w)
    BY <2>1, <2>2 DEF Leave
  <2>3. CASE Hold(w, copy[w], "payBack") /\ op[w] = "Refund"
    BY <2>1, <2>3 DEF Hold
  <2>4. CASE Hold(w, copy[w], "decide") /\ op[w] = "Capture"
    BY <2>1, <2>4 DEF Hold
  <2> QED
    BY <1>8, FilledEntry, <2>2, <2>3, <2>4
<1>9. ASSUME NEW w \in Workers, FindByIntent(w) PROVE Placed'
  <2>1. PICK c \in Payment : \/ Leave(w)
                              \/ /\ rows[target[w]] # Absent
                                 /\ Hold(w, c, "insert")
                                 /\ c.refunds = rows[target[w]].refunds
    BY <1>9, FoundCopy, FreshPayments
  <2>2. step[w] = "find" /\ UNCHANGED <<world, heard, disturbed, faults>>
    BY <1>9, FoundCopy
  <2>3. CASE Leave(w)
    BY <2>2, <2>3 DEF Leave, world
  <2>4. CASE rows[target[w]] # Absent /\ Hold(w, c, "insert") /\ c.refunds = rows[target[w]].refunds
    BY <2>2, <2>4 DEF Hold, world
  <2> QED
    BY <2>1, <2>3, <2>4
<1>10. ASSUME NEW w \in Workers, PayBack(w) PROVE Placed'
  <2>1. /\ UNCHANGED <<rows, cache, intents, heard, disturbed, faults>>
        /\ step[w] = "payBack"
    BY <1>10 DEF PayBack
  <2>2. CASE Leave(w) /\ UNCHANGED paidBack
    BY <2>1, <2>2 DEF Leave
  <2>3. CASE /\ Goto(w, "decide")
             /\ paidBack' = [paidBack EXCEPT ![target[w]] = @ \cup refund[w]]
    BY <2>1, <2>3 DEF Goto
  <2> QED
    BY <1>10, <2>2, <2>3 DEF PayBack
<1>11. ASSUME NEW w \in Workers, Decide(w) PROVE Placed'
  <2> DEFINE Decided(c) ==
        /\ Hold(w, c, "load")
        /\ c.refunds \subseteq copy[w].refunds \cup refund[w]
        /\ \/ c.status = IF copy[w].status = "AUTHORIZED" THEN "CAPTURED" ELSE copy[w].status
           \/ /\ copy[w].status \in CanBeRefunded
              /\ c.status \in {copy[w].status, "REFUNDED", "PARTIALLY_REFUNDED"}
  <2>1. /\ UNCHANGED <<world, heard, disturbed, faults>>
        /\ step[w] = "decide" /\ copy[w] \in Payment
        /\ Leave(w) \/ \E c \in Payment : Decided(c)
    BY <1>11, DecidedCopy
  <2>2. CASE Leave(w)
    BY <2>1, <2>2 DEF Leave, world
  <2>3. ASSUME NEW c \in Payment, Decided(c) PROVE Placed'
    BY <2>1, <2>3 DEF Hold, world, CanBeRefunded, Families
  <2> QED
    BY <2>1, <2>2, <2>3
<1>12. ASSUME NEW w \in Workers, Insert(w) PROVE Placed'
  <2>1. UNCHANGED <<cache, intents, paidBack, disturbed, faults>> /\ step[w] = "insert"
    BY <1>12 DEF Insert
  <2>2. CASE Leave(w) /\ UNCHANGED rows
    BY <1>12, <2>1, <2>2 DEF Leave, Insert
  <2>3. CASE /\ rows[target[w]] = Absent /\ Goto(w, "store")
             /\ rows' = [rows EXCEPT ![target[w]] = copy[w]]
    BY <1>12, <2>1, <2>3 DEF Goto, Insert
  <2> QED
    BY <1>12, <2>2, <2>3 DEF Insert, Inserted
<1>13. ASSUME NEW w \in Workers, LoadForUpdate(w) PROVE Placed'
  BY <1>13 DEF LoadForUpdate, world
<1>14. ASSUME NEW w \in Workers, CommitUpdate(w) PROVE Placed'
  <2> DEFINE Committed(c) ==
        /\ rows' = [rows EXCEPT ![target[w]] = c]
        /\ Goto(w, "store")
        /\ c.status = copy[w].status
        /\ rows[target[w]].refunds \subseteq c.refunds
        /\ c.refunds \subseteq rows[target[w]].refunds \cup copy[w].refunds
  <2>1. /\ UNCHANGED <<cache, intents, paidBack, heard, disturbed, faults>>
        /\ step[w] = "commit" /\ copy[w] \in Payment /\ rows[target[w]] \in Payment
        /\ (Leave(w) /\ UNCHANGED rows) \/ \E c \in Payment : Committed(c)
    BY <1>14, CommittedRow
  <2>2. CASE Leave(w) /\ UNCHANGED rows
    BY <2>1, <2>2 DEF Leave
  <2>3. ASSUME NEW c \in Payment, Committed(c) PROVE Placed'
    BY <2>1, <2>3 DEF Goto
  <2> QED
    BY <2>1, <2>2, <2>3
<1>15. ASSUME NEW w \in Workers, Store(w) PROVE Placed'
  BY <1>15 DEF Store, Leave, world
<1>16. ASSUME NEW w \in Workers, Interrupted(w) PROVE Placed'
  BY <1>16 DEF Interrupted, Leave, world
<1>17. ASSUME NEW p \in Ids, CacheExpires(p) PROVE Placed'
  BY <1>17 DEF CacheExpires, worker
<1>18. CASE UNCHANGED vars
  BY <1>18 DEF vars
<1> QED
  BY NextIsStep, <1>1, <1>2, <1>3, <1>4, <1>5, <1>6, <1>7, <1>8, <1>9,
     <1>10, <1>11, <1>12, <1>13, <1>14, <1>15, <1>16, <1>17, <1>18 DEF Step

(* A refund is added to a copy after it was paid.                          *)
LEMMA PaidStep ==
  TypeOK /\ InHand /\ Placed /\ Paid /\ [Next]_vars => Paid'
<1> SUFFICES ASSUME TypeOK, InHand, Placed, Paid, [Next]_vars PROVE Paid'
  OBVIOUS
<1> USE PaymentsAssumption DEF TypeOK, InHand, Placed, Paid, RefundsArePaid, Operations,
     Creators, Finders, Webhooks, Holding
<1>1. ASSUME NEW w \in Workers, NEW p \in Ids, NEW o, NEW s, NEW rs, Starts(w, o, p, s, rs)
      PROVE  Paid'
  BY <1>1 DEF Starts, Begin, Unused, world
<1>2. ASSUME NEW w \in Workers, NEW p \in Ids, RecordCodPayment(w, p) PROVE Paid'
  BY <1>2, FreshPayments DEF RecordCodPayment, Unused, world
<1>3. ASSUME NEW w \in Workers, Authorize(w) PROVE Paid'
  BY <1>3, FreshPayments DEF Authorize, Hold, world
<1>4. ASSUME NEW w \in Workers, CreateIntent(w) PROVE Paid'
  BY <1>4, FreshPayments DEF CreateIntent, Hold, world
<1>5. ASSUME NEW w \in Workers, RefuseIntent(w) PROVE Paid'
  BY <1>5 DEF RefuseIntent, Leave, world
<1>6. ASSUME NEW w \in Workers, Lookup(w) PROVE Paid'
  BY <1>6 DEF Lookup, Proceed, AfterFind, Hold, Goto, Leave, world
<1>7. ASSUME NEW w \in Workers, ReadRow(w) PROVE Paid'
  <2>1. UNCHANGED <<world, heard, disturbed, faults>> /\ step[w] = "read"
    BY <1>7 DEF ReadRow
  <2>2. CASE Leave(w)
    BY <2>1, <2>2 DEF Leave, world
  <2>3. CASE rows[target[w]] \in Payment /\ Hold(w, rows[target[w]], "fill")
    BY <1>7, <2>1, <2>3 DEF Hold, world
  <2> QED
    BY <1>7, <2>2, <2>3 DEF ReadRow
<1>8. ASSUME NEW w \in Workers, Fill(w) PROVE Paid'
  <2>1. /\ UNCHANGED <<rows, intents, paidBack, heard, disturbed, faults>>
        /\ step[w] = "fill" /\ copy[w] \in Payment
        /\ cache' = [cache EXCEPT ![target[w]] = copy[w]]
    BY <1>8, FilledEntry
  <2>2. CASE Leave(w)
    BY <2>1, <2>2 DEF Leave
  <2>3. CASE Hold(w, copy[w], "payBack") /\ op[w] = "Refund"
    BY <2>1, <2>3 DEF Hold
  <2>4. CASE Hold(w, copy[w], "decide") /\ op[w] = "Capture"
    BY <2>1, <2>4 DEF Hold
  <2> QED
    BY <1>8, FilledEntry, <2>2, <2>3, <2>4
<1>9. ASSUME NEW w \in Workers, FindByIntent(w) PROVE Paid'
  <2>1. PICK c \in Payment : \/ Leave(w)
                              \/ /\ rows[target[w]] # Absent
                                 /\ Hold(w, c, "insert")
                                 /\ c.refunds = rows[target[w]].refunds
    BY <1>9, FoundCopy, FreshPayments
  <2>2. step[w] = "find" /\ UNCHANGED <<world, heard, disturbed, faults>>
    BY <1>9, FoundCopy
  <2>3. CASE Leave(w)
    BY <2>2, <2>3 DEF Leave, world
  <2>4. CASE rows[target[w]] # Absent /\ Hold(w, c, "insert") /\ c.refunds = rows[target[w]].refunds
    BY <2>2, <2>4 DEF Hold, world
  <2> QED
    BY <2>1, <2>3, <2>4
<1>10. ASSUME NEW w \in Workers, PayBack(w) PROVE Paid'
  <2>1. CASE Leave(w) /\ UNCHANGED paidBack
    BY <1>10, <2>1 DEF PayBack, Leave
  <2>2. CASE /\ paidBack' = [paidBack EXCEPT ![target[w]] = paidBack[target[w]] \cup refund[w]]
             /\ Goto(w, "decide")
    <3>0. target[w] \in Ids /\ DOMAIN paidBack = Ids
      OBVIOUS
    <3>1. \A p \in Ids : paidBack[p] \subseteq paidBack'[p]
      BY ONLY <2>2, <3>0
    <3>2. refund[w] \subseteq paidBack'[target[w]]
      BY ONLY <2>2, <3>0
    <3>3. step' = [step EXCEPT ![w] = "decide"] /\ step[w] = "payBack"
          /\ UNCHANGED <<rows, cache, op, target, copy, refund>>
      BY <1>10, <2>2 DEF PayBack, Goto
    <3>4. RefundsArePaid'
      BY <3>1, <3>3
    <3> QED
      BY <3>1, <3>2, <3>3, <3>4
  <2>3. \/ Leave(w) /\ UNCHANGED paidBack
        \/ /\ paidBack' = [paidBack EXCEPT ![target[w]] = paidBack[target[w]] \cup refund[w]]
           /\ Goto(w, "decide")
    BY ONLY <1>10 DEF PayBack
  <2> QED
    BY ONLY <2>1, <2>2, <2>3
<1>11. ASSUME NEW w \in Workers, Decide(w) PROVE Paid'
  <2> DEFINE Decided(c) ==
        /\ Hold(w, c, "load")
        /\ c.refunds \subseteq copy[w].refunds \cup refund[w]
        /\ \/ c.status = IF copy[w].status = "AUTHORIZED" THEN "CAPTURED" ELSE copy[w].status
           \/ /\ copy[w].status \in CanBeRefunded
              /\ c.status \in {copy[w].status, "REFUNDED", "PARTIALLY_REFUNDED"}
  <2>1. /\ UNCHANGED <<world, heard, disturbed, faults>>
        /\ step[w] = "decide" /\ copy[w] \in Payment
        /\ Leave(w) \/ \E c \in Payment : Decided(c)
    BY <1>11, DecidedCopy
  <2>2. CASE Leave(w)
    BY <2>1, <2>2 DEF Leave, world
  <2>3. ASSUME NEW c \in Payment, Decided(c) PROVE Paid'
    BY <2>1, <2>3 DEF Hold, world, CanBeRefunded, Families
  <2> QED
    BY <2>1, <2>2, <2>3
<1>12. ASSUME NEW w \in Workers, Insert(w) PROVE Paid'
  <2>1. UNCHANGED <<cache, intents, paidBack, disturbed, faults>> /\ step[w] = "insert"
    BY <1>12 DEF Insert
  <2>2. CASE Leave(w) /\ UNCHANGED rows
    BY <1>12, <2>1, <2>2 DEF Leave, Insert
  <2>3. CASE /\ rows[target[w]] = Absent /\ Goto(w, "store")
             /\ rows' = [rows EXCEPT ![target[w]] = copy[w]]
    BY <1>12, <2>1, <2>3 DEF Goto, Insert
  <2> QED
    BY <1>12, <2>2, <2>3 DEF Insert, Inserted
<1>13. ASSUME NEW w \in Workers, LoadForUpdate(w) PROVE Paid'
  BY <1>13 DEF LoadForUpdate, world
<1>14. ASSUME NEW w \in Workers, CommitUpdate(w) PROVE Paid'
  <2> DEFINE Committed(c) ==
        /\ rows' = [rows EXCEPT ![target[w]] = c]
        /\ Goto(w, "store")
        /\ c.status = copy[w].status
        /\ rows[target[w]].refunds \subseteq c.refunds
        /\ c.refunds \subseteq rows[target[w]].refunds \cup copy[w].refunds
  <2>1. /\ UNCHANGED <<cache, intents, paidBack, heard, disturbed, faults>>
        /\ step[w] = "commit" /\ copy[w] \in Payment /\ rows[target[w]] \in Payment
        /\ (Leave(w) /\ UNCHANGED rows) \/ \E c \in Payment : Committed(c)
    BY <1>14, CommittedRow
  <2>2. CASE Leave(w) /\ UNCHANGED rows
    BY <2>1, <2>2 DEF Leave
  <2>3. ASSUME NEW c \in Payment, Committed(c) PROVE Paid'
    BY <2>1, <2>3 DEF Goto
  <2> QED
    BY <2>1, <2>2, <2>3
<1>15. ASSUME NEW w \in Workers, Store(w) PROVE Paid'
  BY <1>15 DEF Store, Leave, world
<1>16. ASSUME NEW w \in Workers, Interrupted(w) PROVE Paid'
  BY <1>16 DEF Interrupted, Leave, world
<1>17. ASSUME NEW p \in Ids, CacheExpires(p) PROVE Paid'
  BY <1>17 DEF CacheExpires, worker
<1>18. CASE UNCHANGED vars
  BY <1>18 DEF vars
<1> QED
  BY NextIsStep, <1>1, <1>2, <1>3, <1>4, <1>5, <1>6, <1>7, <1>8, <1>9,
     <1>10, <1>11, <1>12, <1>13, <1>14, <1>15, <1>16, <1>17, <1>18 DEF Step

(* No method of the entity leaves the family of its payment.               *)
LEMMA KinStep ==
  TypeOK /\ InHand /\ Placed /\ Kin /\ [Next]_vars => Kin'
<1> SUFFICES ASSUME TypeOK, InHand, Placed, Kin, [Next]_vars PROVE Kin'
  OBVIOUS
<1> USE PaymentsAssumption DEF TypeOK, InHand, Placed, Kin, Within, InUse, Operations,
     Creators, Finders, Webhooks, Holding
<1>1. ASSUME NEW w \in Workers, NEW p \in Ids, NEW o, NEW s, NEW rs, Starts(w, o, p, s, rs)
      PROVE  Kin'
  BY <1>1 DEF Starts, Begin, Unused, world
<1>2. ASSUME NEW w \in Workers, NEW p \in Ids, RecordCodPayment(w, p) PROVE Kin'
  BY <1>2, FreshPayments DEF RecordCodPayment, Unused, world
<1>3. ASSUME NEW w \in Workers, Authorize(w) PROVE Kin'
  BY <1>3, FreshPayments DEF Authorize, Hold, world
<1>4. ASSUME NEW w \in Workers, CreateIntent(w) PROVE Kin'
  BY <1>4, FreshPayments DEF CreateIntent, Hold, world
<1>5. ASSUME NEW w \in Workers, RefuseIntent(w) PROVE Kin'
  BY <1>5 DEF RefuseIntent, Leave, world
<1>6. ASSUME NEW w \in Workers, Lookup(w) PROVE Kin'
  BY <1>6 DEF Lookup, Proceed, AfterFind, Hold, Goto, Leave, world
<1>7. ASSUME NEW w \in Workers, ReadRow(w) PROVE Kin'
  <2>1. UNCHANGED <<world, heard, disturbed, faults>> /\ step[w] = "read"
    BY <1>7 DEF ReadRow
  <2>2. CASE Leave(w)
    BY <2>1, <2>2 DEF Leave, world
  <2>3. CASE rows[target[w]] \in Payment /\ Hold(w, rows[target[w]], "fill")
    BY <1>7, <2>1, <2>3 DEF Hold, world
  <2> QED
    BY <1>7, <2>2, <2>3 DEF ReadRow
<1>8. ASSUME NEW w \in Workers, Fill(w) PROVE Kin'
  <2>1. /\ UNCHANGED <<rows, intents, paidBack, heard, disturbed, faults>>
        /\ step[w] = "fill" /\ copy[w] \in Payment
        /\ cache' = [cache EXCEPT ![target[w]] = copy[w]]
    BY <1>8, FilledEntry
  <2>2. CASE Leave(w)
    BY <2>1, <2>2 DEF Leave
  <2>3. CASE Hold(w, copy[w], "payBack") /\ op[w] = "Refund"
    BY <2>1, <2>3 DEF Hold
  <2>4. CASE Hold(w, copy[w], "decide") /\ op[w] = "Capture"
    BY <2>1, <2>4 DEF Hold
  <2> QED
    BY <1>8, FilledEntry, <2>2, <2>3, <2>4
<1>9. ASSUME NEW w \in Workers, FindByIntent(w) PROVE Kin'
  <2>1. PICK c \in Payment : \/ Leave(w)
                              \/ /\ rows[target[w]] # Absent
                                 /\ Hold(w, c, "insert")
                                 /\ c.refunds = rows[target[w]].refunds
    BY <1>9, FoundCopy, FreshPayments
  <2>2. step[w] = "find" /\ UNCHANGED <<world, heard, disturbed, faults>>
    BY <1>9, FoundCopy
  <2>3. CASE Leave(w)
    BY <2>2, <2>3 DEF Leave, world
  <2>4. CASE rows[target[w]] # Absent /\ Hold(w, c, "insert") /\ c.refunds = rows[target[w]].refunds
    BY <2>2, <2>4 DEF Hold, world
  <2> QED
    BY <2>1, <2>3, <2>4
<1>10. ASSUME NEW w \in Workers, PayBack(w) PROVE Kin'
  <2>1. /\ UNCHANGED <<rows, cache, intents, heard, disturbed, faults>>
        /\ step[w] = "payBack"
    BY <1>10 DEF PayBack
  <2>2. CASE Leave(w) /\ UNCHANGED paidBack
    BY <2>1, <2>2 DEF Leave
  <2>3. CASE /\ Goto(w, "decide")
             /\ paidBack' = [paidBack EXCEPT ![target[w]] = @ \cup refund[w]]
    BY <2>1, <2>3 DEF Goto
  <2> QED
    BY <1>10, <2>2, <2>3 DEF PayBack
<1>11. ASSUME NEW w \in Workers, Decide(w) PROVE Kin'
  <2> DEFINE Decided(c) ==
        /\ Hold(w, c, "load")
        /\ c.refunds \subseteq copy[w].refunds \cup refund[w]
        /\ \/ c.status = IF copy[w].status = "AUTHORIZED" THEN "CAPTURED" ELSE copy[w].status
           \/ /\ copy[w].status \in CanBeRefunded
              /\ c.status \in {copy[w].status, "REFUNDED", "PARTIALLY_REFUNDED"}
  <2>1. /\ UNCHANGED <<world, heard, disturbed, faults>>
        /\ step[w] = "decide" /\ copy[w] \in Payment
        /\ Leave(w) \/ \E c \in Payment : Decided(c)
    BY <1>11, DecidedCopy
  <2>2. CASE Leave(w)
    BY <2>1, <2>2 DEF Leave, world
  <2>3. ASSUME NEW c \in Payment, Decided(c) PROVE Kin'
    BY <2>1, <2>3 DEF Hold, world, CanBeRefunded, Families
  <2> QED
    BY <2>1, <2>2, <2>3
<1>12. ASSUME NEW w \in Workers, Insert(w) PROVE Kin'
  <2>1. step[w] = "insert" /\ copy[w] \in Payment /\ UNCHANGED cache
    BY <1>12 DEF Insert
  <2>2. CASE rows[target[w]] # Absent
    BY <1>12, <2>1, <2>2 DEF Insert, Inserted, Leave
  <2>3. CASE rows[target[w]] = Absent
    <3>1. /\ rows' = [rows EXCEPT ![target[w]] = copy[w]]
          /\ step' = [step EXCEPT ![w] = "store"]
          /\ UNCHANGED <<target, copy>>
      BY <1>12, <2>3 DEF Insert, Inserted, Goto
    <3>2. cache[target[w]] = Absent /\ \A v \in Workers : ~InUse(v, target[w])
      BY <2>3
    <3>3. PICK F \in Families : copy[w].status \in F
      <4>1. copy[w].status \in Statuses
        BY <2>1 DEF Payment
      <4> QED
        BY ONLY <4>1 DEF Families, Statuses
    <3>4. Within(target[w], F)'
      BY <2>1, <3>1, <3>2, <3>3
    <3>5. ASSUME NEW p \in Ids, p # target[w], rows'[p] # Absent
          PROVE  \E G \in Families : Within(p, G)'
      <4>1. PICK G \in Families : Within(p, G)
        BY <3>1, <3>5
      <4> QED
        BY <2>1, <3>1, <3>5, <4>1
    <3> QED
      BY <3>4, <3>5, <3>1
  <2> QED
    BY <2>2, <2>3
<1>13. ASSUME NEW w \in Workers, LoadForUpdate(w) PROVE Kin'
  BY <1>13 DEF LoadForUpdate, world
<1>14. ASSUME NEW w \in Workers, CommitUpdate(w) PROVE Kin'
  <2> DEFINE Committed(c) ==
        /\ rows' = [rows EXCEPT ![target[w]] = c]
        /\ Goto(w, "store")
        /\ c.status = copy[w].status
        /\ rows[target[w]].refunds \subseteq c.refunds
        /\ c.refunds \subseteq rows[target[w]].refunds \cup copy[w].refunds
  <2>1. /\ UNCHANGED <<cache, intents, paidBack, heard, disturbed, faults>>
        /\ step[w] = "commit" /\ copy[w] \in Payment /\ rows[target[w]] \in Payment
        /\ (Leave(w) /\ UNCHANGED rows) \/ \E c \in Payment : Committed(c)
    BY <1>14, CommittedRow
  <2>2. CASE Leave(w) /\ UNCHANGED rows
    BY <2>1, <2>2 DEF Leave
  <2>3. ASSUME NEW c \in Payment, Committed(c) PROVE Kin'
    BY <2>1, <2>3 DEF Goto
  <2> QED
    BY <2>1, <2>2, <2>3
<1>15. ASSUME NEW w \in Workers, Store(w) PROVE Kin'
  BY <1>15 DEF Store, Leave, world
<1>16. ASSUME NEW w \in Workers, Interrupted(w) PROVE Kin'
  BY <1>16 DEF Interrupted, Leave, world
<1>17. ASSUME NEW p \in Ids, CacheExpires(p) PROVE Kin'
  BY <1>17 DEF CacheExpires, worker
<1>18. CASE UNCHANGED vars
  BY <1>18 DEF vars
<1> QED
  BY NextIsStep, <1>1, <1>2, <1>3, <1>4, <1>5, <1>6, <1>7, <1>8, <1>9,
     <1>10, <1>11, <1>12, <1>13, <1>14, <1>15, <1>16, <1>17, <1>18 DEF Step

(* A copy that says AUTHORIZED is captured before it is saved.             *)
LEMMA ForwardStep ==
  TypeOK /\ InHand /\ Placed /\ Kin /\ Forward /\ [Next]_vars => Forward'
<1> SUFFICES ASSUME TypeOK, InHand, Placed, Kin, Forward, [Next]_vars PROVE Forward'
  OBVIOUS
<1> USE PaymentsAssumption DEF TypeOK, InHand, Placed, Forward, Early, InUse, Writing,
     CanBeRefunded, Operations, Creators, Finders, Webhooks, Holding
<1>1. ASSUME NEW w \in Workers, NEW p \in Ids, NEW o, NEW s, NEW rs, Starts(w, o, p, s, rs)
      PROVE  Forward'
  BY <1>1 DEF Starts, Begin, Unused, world
<1>2. ASSUME NEW w \in Workers, NEW p \in Ids, RecordCodPayment(w, p) PROVE Forward'
  BY <1>2, FreshPayments DEF RecordCodPayment, Unused, world
<1>3. ASSUME NEW w \in Workers, Authorize(w) PROVE Forward'
  BY <1>3, FreshPayments DEF Authorize, Hold, world
<1>4. ASSUME NEW w \in Workers, CreateIntent(w) PROVE Forward'
  BY <1>4, FreshPayments DEF CreateIntent, Hold, world
<1>5. ASSUME NEW w \in Workers, RefuseIntent(w) PROVE Forward'
  BY <1>5 DEF RefuseIntent, Leave, world
<1>6. ASSUME NEW w \in Workers, Lookup(w) PROVE Forward'
  BY <1>6 DEF Lookup, Proceed, AfterFind, Hold, Goto, Leave, world
<1>7. ASSUME NEW w \in Workers, ReadRow(w) PROVE Forward'
  <2>1. UNCHANGED <<world, heard, disturbed, faults>> /\ step[w] = "read"
    BY <1>7 DEF ReadRow
  <2>2. CASE Leave(w)
    BY <2>1, <2>2 DEF Leave, world
  <2>3. CASE rows[target[w]] \in Payment /\ Hold(w, rows[target[w]], "fill")
    BY <1>7, <2>1, <2>3 DEF Hold, world
  <2> QED
    BY <1>7, <2>2, <2>3 DEF ReadRow
<1>8. ASSUME NEW w \in Workers, Fill(w) PROVE Forward'
  <2>1. /\ UNCHANGED <<rows, intents, paidBack, heard, disturbed, faults>>
        /\ step[w] = "fill" /\ copy[w] \in Payment
        /\ cache' = [cache EXCEPT ![target[w]] = copy[w]]
    BY <1>8, FilledEntry
  <2>2. CASE Leave(w)
    BY <2>1, <2>2 DEF Leave
  <2>3. CASE Hold(w, copy[w], "payBack") /\ op[w] = "Refund"
    BY <2>1, <2>3 DEF Hold
  <2>4. CASE Hold(w, copy[w], "decide") /\ op[w] = "Capture"
    BY <2>1, <2>4 DEF Hold
  <2> QED
    BY <1>8, FilledEntry, <2>2, <2>3, <2>4
<1>9. ASSUME NEW w \in Workers, FindByIntent(w) PROVE Forward'
  <2>1. PICK c \in Payment : \/ Leave(w)
                              \/ /\ rows[target[w]] # Absent
                                 /\ Hold(w, c, "insert")
                                 /\ c.refunds = rows[target[w]].refunds
    BY <1>9, FoundCopy, FreshPayments
  <2>2. step[w] = "find" /\ UNCHANGED <<world, heard, disturbed, faults>>
    BY <1>9, FoundCopy
  <2>3. CASE Leave(w)
    BY <2>2, <2>3 DEF Leave, world
  <2>4. CASE rows[target[w]] # Absent /\ Hold(w, c, "insert") /\ c.refunds = rows[target[w]].refunds
    BY <2>2, <2>4 DEF Hold, world
  <2> QED
    BY <2>1, <2>3, <2>4
<1>10. ASSUME NEW w \in Workers, PayBack(w) PROVE Forward'
  <2>1. /\ UNCHANGED <<rows, cache, intents, heard, disturbed, faults>>
        /\ step[w] = "payBack"
    BY <1>10 DEF PayBack
  <2>2. CASE Leave(w) /\ UNCHANGED paidBack
    BY <2>1, <2>2 DEF Leave
  <2>3. CASE /\ Goto(w, "decide")
             /\ paidBack' = [paidBack EXCEPT ![target[w]] = @ \cup refund[w]]
    BY <2>1, <2>3 DEF Goto
  <2> QED
    BY <1>10, <2>2, <2>3 DEF PayBack
<1>11. ASSUME NEW w \in Workers, Decide(w) PROVE Forward'
  <2> DEFINE Decided(c) ==
        /\ Hold(w, c, "load")
        /\ c.refunds \subseteq copy[w].refunds \cup refund[w]
        /\ \/ c.status = IF copy[w].status = "AUTHORIZED" THEN "CAPTURED" ELSE copy[w].status
           \/ /\ copy[w].status \in CanBeRefunded
              /\ c.status \in {copy[w].status, "REFUNDED", "PARTIALLY_REFUNDED"}
  <2>1. /\ UNCHANGED <<world, heard, disturbed, faults>>
        /\ step[w] = "decide" /\ copy[w] \in Payment
        /\ Leave(w) \/ \E c \in Payment : Decided(c)
    BY <1>11, DecidedCopy
  <2>2. CASE Leave(w)
    BY <2>1, <2>2 DEF Leave, world
  <2>3. ASSUME NEW c \in Payment, Decided(c) PROVE Forward'
    BY <2>1, <2>3 DEF Hold, world, CanBeRefunded, Families
  <2> QED
    BY <2>1, <2>2, <2>3
<1>12. ASSUME NEW w \in Workers, Insert(w) PROVE Forward'
  <2>1. UNCHANGED <<cache, intents, paidBack, disturbed, faults>> /\ step[w] = "insert"
    BY <1>12 DEF Insert
  <2>2. CASE Leave(w) /\ UNCHANGED rows
    BY <1>12, <2>1, <2>2 DEF Leave, Insert
  <2>3. CASE /\ rows[target[w]] = Absent /\ Goto(w, "store")
             /\ rows' = [rows EXCEPT ![target[w]] = copy[w]]
    BY <1>12, <2>1, <2>3 DEF Goto, Insert
  <2> QED
    BY <1>12, <2>2, <2>3 DEF Insert, Inserted
<1>13. ASSUME NEW w \in Workers, LoadForUpdate(w) PROVE Forward'
  BY <1>13 DEF LoadForUpdate, world
<1>14. ASSUME NEW w \in Workers, CommitUpdate(w) PROVE Forward'
  <2> DEFINE Committed(c) ==
        /\ rows' = [rows EXCEPT ![target[w]] = c]
        /\ Goto(w, "store")
        /\ c.status = copy[w].status
        /\ rows[target[w]].refunds \subseteq c.refunds
        /\ c.refunds \subseteq rows[target[w]].refunds \cup copy[w].refunds
  <2>1. /\ UNCHANGED <<cache, intents, paidBack, heard, disturbed, faults>>
        /\ step[w] = "commit" /\ copy[w] \in Payment /\ rows[target[w]] \in Payment
        /\ (Leave(w) /\ UNCHANGED rows) \/ \E c \in Payment : Committed(c)
    BY <1>14, CommittedRow
  <2>2. CASE Leave(w) /\ UNCHANGED rows
    BY <2>1, <2>2 DEF Leave
  <2>3. ASSUME NEW c \in Payment, Committed(c) PROVE Forward'
    BY <2>1, <2>3 DEF Goto
  <2> QED
    BY <2>1, <2>2, <2>3
<1>15. ASSUME NEW w \in Workers, Store(w) PROVE Forward'
  BY <1>15 DEF Store, Leave, world
<1>16. ASSUME NEW w \in Workers, Interrupted(w) PROVE Forward'
  BY <1>16 DEF Interrupted, Leave, world
<1>17. ASSUME NEW p \in Ids, CacheExpires(p) PROVE Forward'
  BY <1>17 DEF CacheExpires, worker
<1>18. CASE UNCHANGED vars
  BY <1>18 DEF vars
<1> QED
  BY NextIsStep, <1>1, <1>2, <1>3, <1>4, <1>5, <1>6, <1>7, <1>8, <1>9,
     <1>10, <1>11, <1>12, <1>13, <1>14, <1>15, <1>16, <1>17, <1>18 DEF Step

(* The strengthening of the invariants below is one itself.                *)
THEOREM IInvAlways == Spec => []IInv
<1>1. IInv /\ [Next]_vars => IInv'
  BY TypeStep, InHandStep, PlacedStep, PaidStep, KinStep, ForwardStep DEF IInv
<1> QED
  BY InitInv, <1>1, PTL DEF Spec

(* Rows, entries, copies and what the gateways know keep their type: no    *)
(* payment is ever refunded by more than its amount.                       *)
THEOREM TypeAlways == Spec => []TypeOK
<1>1. IInv => TypeOK
  BY DEF IInv
<1> QED
  BY IInvAlways, <1>1, PTL

(* No refund is on the books that the gateway has not paid out.            *)
THEOREM RefundsAreAlwaysPaid == Spec => []RefundsArePaid
<1>1. IInv => RefundsArePaid
  BY DEF IInv, Paid
<1> QED
  BY IInvAlways, <1>1, PTL

(* Only an insert, where there is no row, and a committed update write one.*)
LEMMA RowWritten ==
  ASSUME IInv, [Next]_vars, NEW p \in Ids, rows[p] # Absent, rows'[p] # rows[p]
  PROVE  \E w \in Workers, c \in Payment :
           /\ step[w] = "commit" /\ target[w] = p /\ copy[w] \in Payment
           /\ rows'[p] = c /\ c.status = copy[w].status
           /\ rows[p].refunds \subseteq c.refunds
<1>1. TypeOK /\ InHand /\ Placed
  BY DEF IInv
<1>2. ASSUME NEW w \in Workers, Insert(w) PROVE rows'[p] = rows[p]
  BY <1>1, <1>2 DEF Insert, Inserted, TypeOK
<1>3. PICK w \in Workers : CommitUpdate(w)
  <2>1. CASE UNCHANGED vars
    BY <2>1 DEF vars
  <2>2. ASSUME NEW w \in Workers, NEW q \in Ids,
               (\E o, s, rs : Starts(w, o, q, s, rs)) \/ RecordCodPayment(w, q)
        PROVE  rows' = rows
    BY <2>2 DEF Starts, Begin, RecordCodPayment, world
  <2>3. ASSUME NEW w \in Workers,
               \/ Authorize(w) \/ CreateIntent(w) \/ RefuseIntent(w)
               \/ Lookup(w) \/ ReadRow(w) \/ Fill(w)
        PROVE  rows' = rows
    BY <2>3 DEF Authorize, CreateIntent, RefuseIntent, Lookup, ReadRow, Fill, world
  <2>4. ASSUME NEW w \in Workers,
               \/ FindByIntent(w) \/ PayBack(w) \/ Decide(w)
               \/ LoadForUpdate(w) \/ Store(w) \/ Interrupted(w)
        PROVE  rows' = rows
    BY <2>4 DEF FindByIntent, PayBack, Decide, LoadForUpdate, Store, Interrupted, world
  <2>5. ASSUME NEW q \in Ids, CacheExpires(q) PROVE rows' = rows
    BY <2>5 DEF CacheExpires
  <2> QED
    BY <1>2, NextIsStep, <2>1, <2>2, <2>3, <2>4, <2>5 DEF Step
<1>4. /\ step[w] = "commit" /\ copy[w] \in Payment
      /\ \E c \in Payment : /\ rows' = [rows EXCEPT ![target[w]] = c]
                            /\ c.status = copy[w].status
                            /\ rows[target[w]].refunds \subseteq c.refunds
  BY <1>1, <1>3, CommittedRow
<1> QED
  BY <1>1, <1>4 DEF TypeOK

(* No update of a payment, however stale its copy, loses a refund.         *)
THEOREM RefundsAreAlwaysKept == Spec => RefundsAreKept
<1> DEFINE Keeps == \A p \in Ids : rows[p] # Absent =>
                      /\ rows'[p] # Absent
                      /\ rows[p].refunds \subseteq rows'[p].refunds
<1>1. IInv /\ [Next]_vars => [Keeps]_rows
  BY RowWritten, PaymentsAssumption
<1> QED
  BY IInvAlways, <1>1, PTL DEF Spec, RefundsAreKept

(* A payment's status moves along the edges of Moves only.                 *)
THEOREM StatusAlwaysMoves == Spec => StatusMoves
<1> DEFINE Moved == \A p \in Ids : rows[p] # Absent /\ rows'[p] # rows[p] =>
                      \/ rows'[p].status = rows[p].status
                      \/ <<rows[p].status, rows'[p].status>> \in Moves
<1>1. ASSUME IInv, [Next]_vars, NEW p \in Ids, rows[p] # Absent, rows'[p] # rows[p]
      PROVE  \/ rows'[p].status = rows[p].status
             \/ <<rows[p].status, rows'[p].status>> \in Moves
  <2>1. PICK w \in Workers : /\ step[w] = "commit" /\ target[w] = p
                             /\ rows'[p].status = copy[w].status
    BY <1>1, RowWritten
  <2>2. InUse(w, p)
    BY <2>1 DEF InUse, Holding
  <2>3. PICK F \in Families : rows[p].status \in F /\ copy[w].status \in F
    BY <1>1, <2>2 DEF IInv, Kin, Within
  <2>4. copy[w].status # "AUTHORIZED"
    BY <1>1, <2>1 DEF IInv, Forward, Writing
  <2>5. rows[p].status = "AUTHORIZED" => copy[w].status = "CAPTURED"
    BY <1>1, <2>1, <2>2 DEF IInv, Forward, Early, Writing
  <2>6. ASSUME NEW s \in F, NEW t \in F, t # "AUTHORIZED", s = "AUTHORIZED" => t = "CAPTURED"
        PROVE  s = t \/ <<s, t>> \in Moves
    BY <2>6 DEF Families, Moves
  <2> QED
    BY <2>1, <2>3, <2>4, <2>5, <2>6
<1>2. IInv /\ [Next]_vars => [Moved]_rows
  BY <1>1
<1> QED
  BY IInvAlways, <1>2, PTL DEF Spec, StatusMoves

-----------------------------------------------------------------------------
(* While nothing overlaps and nothing is interrupted, one worker at a time *)
(* holds a copy, and the copy, the entry and the row agree.  A payment is  *)
(* refunded once: PARTIALLY_REFUNDED cannot be refunded again.             *)
Books(c) ==
  \/ /\ c.refunds = {} /\ c.refunded = 0
     /\ c.status \notin {"REFUNDED", "PARTIALLY_REFUNDED"}
  \/ \E r \in Refunds :
       /\ c.refunds = {r} /\ c.refunded = SizeOf[r]
       /\ c.status = IF SizeOf[r] = Amount THEN "REFUNDED" ELSE "PARTIALLY_REFUNDED"

Current(w) ==
  /\ step[w] \in {"fill", "payBack", "decide", "store"} => copy[w] = rows[target[w]]
  /\ step[w] \in Writing =>
       Books(copy[w]) /\ rows[target[w]].refunds \subseteq copy[w].refunds
  /\ step[w] = "commit" => known[w] = rows[target[w]].refunds
  /\ step[w] = "insert" /\ op[w] \in Creators => Books(copy[w])

Alone == \A v, w \in Workers : op[v] # "none" /\ op[w] # "none" => v = w

Calm == ~disturbed =>
  /\ Alone
  /\ \A p \in Ids : rows[p] # Absent => Books(rows[p])
  /\ \A p \in Ids : cache[p] \in {Absent, rows[p]}
                    \/ \E w \in Workers : target[w] = p /\ step[w] = "store"
  /\ \A w \in Workers : Current(w)

(* The sum of the refunds of such a payment: none, or one.                 *)
Total(S) == MapThenSumSet(LAMBDA r : SizeOf[r], S)

LEMMA TotalOfNone == Total({}) = 0
<1> DEFINE f == [s \in SUBSET {} |-> 0]
           Sums(g) == g = [s \in SUBSET {} |->
                             IF s = {} THEN 0
                             ELSE LET x == CHOOSE x \in s : TRUE
                                  IN  SizeOf[x] + g[s \ {x}]]
<1>1. Sums(f)
  OBVIOUS
<1>2. \A g : Sums(g) => g[{}] = 0
  OBVIOUS
<1>3. (CHOOSE g : Sums(g))[{}] = 0
  BY <1>1, <1>2
<1> QED
  BY <1>3 DEF Total, MapThenSumSet, MapThenFoldSet

LEMMA TotalOfOne ==
  ASSUME NEW r \in Refunds
  PROVE  Total({r}) = SizeOf[r]
<1> DEFINE f == [s \in SUBSET {r} |-> IF s = {} THEN 0 ELSE SizeOf[r]]
           Sums(g) == g = [s \in SUBSET {r} |->
                             IF s = {} THEN 0
                             ELSE LET x == CHOOSE x \in s : TRUE
                                  IN  SizeOf[x] + g[s \ {x}]]
<1>1. SizeOf[r] \in Nat
  BY PaymentsAssumption
<1>2. (CHOOSE x \in {r} : TRUE) = r
  OBVIOUS
<1>3. Sums(f)
  <2>1. \A s \in SUBSET {r} : s = {} \/ s = {r}
    OBVIOUS
  <2>2. f[{}] = 0 /\ {r} \ {r} = {}
    OBVIOUS
  <2> QED
    BY <1>1, <1>2, <2>1, <2>2
<1>4. \A g : Sums(g) => g[{}] = 0 /\ g[{r}] = SizeOf[r]
  <2>1. SUFFICES ASSUME NEW g, Sums(g) PROVE g[{}] = 0 /\ g[{r}] = SizeOf[r]
    OBVIOUS
  <2>2. g[{}] = 0
    BY <2>1
  <2>3. {r} \ {r} = {} /\ {r} # {} /\ {r} \in SUBSET {r}
    OBVIOUS
  <2> QED
    BY <1>1, <1>2, <2>1, <2>2, <2>3
<1>5. (CHOOSE g : Sums(g))[{r}] = SizeOf[r]
  BY <1>3, <1>4
<1> QED
  BY <1>5 DEF Total, MapThenSumSet, MapThenFoldSet

(* What the entity makes of a payment in such a state.                     *)
LEMMA FreshBooks ==
  Books(NewCod) /\ Books(WithIntent) /\ \A a \in Answers : Books(Answered(a))
<1>1. \A a \in Answers : a \notin {"REFUNDED", "PARTIALLY_REFUNDED"}
  BY PaymentsAssumption
<1> QED
  BY <1>1 DEF Books, NewCod, WithIntent, Answered, NewPayment

LEMMA CapturedBooks ==
  ASSUME NEW c \in Payment, Books(c)
  PROVE  Books(Captured(c)) /\ Captured(c).refunds = c.refunds
<1>1. CASE c.status = "AUTHORIZED"
  <2>1. c.refunds = {} /\ c.refunded = 0
    BY <1>1 DEF Books
  <2>2. /\ Captured(c).refunds = {} /\ Captured(c).refunded = 0
        /\ Captured(c).status = "CAPTURED"
    BY <1>1, <2>1 DEF Captured, Payment
  <2> QED
    BY <2>1, <2>2 DEF Books
<1>2. CASE c.status # "AUTHORIZED"
  BY <1>2 DEF Captured
<1> QED
  BY <1>1, <1>2

LEMMA RefundedBooks ==
  ASSUME NEW c \in Payment, Books(c), NEW r \in Refunds, Refundable(c, r)
  PROVE  Books(WithRefund(c, r)) /\ c.refunds \subseteq WithRefund(c, r).refunds
<1>1. c.refunds = {} /\ c.refunded = 0
  BY DEF Books, Refundable, CanBeRefunded
<1>2. SizeOf[r] \in Nat /\ SizeOf[r] > 0
  BY PaymentsAssumption
<1>3. /\ WithRefund(c, r).refunds = {r} /\ WithRefund(c, r).refunded = SizeOf[r]
      /\ WithRefund(c, r).status = IF SizeOf[r] = Amount THEN "REFUNDED"
                                                       ELSE "PARTIALLY_REFUNDED"
  BY <1>1, <1>2 DEF WithRefund, Payment
<1> QED
  BY <1>1, <1>3 DEF Books

(* Such a payment's books agree.                                           *)
LEMMA BooksOfPayment ==
  ASSUME NEW c \in Payment, Books(c)
  PROVE  /\ c.refunded = Total(c.refunds)
         /\ (c.status = "REFUNDED") <=>
              (Total(c.refunds) > 0 /\ Total(c.refunds) = Amount)
         /\ (c.status = "PARTIALLY_REFUNDED") <=> (Total(c.refunds) \in 1..(Amount-1))
<1>1. Amount \in Nat /\ c.refunded \in 0..Amount
  BY PaymentsAssumption DEF Payment
<1>2. CASE /\ c.refunds = {} /\ c.refunded = 0
           /\ c.status \notin {"REFUNDED", "PARTIALLY_REFUNDED"}
  BY <1>1, <1>2, TotalOfNone
<1>3. ASSUME NEW r \in Refunds, c.refunds = {r}, c.refunded = SizeOf[r],
             c.status = IF SizeOf[r] = Amount THEN "REFUNDED" ELSE "PARTIALLY_REFUNDED"
      PROVE  /\ c.refunded = Total(c.refunds)
             /\ (c.status = "REFUNDED") <=>
                  (Total(c.refunds) > 0 /\ Total(c.refunds) = Amount)
             /\ (c.status = "PARTIALLY_REFUNDED") <=> (Total(c.refunds) \in 1..(Amount-1))
  <2>1. Total(c.refunds) = SizeOf[r] /\ SizeOf[r] \in Nat /\ SizeOf[r] > 0
    BY <1>3, TotalOfOne, PaymentsAssumption
  <2> QED
    BY <1>1, <1>3, <2>1
<1> QED
  BY <1>2, <1>3 DEF Books

(* What has been disturbed stays so.                                       *)
LEMMA DisturbedStays ==
  TypeOK /\ InHand /\ disturbed /\ [Next]_vars => disturbed'
<1> SUFFICES ASSUME TypeOK, InHand, disturbed, [Next]_vars PROVE disturbed'
  OBVIOUS
<1>1. ASSUME NEW w \in Workers, NEW p \in Ids,
             (\E o, s, rs : Starts(w, o, p, s, rs)) \/ RecordCodPayment(w, p)
      PROVE  disturbed'
  BY <1>1 DEF Starts, Begin, RecordCodPayment
<1>2. ASSUME NEW w \in Workers, \/ Authorize(w) \/ CreateIntent(w) \/ RefuseIntent(w)
                                \/ Lookup(w) \/ ReadRow(w) \/ Fill(w) \/ FindByIntent(w)
      PROVE  disturbed'
  BY <1>2 DEF Authorize, CreateIntent, RefuseIntent, Lookup, ReadRow, Fill, FindByIntent
<1>3. ASSUME NEW w \in Workers, \/ PayBack(w) \/ Decide(w) \/ Insert(w) \/ LoadForUpdate(w)
                                \/ CommitUpdate(w) \/ Store(w) \/ Interrupted(w)
      PROVE  disturbed'
  BY <1>3 DEF PayBack, Decide, Insert, LoadForUpdate, CommitUpdate, Store, Interrupted
<1>4. ASSUME NEW p \in Ids, CacheExpires(p) PROVE disturbed'
  BY <1>4 DEF CacheExpires
<1>5. CASE UNCHANGED vars
  BY <1>5 DEF vars
<1> QED
  BY NextIsStep, <1>1, <1>2, <1>3, <1>4, <1>5 DEF Step

(* A step that disturbs nothing keeps them so.                             *)
LEMMA CalmStep ==
  IInv /\ Calm /\ [Next]_vars => Calm'
<1> SUFFICES ASSUME TypeOK, InHand, Placed, Calm, ~disturbed, ~disturbed', [Next]_vars
             PROVE  Calm'
  BY DisturbedStays DEF IInv, Calm
<1> USE DEF TypeOK, InHand, Placed, Calm, Alone, Current, Writing, Operations, Creators,
     Finders, Webhooks, Holding
<1> HIDE DEF Books
<1>1. ASSUME NEW w \in Workers, NEW p \in Ids, NEW o, NEW s, NEW rs, Starts(w, o, p, s, rs)
      PROVE  Calm'
  <2>1. /\ UNCHANGED <<rows, cache, copy, known>> /\ disturbed' = FALSE
        /\ \A v \in Workers : op[v] = "none" /\ step[v] = "idle"
        /\ op' = [op EXCEPT ![w] = o] /\ step' = [step EXCEPT ![w] = s]
        /\ target' = [target EXCEPT ![w] = p] /\ s \in {"gateway", "lookup", "find"}
    BY <1>1 DEF Starts, Begin, world
  <2> QED
    BY <2>1
<1>2. ASSUME NEW w \in Workers, NEW p \in Ids, RecordCodPayment(w, p) PROVE Calm'
  <2>1. /\ UNCHANGED <<rows, cache, known>> /\ disturbed' = FALSE
        /\ \A v \in Workers : op[v] = "none" /\ step[v] = "idle"
        /\ op' = [op EXCEPT ![w] = "Cod"] /\ step' = [step EXCEPT ![w] = "insert"]
        /\ target' = [target EXCEPT ![w] = p] /\ copy' = [copy EXCEPT ![w] = NewCod]
    BY <1>2 DEF RecordCodPayment, world
  <2> QED
    BY <2>1, FreshBooks
<1>3. ASSUME NEW w \in Workers, Authorize(w) PROVE Calm'
  BY <1>3, FreshBooks DEF Authorize, Hold, world
<1>4. ASSUME NEW w \in Workers, CreateIntent(w) PROVE Calm'
  BY <1>4, FreshBooks DEF CreateIntent, Hold, world
<1>5. ASSUME NEW w \in Workers, RefuseIntent(w) PROVE Calm'
  BY <1>5 DEF RefuseIntent, Leave, world
<1>6. ASSUME NEW w \in Workers, Lookup(w) PROVE Calm'
  <2>1. /\ UNCHANGED <<world, heard, disturbed, faults>> /\ step[w] = "lookup"
        /\ op[w] \in Finders /\ op[w] # "none"
    BY <1>6 DEF Lookup
  <2>2. CASE Leave(w)
    BY <2>1, <2>2 DEF Leave, world
  <2>3. CASE Goto(w, "read")
    BY <2>1, <2>3 DEF Goto, world
  <2>4. CASE cache[target[w]] # Absent /\ Hold(w, cache[target[w]], AfterFind(w)) /\ op[w] # "View"
    <3>1. cache[target[w]] = rows[target[w]]
      BY <2>1, <2>4
    <3>2. AfterFind(w) \in {"payBack", "decide"}
      BY <2>1, <2>4 DEF AfterFind
    <3> HIDE DEF AfterFind
    <3> QED
      BY <2>1, <2>4, <3>1, <3>2 DEF Hold, world
  <2> QED
    BY <1>6, <2>2, <2>3, <2>4 DEF Lookup, Proceed
<1>7. ASSUME NEW w \in Workers, ReadRow(w) PROVE Calm'
  <2>1. UNCHANGED <<world, heard, disturbed, faults>> /\ step[w] = "read"
    BY <1>7 DEF ReadRow
  <2>2. CASE Leave(w)
    BY <2>1, <2>2 DEF Leave, world
  <2>3. CASE Hold(w, rows[target[w]], "fill")
    BY <2>1, <2>3 DEF Hold, world
  <2> QED
    BY <1>7, <2>2, <2>3 DEF ReadRow
<1>8. ASSUME NEW w \in Workers, Fill(w) PROVE Calm'
  <2>1. /\ UNCHANGED <<rows, intents, paidBack, heard, disturbed, faults>>
        /\ step[w] = "fill" /\ copy[w] = rows[target[w]]
        /\ cache' = [cache EXCEPT ![target[w]] = copy[w]]
    BY <1>8, FilledEntry
  <2>2. \A p \in Ids : cache'[p] \in {Absent, rows'[p]}
    BY <2>1
  <2>3. CASE Leave(w)
    BY <2>1, <2>2, <2>3 DEF Leave
  <2>4. CASE Hold(w, copy[w], "payBack") /\ op[w] = "Refund"
    BY <2>1, <2>2, <2>4 DEF Hold
  <2>5. CASE Hold(w, copy[w], "decide") /\ op[w] = "Capture"
    BY <2>1, <2>2, <2>5 DEF Hold
  <2> QED
    BY <1>8, FilledEntry, <2>3, <2>4, <2>5
<1>9. ASSUME NEW w \in Workers, FindByIntent(w) PROVE Calm'
  <2>1. PICK c \in Payment : \/ Leave(w)
                              \/ /\ rows[target[w]] # Absent
                                 /\ Hold(w, c, "insert")
                                 /\ c.refunds = rows[target[w]].refunds
    BY <1>9, FoundCopy, FreshPayments
  <2>2. /\ step[w] = "find" /\ op[w] \in Webhooks
        /\ UNCHANGED <<world, heard, disturbed, faults>>
    BY <1>9, FoundCopy
  <2>3. CASE Leave(w)
    BY <2>2, <2>3 DEF Leave, world
  <2>4. CASE Hold(w, c, "insert")
    BY <2>2, <2>4 DEF Hold, world
  <2> QED
    BY <2>1, <2>3, <2>4
<1>10. ASSUME NEW w \in Workers, PayBack(w) PROVE Calm'
  <2>1. /\ UNCHANGED <<rows, cache, intents, heard, disturbed, faults>>
        /\ step[w] = "payBack"
    BY <1>10 DEF PayBack
  <2>2. CASE Leave(w)
    BY <2>1, <2>2 DEF Leave
  <2>3. CASE Goto(w, "decide")
    BY <2>1, <2>3 DEF Goto
  <2> QED
    BY <1>10, <2>2, <2>3 DEF PayBack
<1>11. ASSUME NEW w \in Workers, Decide(w) PROVE Calm'
  <2>1. /\ UNCHANGED <<world, heard, disturbed, faults>> /\ step[w] = "decide"
        /\ copy[w] = rows[target[w]] /\ copy[w] \in Payment /\ Books(copy[w])
    BY <1>11 DEF Decide
  <2>2. ASSUME NEW c, Hold(w, c, "load"), Books(c), copy[w].refunds \subseteq c.refunds
        PROVE  Calm'
    BY <2>1, <2>2 DEF Hold, world
  <2>3. CASE Leave(w)
    BY <2>1, <2>3 DEF Leave, world
  <2>4. CASE Hold(w, Captured(copy[w]), "load")
    BY <2>1, <2>2, <2>4, CapturedBooks
  <2>5. ASSUME NEW r \in refund[w], Refundable(copy[w], r),
               Hold(w, WithRefund(copy[w], r), "load")
        PROVE  Calm'
    BY <2>1, <2>2, <2>5, RefundedBooks
  <2> QED
    BY <1>11, <2>3, <2>4, <2>5 DEF Decide
<1>12. ASSUME NEW w \in Workers, Insert(w) PROVE Calm'
  <2>1. /\ UNCHANGED <<cache, intents, paidBack, disturbed, faults>> /\ step[w] = "insert"
    BY <1>12 DEF Insert
  <2>2. CASE Leave(w) /\ UNCHANGED rows
    BY <2>1, <2>2 DEF Leave
  <2>3. CASE /\ rows[target[w]] = Absent /\ Goto(w, "store")
             /\ rows' = [rows EXCEPT ![target[w]] = copy[w]]
    <3>1. op[w] \in Creators /\ op[w] # "none" /\ Books(copy[w])
      BY <2>1, <2>3
    <3> QED
      BY <2>1, <2>3, <3>1 DEF Goto
  <2> QED
    BY <1>12, <2>2, <2>3 DEF Insert, Inserted
<1>13. ASSUME NEW w \in Workers, LoadForUpdate(w) PROVE Calm'
  <2>1. /\ UNCHANGED <<world, op, target, copy, disturbed>> /\ step[w] = "load"
        /\ known' = [known EXCEPT ![w] = rows[target[w]].refunds]
        /\ step' = [step EXCEPT ![w] = "commit"]
    BY <1>13 DEF LoadForUpdate
  <2> QED
    BY <2>1 DEF world
<1>14. ASSUME NEW w \in Workers, CommitUpdate(w) PROVE Calm'
  <2>1. /\ UNCHANGED <<cache, intents, paidBack, heard, disturbed, faults>>
        /\ step[w] = "commit" /\ op[w] # "none" /\ copy[w] \in Payment /\ Books(copy[w])
        /\ known[w] = rows[target[w]].refunds /\ known[w] \subseteq copy[w].refunds
    BY <1>14 DEF CommitUpdate
  <2>2. RowAfterUpdate(w) = copy[w]
    BY <2>1 DEF RowAfterUpdate, Payment
  <2>3. rows' = [rows EXCEPT ![target[w]] = copy[w]] /\ Goto(w, "store")
    BY <1>14, <2>1, <2>2 DEF CommitUpdate, OrphansRefund
  <2> QED
    BY <2>1, <2>3 DEF Goto
<1>15. ASSUME NEW w \in Workers, Store(w) PROVE Calm'
  <2>1. /\ UNCHANGED <<rows, disturbed>> /\ step[w] = "store" /\ op[w] # "none"
        /\ copy[w] = rows[target[w]]
        /\ cache' = [cache EXCEPT ![target[w]] = copy[w]] /\ Leave(w)
    BY <1>15 DEF Store
  <2>2. \A p \in Ids : cache'[p] \in {Absent, rows'[p]}
    BY <2>1
  <2> QED
    BY <2>1, <2>2 DEF Leave
<1>16. ASSUME NEW w \in Workers, Interrupted(w) PROVE Calm'
  BY <1>16 DEF Interrupted
<1>17. ASSUME NEW p \in Ids, CacheExpires(p) PROVE Calm'
  BY <1>17 DEF CacheExpires, worker
<1>18. CASE UNCHANGED vars
  BY <1>18 DEF vars
<1> QED
  BY NextIsStep, <1>1, <1>2, <1>3, <1>4, <1>5, <1>6, <1>7, <1>8, <1>9,
     <1>10, <1>11, <1>12, <1>13, <1>14, <1>15, <1>16, <1>17, <1>18 DEF Step

(* Where nothing overlapped and nothing was interrupted, the refunded      *)
(* amount of a payment is the sum of its refund rows and its status says   *)
(* how much of it was refunded.                                            *)
THEOREM BooksAlwaysAgree == Spec => []BooksAgree
<1>1. Init => Calm
  BY DEF Init, Calm, Alone, Current, Writing
<1>2. Calm /\ TypeOK => BooksAgree
  <2> SUFFICES ASSUME Calm, TypeOK, ~disturbed, NEW p \in Ids, rows[p] # Absent
               PROVE  LET total == Total(rows[p].refunds)
                      IN  /\ rows[p].refunded = total
                          /\ (rows[p].status = "REFUNDED") <=> (total > 0 /\ total = Amount)
                          /\ (rows[p].status = "PARTIALLY_REFUNDED") <=>
                               (total \in 1..(Amount-1))
    BY DEF BooksAgree, Total
  <2>1. rows[p] \in Payment /\ Books(rows[p])
    BY DEF TypeOK, Calm
  <2> QED
    BY <2>1, BooksOfPayment
<1>3. IInv => TypeOK
  BY DEF IInv
<1> QED
  BY <1>1, <1>2, <1>3, CalmStep, IInvAlways, PTL DEF Spec
=============================================================================
