------------------------------- MODULE Payments -------------------------------
(***************************************************************************)
(* The payment rows, their cache entries, and the requests, jobs and       *)
(* webhooks that work on them.  Every use case takes a copy of a payment,  *)
(* through the cache or from the row, may call the payment gateway, decides*)
(* on the copy, and saves the copy whole.  Each call is an await.          *)
(***************************************************************************)
EXTENDS Integers, FiniteSets, FiniteSetsExt

CONSTANTS Ids,        \* payments: one slot for each id the table may give out
          Workers,    \* requests, jobs and webhook deliveries that may overlap
          Amount,     \* what each payment amounts to
          Refunds,    \* the refunds the gateways may pay out
          SizeOf,     \* the amount of each of them
          Answers,    \* what an authorization at a gateway may come to
          MaxFaults,  \* bound: interrupted requests in a behaviour
          Absent      \* no row, no cache entry, no copy

Statuses == {"PENDING", "AUTHORIZED", "CAPTURED", "COMPLETED", "FAILED",
             "REFUNDED", "PARTIALLY_REFUNDED", "CANCELLED",
             "NOT_REQUIRED_YET"}
CanBeRefunded == {"CAPTURED", "COMPLETED"}

(* Of a payment: its status, whether it has a transaction id and an intent *)
(* id, the column refunded_amount and the rows of its refunds.             *)
Payment == [status : Statuses, txn : BOOLEAN, intent : BOOLEAN,
            refunded : 0..Amount, refunds : SUBSET Refunds]

Creators == {"Create", "Intent", "Cod"}
Operations == Creators \cup {"Capture", "Refund", "Stripe", "PayPal", "View"}
Steps == {"idle", "gateway", "lookup", "read", "fill", "find", "payBack",
          "decide", "insert", "load", "commit", "store"}

ASSUME PaymentsAssumption ==
         /\ Amount \in Nat
         /\ SizeOf \in [Refunds -> Nat \ {0}]   \* ProcessRefundDto: at least 0.01
         /\ Answers \subseteq {"AUTHORIZED", "CAPTURED", "COMPLETED", "refused"}
         /\ MaxFaults \in Nat
         /\ Absent \notin Payment

VARIABLES rows,      \* the payment in each row
          cache,     \* the entry payment:<id>
          intents,   \* at the gateways: payments that have an intent
          paidBack,  \* at the gateways: refunds paid out, for each payment
          op, step,  \* what each worker runs, and where it is
          target,    \* the payment it is about
          copy,      \* the entity in its hands
          refund,    \* {} or the refund it is asked for
          known,     \* refund rows its transaction has loaded
          heard,     \* history: payments whose success webhook was handled
          disturbed, \* history: requests overlapped, or one was interrupted
          faults     \* interrupted requests so far

vars == <<rows, cache, intents, paidBack, op, step, target, copy, refund,
          known, heard, disturbed, faults>>
world == <<rows, cache, intents, paidBack>>
worker == <<op, step, target, copy, refund, known>>

TypeOK == /\ rows \in [Ids -> Payment \cup {Absent}]
          /\ cache \in [Ids -> Payment \cup {Absent}]
          /\ intents \in SUBSET Ids
          /\ paidBack \in [Ids -> SUBSET Refunds]
          /\ op \in [Workers -> Operations \cup {"none"}]
          /\ step \in [Workers -> Steps]
          /\ target \in [Workers -> Ids]
          /\ copy \in [Workers -> Payment \cup {Absent}]
          /\ refund \in [Workers -> SUBSET Refunds]
          /\ known \in [Workers -> SUBSET Refunds]
          /\ heard \in SUBSET Ids
          /\ disturbed \in BOOLEAN
          /\ faults \in Nat

Init == /\ rows = [p \in Ids |-> Absent]
        /\ cache = [p \in Ids |-> Absent]
        /\ intents = {}
        /\ paidBack = [p \in Ids |-> {}]
        /\ op = [w \in Workers |-> "none"]
        /\ step = [w \in Workers |-> "idle"]
        /\ target \in {[w \in Workers |-> p] : p \in Ids}
        /\ copy = [w \in Workers |-> Absent]
        /\ refund = [w \in Workers |-> {}]
        /\ known = [w \in Workers |-> {}]
        /\ heard = {}
        /\ disturbed = FALSE
        /\ faults = 0

-----------------------------------------------------------------------------
(* The entity: a new payment, and its methods as functions of the copy.    *)
NewPayment == [status |-> "PENDING", txn |-> FALSE, intent |-> FALSE,
               refunded |-> 0, refunds |-> {}]
NewCod == [NewPayment EXCEPT !.status = "NOT_REQUIRED_YET"]

(* CreatePayment applies authorize, capture, complete or fail according to *)
(* the gateway's answer; only a payment that succeeded has a transaction.  *)
Answered(answer) ==
  IF answer = "refused" THEN [NewPayment EXCEPT !.status = "FAILED"]
                        ELSE [NewPayment EXCEPT !.status = answer, !.txn = TRUE]

WithIntent == [NewPayment EXCEPT !.intent = TRUE]

CapturedFromAny(c) == [c EXCEPT !.status = "CAPTURED"]    \* mutant: no guard
(* capture refuses anything that is not AUTHORIZED; CapturePayment does not*)
(* look at the result and saves the copy all the same.                     *)
Captured(c) == IF c.status = "AUTHORIZED" THEN [c EXCEPT !.status = "CAPTURED"]
                                          ELSE c

Settleable(c) == c.status \in {"PENDING", "AUTHORIZED"}
Failable(c) == c.status \notin {"FAILED", "COMPLETED"}

Refundable(c, r) == /\ c.status \in CanBeRefunded
                    /\ c.refunded + SizeOf[r] <= Amount

RefundKeepsStatus(c, r) ==    \* mutant: the status is left as it was
  [c EXCEPT !.refunded = @ + SizeOf[r], !.refunds = @ \cup {r}]
WithRefund(c, r) ==
  LET total == c.refunded + SizeOf[r]
  IN  [c EXCEPT !.refunded = total,
                !.refunds = @ \cup {r},
                !.status = IF total = Amount THEN "REFUNDED"
                           ELSE IF total > 0 THEN "PARTIALLY_REFUNDED" ELSE @]

-----------------------------------------------------------------------------
Goto(w, s) == /\ step' = [step EXCEPT ![w] = s]
              /\ UNCHANGED <<op, target, copy, refund, known>>

Hold(w, c, s) == /\ copy' = [copy EXCEPT ![w] = c]
                 /\ step' = [step EXCEPT ![w] = s]
                 /\ UNCHANGED <<op, target, refund, known>>

Leave(w) == /\ op' = [op EXCEPT ![w] = "none"]
            /\ step' = [step EXCEPT ![w] = "idle"]
            /\ copy' = [copy EXCEPT ![w] = Absent]
            /\ refund' = [refund EXCEPT ![w] = {}]
            /\ known' = [known EXCEPT ![w] = {}]
            /\ UNCHANGED target

(* A request, a job of the checkout flow or a webhook delivery starts.     *)
Begin(w, o, p, s, rs) ==
  /\ op[w] = "none"
  /\ op' = [op EXCEPT ![w] = o]
  /\ step' = [step EXCEPT ![w] = s]
  /\ target' = [target EXCEPT ![w] = p]
  /\ refund' = [refund EXCEPT ![w] = rs]
  /\ disturbed' = (disturbed \/ \E v \in Workers : op[v] # "none")
  /\ UNCHANGED <<world, copy, known, heard, faults>>

(* The id of a row to come: nobody else has it.                            *)
Unused(p) == /\ rows[p] = Absent
             /\ \A v \in Workers : op[v] \in Creators => target[v] # p
             /\ p \notin intents

CreatePayment(w, p) == Unused(p) /\ Begin(w, "Create", p, "gateway", {})
CreatePaymentIntent(w, p) == Unused(p) /\ Begin(w, "Intent", p, "gateway", {})
RecordCodPayment(w, p) ==    \* cash asks no gateway
  /\ Unused(p)
  /\ op[w] = "none"
  /\ op' = [op EXCEPT ![w] = "Cod"]
  /\ step' = [step EXCEPT ![w] = "insert"]
  /\ target' = [target EXCEPT ![w] = p]
  /\ copy' = [copy EXCEPT ![w] = NewCod]
  /\ disturbed' = (disturbed \/ \E v \in Workers : op[v] # "none")
  /\ UNCHANGED <<world, refund, known, heard, faults>>
CapturePayment(w, p) == Begin(w, "Capture", p, "lookup", {})
ProcessRefund(w, p) ==
  \E r \in Refunds : /\ \A q \in Ids : r \notin paidBack[q]
                     /\ \A v \in Workers : r \notin refund[v]
                     /\ Begin(w, "Refund", p, "lookup", {r})
GetPayment(w, p) == Begin(w, "View", p, "lookup", {})
VerifyPayment(w, p) == Begin(w, "View", p, "lookup", {})
ListPayments(w, p) == Begin(w, "View", p, "lookup", {})   \* those of an order

(* Webhooks are delivered at least once, whenever the gateway has an intent*)
(* for the payment, and even before the row of that intent is there.       *)
StripeWebhook(w, p) == p \in intents /\ Begin(w, "Stripe", p, "find", {})
PayPalWebhook(w, p) == p \in intents /\ Begin(w, "PayPal", p, "find", {})

(* Creating: the gateway first, then the entity, then the row.             *)
Authorize(w) ==
  /\ step[w] = "gateway" /\ op[w] = "Create"
  /\ \E a \in Answers : Hold(w, Answered(a), "insert")
  /\ UNCHANGED <<world, heard, disturbed, faults>>

CreateIntent(w) ==
  /\ step[w] = "gateway" /\ op[w] = "Intent"
  /\ Hold(w, WithIntent, "insert")
  /\ intents' = intents \cup {target[w]}
  /\ UNCHANGED <<rows, cache, paidBack, heard, disturbed, faults>>

(* The gateway of cash on delivery has no intents.                         *)
RefuseIntent(w) ==
  /\ step[w] = "gateway" /\ op[w] = "Intent"
  /\ Leave(w)
  /\ UNCHANGED <<world, heard, disturbed, faults>>

-----------------------------------------------------------------------------
(* CachedPaymentRepository.findById, and findByOrderId for one of its      *)
(* payments: a hit is the copy; on a miss the row is read and cached.      *)
RecordFirst(w) ==    \* mutant: the entity is asked before the gateway
  CASE op[w] \in {"Refund", "Capture"} -> "decide" [] OTHER -> "idle"
AfterFind(w) == CASE op[w] = "Refund" -> "payBack"
                  [] op[w] = "Capture" -> "decide"
                  [] OTHER -> "idle"

Proceed(w, c) == IF op[w] = "View" THEN Leave(w) ELSE Hold(w, c, AfterFind(w))

Lookup(w) ==
  /\ step[w] = "lookup"
  /\ IF cache[target[w]] # Absent THEN Proceed(w, cache[target[w]])
                                  ELSE Goto(w, "read")
  /\ UNCHANGED <<world, heard, disturbed, faults>>

ReadRow(w) ==
  /\ step[w] = "read"
  /\ IF rows[target[w]] = Absent THEN Leave(w)
                                 ELSE Hold(w, rows[target[w]], "fill")
  /\ UNCHANGED <<world, heard, disturbed, faults>>

Fill(w) ==
  /\ step[w] = "fill"
  /\ cache' = [cache EXCEPT ![target[w]] = copy[w]]
  /\ Proceed(w, copy[w])
  /\ UNCHANGED <<rows, intents, paidBack, heard, disturbed, faults>>

(* HandlePaymentWebhook looks the row up by its intent id, past the cache, *)
(* and asks the entity; what the entity refuses ends the delivery.         *)
FindByIntent(w) ==
  /\ step[w] = "find"
  /\ LET c == rows[target[w]]
     IN  IF c = Absent THEN Leave(w)
         ELSE \/ /\ Settleable(c)
                 /\ Hold(w, [c EXCEPT !.status = "COMPLETED", !.txn = TRUE],
                         "insert")
              \/ /\ Failable(c)
                 /\ Hold(w, [c EXCEPT !.status = "FAILED"], "insert")
  /\ UNCHANGED <<world, heard, disturbed, faults>>

-----------------------------------------------------------------------------
(* ProcessRefund pays through the gateway before it asks the entity.       *)
PayBack(w) ==
  /\ step[w] = "payBack"
  /\ \/ /\ ~copy[w].txn
        /\ Leave(w)
        /\ UNCHANGED paidBack
     \/ /\ copy[w].txn
        /\ paidBack' = [paidBack EXCEPT ![target[w]] = @ \cup refund[w]]
        /\ Goto(w, "decide")
     \/ /\ copy[w].txn    \* the gateway refuses
        /\ Leave(w)
        /\ UNCHANGED paidBack
  /\ UNCHANGED <<rows, cache, intents, heard, disturbed, faults>>

Decide(w) ==
  /\ step[w] = "decide"
  /\ \/ /\ op[w] = "Capture"
        /\ Hold(w, Captured(copy[w]), "load")
     \/ \E r \in refund[w] :
          IF Refundable(copy[w], r) THEN Hold(w, WithRefund(copy[w], r), "load")
                                    ELSE Leave(w)
  /\ UNCHANGED <<world, heard, disturbed, faults>>

-----------------------------------------------------------------------------
(* PostgresPaymentRepository.save inserts: an id that exists is refused.   *)
(* The webhooks save an existing payment through it, so the refusal is all *)
(* they ever meet, and the event behind it is never put on the queue.      *)
Inserted(w) ==
  IF rows[target[w]] = Absent
    THEN /\ rows' = [rows EXCEPT ![target[w]] = copy[w]]
         /\ Goto(w, "store")
    ELSE /\ Leave(w)
         /\ UNCHANGED rows

Insert(w) ==
  /\ step[w] = "insert"
  /\ Inserted(w)
  /\ heard' = IF op[w] \in {"Stripe", "PayPal"} /\ copy[w].status = "COMPLETED"
                THEN heard \cup {target[w]} ELSE heard
  /\ UNCHANGED <<cache, intents, paidBack, disturbed, faults>>

(* PostgresPaymentRepository.update, one transaction without a lock: it    *)
(* loads the payment with its refund rows, then writes every column of the *)
(* copy and inserts the refund the copy adds.  A loaded refund row that the*)
(* copy does not have would lose its payment_id, which the column does not *)
(* allow: the transaction fails.                                           *)
LoadForUpdate(w) ==
  /\ step[w] = "load"
  /\ rows[target[w]] # Absent
  /\ known' = [known EXCEPT ![w] = rows[target[w]].refunds]
  /\ step' = [step EXCEPT ![w] = "commit"]
  /\ UNCHANGED <<world, op, target, copy, refund, heard, disturbed, faults>>

OrphansAllowed(w) == TRUE    \* mutant: payment_id is nullable, refunds are cut off
OrphansRefund(w) == known[w] \subseteq copy[w].refunds

RowAfterUpdate(w) ==
  [copy[w] EXCEPT !.refunds = (rows[target[w]].refunds \ known[w]) \cup @]

CommitUpdate(w) ==
  /\ step[w] = "commit"
  /\ IF OrphansRefund(w)
       THEN /\ rows' = [rows EXCEPT ![target[w]] = RowAfterUpdate(w)]
            /\ Goto(w, "store")
       ELSE /\ Leave(w)
            /\ UNCHANGED rows
  /\ UNCHANGED <<cache, intents, paidBack, heard, disturbed, faults>>

(* CachedPaymentRepository.save and update set the entry to what was saved.*)
Store(w) ==
  /\ step[w] = "store"
  /\ cache' = [cache EXCEPT ![target[w]] = copy[w]]
  /\ Leave(w)
  /\ UNCHANGED <<rows, intents, paidBack, heard, disturbed, faults>>

-----------------------------------------------------------------------------
(* A call fails, or the process dies: nothing done so far is undone.       *)
Interrupted(w) ==
  /\ step[w] # "idle"
  /\ faults < MaxFaults
  /\ faults' = faults + 1
  /\ disturbed' = TRUE
  /\ Leave(w)
  /\ UNCHANGED <<world, heard>>

CacheExpires(p) ==
  /\ cache[p] # Absent
  /\ cache' = [cache EXCEPT ![p] = Absent]
  /\ UNCHANGED <<rows, intents, paidBack, worker, heard, disturbed, faults>>

Next ==
  \/ \E w \in Workers, p \in Ids :
       \/ CreatePayment(w, p) \/ CreatePaymentIntent(w, p)
       \/ RecordCodPayment(w, p) \/ CapturePayment(w, p)
       \/ ProcessRefund(w, p) \/ GetPayment(w, p)
       \/ VerifyPayment(w, p) \/ ListPayments(w, p)
       \/ StripeWebhook(w, p) \/ PayPalWebhook(w, p)
  \/ \E w \in Workers :
       \/ Authorize(w) \/ CreateIntent(w) \/ RefuseIntent(w)
       \/ Lookup(w) \/ ReadRow(w) \/ Fill(w)
       \/ FindByIntent(w) \/ PayBack(w) \/ Decide(w) \/ Insert(w)
       \/ LoadForUpdate(w) \/ CommitUpdate(w) \/ Store(w) \/ Interrupted(w)
  \/ \E p \in Ids : CacheExpires(p)

Spec == Init /\ [][Next]_vars

-----------------------------------------------------------------------------
(* Every refund on the books has been paid out by the gateway, whatever    *)
(* overlaps or dies: ProcessRefund records only what it has paid.          *)
RefundsArePaid ==
  \A p \in Ids : rows[p] # Absent => rows[p].refunds \subseteq paidBack[p]

(* Where no requests overlapped and none was interrupted, the refunded     *)
(* amount is the sum of the refund rows, and the status says how much of   *)
(* the payment was refunded.                                               *)
BooksAgree ==
  ~disturbed =>
    \A p \in Ids : rows[p] # Absent =>
      LET total == MapThenSumSet(LAMBDA r : SizeOf[r], rows[p].refunds)
      IN  /\ rows[p].refunded = total
          /\ (rows[p].status = "REFUNDED") <=> (total > 0 /\ total = Amount)
          /\ (rows[p].status = "PARTIALLY_REFUNDED") <=> (total \in 1..(Amount-1))

(* A refund row, once there, stays, however stale the copy a later request *)
(* saves: payments are saved whole, and only the loaded rows are compared. *)
RefundsAreKept ==
  [][\A p \in Ids : rows[p] # Absent =>
       /\ rows'[p] # Absent
       /\ rows[p].refunds \subseteq rows'[p].refunds]_rows

(* The status moves along these edges only.  The way back from a refund to *)
(* CAPTURED is real: a capture that loaded the row before the refund was   *)
(* committed writes its whole copy over it.                                *)
Moves == {<<"AUTHORIZED", "CAPTURED">>, <<"CAPTURED", "REFUNDED">>,
          <<"CAPTURED", "PARTIALLY_REFUNDED">>, <<"COMPLETED", "REFUNDED">>,
          <<"COMPLETED", "PARTIALLY_REFUNDED">>, <<"REFUNDED", "CAPTURED">>,
          <<"PARTIALLY_REFUNDED", "CAPTURED">>, <<"REFUNDED", "COMPLETED">>,
          <<"PARTIALLY_REFUNDED", "COMPLETED">>,
          <<"REFUNDED", "PARTIALLY_REFUNDED">>,
          <<"PARTIALLY_REFUNDED", "REFUNDED">>}
StatusMoves ==
  [][\A p \in Ids : rows[p] # Absent /\ rows'[p] # rows[p] =>
       \/ rows'[p].status = rows[p].status
       \/ <<rows[p].status, rows'[p].status>> \in Moves]_rows

(* A success webhook that was handled has settled the payment it is about. *)
WebhookSettles == \A p \in heard : rows[p].status = "COMPLETED"

=============================================================================
