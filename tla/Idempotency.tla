----------------------------- MODULE Idempotency -----------------------------
(***************************************************************************)
(* The idempotency key of POST /orders/checkout: IdempotencyInterceptor    *)
(* around the handler, IdempotencyService on the Redis store.  Keys do not *)
(* interact, so the module follows the deliveries of one key.  Every await *)
(* on Redis is a step; a store write is two commands, JSON.SET and EXPIRE. *)
(***************************************************************************)
CONSTANTS
  Requests,    \* the deliveries of one client operation, all with the same key
  Nobody,      \* no request
  Outcomes,    \* what the handler may do: "order", "refused", "thrown"
  Faults       \* subset of {"store", "crash"}

ASSUME NobodyAssumption == Nobody \notin Requests
ASSUME OutcomesAssumption == Outcomes \subseteq {"order", "refused", "thrown"}
ASSUME FaultsAssumption == Faults \subseteq {"store", "crash"}

VARIABLES
  key,      \* the Redis entry: status, who wrote it, whether it has a TTL
  pc,       \* where each delivery is
  outcome,  \* what its handler returned: a Result, or an exception
  answer,   \* the request whose result the client was given
  placed,   \* the requests that placed an order since the key last expired
  disturbed \* history: requests overlapped, or a Redis command failed

keyVars == <<key, pc, outcome, answer, placed, disturbed>>

Ended == {"answered", "conflict", "dead"}
Underway == {"locking", "limiting", "handling", "completing", "dating", "releasing"}
InFlight == {r \in Requests : pc[r] \in Underway}

FreeKey == [status |-> "free", writer |-> Nobody, ttl |-> FALSE]

KeyTypeOK ==
  /\ key \in [status : {"free", "in-progress", "completed"},
              writer : Requests \cup {Nobody}, ttl : BOOLEAN]
  /\ pc \in [Requests -> {"idle"} \cup Underway \cup Ended]
  /\ outcome \in [Requests -> {"none", "order", "refused", "thrown"}]
  /\ answer \in [Requests -> Requests \cup {Nobody}]
  /\ placed \subseteq Requests
  /\ disturbed \in BOOLEAN
  /\ key.status = "free" <=> key.writer = Nobody

KeyInit ==
  /\ key = FreeKey
  /\ pc = [r \in Requests |-> "idle"]
  /\ outcome = [r \in Requests |-> "none"]
  /\ answer = [r \in Requests |-> Nobody]
  /\ placed = {}
  /\ disturbed = FALSE

-----------------------------------------------------------------------------
Goto(r, place) == pc' = [pc EXCEPT ![r] = place]

Arrives(r) == pc[r] = "idle" /\ disturbed' = (disturbed \/ InFlight # {})

\* mutant: Check takes a lock held by another request for a free key
CheckIgnoringLocks(r) ==
  /\ Arrives(r)
  /\ \/ key.status = "completed" /\ Goto(r, "answered")
        /\ answer' = [answer EXCEPT ![r] = key.writer]
     \/ key.status # "completed" /\ Goto(r, "locking") /\ UNCHANGED answer
  /\ UNCHANGED <<key, outcome, placed>>

\* checkAndLock reads the key: a result is replayed, a lock is a 409
Check(r) ==
  /\ Arrives(r)
  /\ \/ key.status = "completed" /\ Goto(r, "answered")
        /\ answer' = [answer EXCEPT ![r] = key.writer]
     \/ key.status = "in-progress" /\ Goto(r, "conflict") /\ UNCHANGED answer
     \/ key.status = "free" /\ Goto(r, "locking") /\ UNCHANGED answer
  /\ UNCHANGED <<key, outcome, placed>>

\* cacheService.set writes the whole value whatever the key holds by now;
\* the TTL of a value it overwrites may or may not survive until EXPIRE
Written(r, status, kept) ==
  key' = [status |-> status, writer |-> r, ttl |-> kept]

Lock(r) ==
  /\ pc[r] = "locking"
  /\ \E kept \in {FALSE, key.ttl} : Written(r, "in-progress", kept)
  /\ Goto(r, "limiting")
  /\ UNCHANGED <<outcome, answer, placed, disturbed>>

\* EXPIRE has no effect on a key that is gone
Dated == IF key.status = "free" THEN key ELSE [key EXCEPT !.ttl = TRUE]

LimitLock(r) ==
  /\ pc[r] = "limiting"
  /\ key' = Dated
  /\ Goto(r, "handling")
  /\ UNCHANGED <<outcome, answer, placed, disturbed>>

\* mutant: the key is released after every run
AlwaysReleased(o) == "releasing"

\* The checkout runs.  A Result, success or failure, is a value to the
\* interceptor; only an exception takes the catchError branch.
AfterRun(o) == IF o = "thrown" THEN "releasing" ELSE "completing"

Handle(r) ==
  /\ pc[r] = "handling"
  /\ \E o \in Outcomes :
       /\ outcome' = [outcome EXCEPT ![r] = o]
       /\ placed' = IF o = "order" THEN placed \cup {r} ELSE placed
       /\ Goto(r, AfterRun(o))
  /\ UNCHANGED <<key, answer, disturbed>>

Complete(r) ==
  /\ pc[r] = "completing"
  /\ \E kept \in {FALSE, key.ttl} : Written(r, "completed", kept)
  /\ Goto(r, "dating")
  /\ UNCHANGED <<outcome, answer, placed, disturbed>>

DateResult(r) ==
  /\ pc[r] = "dating"
  /\ key' = Dated
  /\ Goto(r, "answered")
  /\ answer' = [answer EXCEPT ![r] = r]
  /\ UNCHANGED <<outcome, placed, disturbed>>

\* release deletes the key, whoever wrote it
Release(r) ==
  /\ pc[r] = "releasing"
  /\ key' = FreeKey
  /\ Goto(r, "answered")
  /\ answer' = [answer EXCEPT ![r] = r]
  /\ UNCHANGED <<outcome, placed, disturbed>>

\* mutant: the errors of complete and release reach the client
StoreFailsUncaught(r) ==
  /\ "store" \in Faults
  /\ pc[r] \in {"idle", "locking", "limiting", "completing", "dating", "releasing"}
  /\ Goto(r, IF pc[r] \in {"completing", "dating", "releasing"} THEN "conflict"
             ELSE "handling")
  /\ disturbed' = TRUE
  /\ UNCHANGED <<key, outcome, answer, placed>>

\* A Redis command fails: checkAndLock lets the request through, complete and
\* release swallow the error and the client has its answer all the same.
StoreFails(r) ==
  /\ "store" \in Faults
  /\ \/ /\ pc[r] \in {"idle", "locking", "limiting"}
        /\ Goto(r, "handling")
        /\ UNCHANGED answer
     \/ /\ pc[r] \in {"completing", "dating", "releasing"}
        /\ Goto(r, "answered")
        /\ answer' = [answer EXCEPT ![r] = r]
  /\ disturbed' = TRUE
  /\ UNCHANGED <<key, outcome, placed>>

\* The API process dies: the client has no answer and may try again.
Crash(r) ==
  /\ "crash" \in Faults
  /\ r \in InFlight
  /\ Goto(r, "dead")
  /\ UNCHANGED <<key, outcome, answer, placed, disturbed>>

\* The TTL is 24 hours: it ends when no request is running.  What was placed
\* under the key before is past the time the key protects.
Expire ==
  /\ key.ttl /\ InFlight = {}
  /\ key' = FreeKey
  /\ placed' = {}
  /\ UNCHANGED <<pc, outcome, answer, disturbed>>

Proceed(r) ==
  Lock(r) \/ LimitLock(r) \/ Handle(r) \/ Complete(r) \/ DateResult(r) \/ Release(r)

KeyNext ==
  \/ \E r \in Requests : Check(r) \/ Proceed(r) \/ StoreFails(r) \/ Crash(r)
  \/ Expire

\* A running request goes on and a TTL runs out; nobody has to send a request.
KeyFairness ==
  /\ \A r \in Requests : WF_keyVars(Proceed(r))
  /\ WF_keyVars(Expire)

KeySpec == KeyInit /\ [][KeyNext]_keyVars /\ KeyFairness

-----------------------------------------------------------------------------
\* "Exactly once": while the key lasts, the deliveries of one operation place
\* one order between them.  Overlapping deliveries break it: checkAndLock reads
\* and locks in two commands.
OneOrder == \A r, s \in placed : r = s

\* A client that retries when its last attempt has ended or died places one
\* order at most, as long as Redis answers (checkAndLock).
AtMostOneOrder == ~disturbed => OneOrder

\* As long as its order stands under the key, the key is not free: whoever
\* comes next meets the lock or the result, never the handler (release).
OrderIsRemembered == ~disturbed /\ placed # {} => key.status # "free"

\* The result kept for replay is that of the order that was placed, so a
\* retry learns the order its first attempt made (complete).
ReplayIsTheOrder ==
  ~disturbed /\ key.status = "completed" /\ placed # {} => placed = {key.writer}

\* A handler that did not succeed leaves the key free, "to allow retry": no
\* client is given another request's failure (release).  The code does not
\* keep this: a failure is a value and is stored.
FailureAllowsRetry ==
  \A r \in Requests :
    pc[r] = "answered" /\ answer[r] # r => outcome[answer[r]] = "order"

\* Every request that reached the interceptor gets its answer, whatever
\* overlaps and whatever Redis does, unless its process dies (catch branches
\* of the service).
EveryRequestAnswered ==
  \A r \in Requests : pc[r] \in Underway ~> pc[r] \in {"answered", "dead"}

\* A lock does not outlive its request for ever: the key is settled with a
\* result or becomes free again, by release or by its TTL (set, expire).  The
\* code does not keep this when a process dies between the two commands.
LockIsSettled == key.status = "in-progress" ~> key.status # "in-progress"
=============================================================================
