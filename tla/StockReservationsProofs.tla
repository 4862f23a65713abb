---------------------- MODULE StockReservationsProofs ----------------------
(***************************************************************************)
(* Theorems about StockReservations and StockBooks, for every set of       *)
(* products, number of reservations, of callers and every quantity.        *)
(***************************************************************************)
EXTENDS StockBooks, FiniteSetTheorems, TLAPS

(* The conditions and values the transactions are written with are used by *)
(* their definitions throughout.                                           *)
USE DEF InStock, AlreadyConfirmed, AlreadyReleased, Restored, StatusWritten

(* Every variable keeps its type along every step.                         *)
THEOREM Typing == Spec => []TypeOK
<1>1. Init => TypeOK
  BY QuantityAssumption, CallerAssumption
  DEF Init, TypeOK, Quantities, NoItems, ReservationStatus
<1>2. TypeOK /\ [Next]_vars => TypeOK'
  <2> SUFFICES ASSUME TypeOK, [Next]_vars PROVE TypeOK'
    OBVIOUS
  <2> USE DEF TypeOK
  <2>1. ASSUME NEW r \in ReservationIds, NEW q \in Quantities, Reserve(r, q)
        PROVE  TypeOK'
    <3>1. \A p \in Products : q[p] \in Int
      BY DEF Quantities
    <3> QED
      BY <2>1, <3>1 DEF Reserve, ReservationStatus
  <2>2. ASSUME NEW r \in ReservationIds, TtlPasses(r) PROVE TypeOK'
    BY <2>2 DEF TtlPasses
  <2>3. ASSUME NEW c \in Confirmers, NEW r \in ReservationIds,
               ReadForConfirm(c, r) \/ CommitConfirm(c, r)
        PROVE  TypeOK'
    <3>1. \A p \in Products : items[r][p] \in Int
      BY DEF Quantities
    <3> QED
      BY <2>3, <3>1 DEF ReadForConfirm, CommitConfirm, ReservationStatus, Callers
  <2>4. ASSUME NEW c \in Releasers, NEW r \in ReservationIds,
               ReadForRelease(c, r) \/ CommitRelease(c, r)
        PROVE  TypeOK'
    <3>1. \A p \in Products : items[r][p] \in Int
      BY DEF Quantities
    <3> QED
      BY <2>4, <3>1 DEF ReadForRelease, CommitRelease, ReservationStatus, Callers
  <2>5. ASSUME NEW c \in Callers, Abort(c) PROVE TypeOK'
    BY <2>5 DEF Abort
  <2>6. CASE UNCHANGED vars
    BY <2>6 DEF vars
  <2> QED
    BY <2>1, <2>2, <2>3, <2>4, <2>5, <2>6 DEF Next
<1> QED
  BY <1>1, <1>2, PTL DEF Spec

-----------------------------------------------------------------------------
(* Statuses and items change from st, it to st2, it2 at reservation r only. *)
OnlyAt(r, st, it, st2, it2) ==
  \A x \in ReservationIds : x # r => st2[x] = st[x] /\ it2[x] = it[x]

(* Counting.  A reservation's share of the units of one product is a block *)
(* of exactly as many elements as its quantity.                            *)
LEMMA BlockSize ==
  ASSUME NEW r, NEW k \in Nat
  PROVE  /\ IsFiniteSet({r} \X (1..k))
         /\ Cardinality({r} \X (1..k)) = k
<1>1. IsFiniteSet(1..k) /\ Cardinality(1..k) = k
  BY FS_Interval
<1>2. IsFiniteSet({r}) /\ Cardinality({r}) = 1
  BY FS_Singleton
<1>3. /\ IsFiniteSet({r} \X (1..k))
      /\ Cardinality({r} \X (1..k)) = Cardinality({r}) * Cardinality(1..k)
  BY <1>1, <1>2, FS_Product
<1> QED
  BY <1>1, <1>2, <1>3

(* There are finitely many units, so they can be counted.                  *)
LEMMA UnitsFinite ==
  ASSUME NEW st, NEW it, NEW p, NEW s
  PROVE  /\ IsFiniteSet(Units(st, it, p, s))
         /\ Cardinality(Units(st, it, p, s)) \in Nat
<1>1. IsFiniteSet(1..MaxQuantity)
  BY QuantityAssumption, FS_Interval
<1>2. IsFiniteSet(ReservationIds \X (1..MaxQuantity))
  BY <1>1, FinitenessAssumption, FS_Product
<1>3. Units(st, it, p, s) \in SUBSET (ReservationIds \X (1..MaxQuantity))
  BY DEF Units
<1>4. IsFiniteSet(Units(st, it, p, s))
  BY <1>2, <1>3, FS_Subset
<1> QED
  BY <1>4, FS_CardinalityType

(* A reservation that enters status s adds its quantity to the count.      *)
LEMMA UnitsEnter ==
  ASSUME NEW st, NEW it \in [ReservationIds -> Quantities],
         NEW st2, NEW it2 \in [ReservationIds -> Quantities],
         NEW r \in ReservationIds, NEW s, NEW p \in Products,
         OnlyAt(r, st, it, st2, it2), st[r] # s, st2[r] = s
  PROVE  Cardinality(Units(st2, it2, p, s)) =
           Cardinality(Units(st, it, p, s)) + it2[r][p]
<1> DEFINE B == {r} \X (1..it2[r][p])
<1>1. it2[r][p] \in 0..MaxQuantity
  BY DEF Quantities
<1>2. it2[r][p] \in Nat /\ it2[r][p] <= MaxQuantity
  BY <1>1, QuantityAssumption
<1>3. Units(st2, it2, p, s) = Units(st, it, p, s) \cup B
  <2> USE DEF OnlyAt
  <2>1. ASSUME NEW u \in Units(st2, it2, p, s)
        PROVE  u \in Units(st, it, p, s) \cup B
    <3>1. PICK x \in ReservationIds, k \in 1..MaxQuantity :
             u = <<x, k>> /\ st2[x] = s /\ k <= it2[x][p]
      BY <2>1 DEF Units
    <3>2. CASE x = r
      BY <3>1, <3>2, <1>2, QuantityAssumption
    <3>3. CASE x # r
      BY <3>1, <3>3 DEF Units
    <3> QED
      BY <3>2, <3>3
  <2>2. ASSUME NEW u \in Units(st, it, p, s)
        PROVE  u \in Units(st2, it2, p, s)
    <3>1. PICK x \in ReservationIds, k \in 1..MaxQuantity :
             u = <<x, k>> /\ st[x] = s /\ k <= it[x][p]
      BY <2>2 DEF Units
    <3>2. x # r
      BY <3>1
    <3> QED
      BY <3>1, <3>2 DEF Units
  <2>3. ASSUME NEW u \in B
        PROVE  u \in Units(st2, it2, p, s)
    <3>1. PICK k \in 1..it2[r][p] : u = <<r, k>>
      BY <2>3
    <3>2. k \in 1..MaxQuantity /\ k <= it2[r][p]
      BY <3>1, <1>2, QuantityAssumption
    <3> QED
      BY <3>1, <3>2 DEF Units
  <2> QED
    BY <2>1, <2>2, <2>3
<1>4. Units(st, it, p, s) \cap B = {}
  BY DEF Units
<1>5. IsFiniteSet(B) /\ Cardinality(B) = it2[r][p]
  BY <1>2, BlockSize
<1>6. IsFiniteSet(Units(st, it, p, s)) /\ Cardinality(Units(st, it, p, s)) \in Nat
  BY UnitsFinite
<1>7. Cardinality(Units(st, it, p, s) \cup B) =
        Cardinality(Units(st, it, p, s)) + Cardinality(B)
          - Cardinality(Units(st, it, p, s) \cap B)
  BY <1>5, <1>6, FS_Union
<1>8. Cardinality(Units(st, it, p, s) \cap B) = 0
  BY <1>4, FS_EmptySet
<1>9. Cardinality(Units(st2, it2, p, s)) = Cardinality(Units(st, it, p, s) \cup B)
  BY <1>3
<1> HIDE DEF B
<1> QED
  BY <1>2, <1>5, <1>6, <1>7, <1>8, <1>9

(* A reservation that leaves status s takes its quantity out of the count: *)
(* the same step read backwards.                                           *)
LEMMA UnitsLeave ==
  ASSUME NEW st, NEW it \in [ReservationIds -> Quantities],
         NEW st2, NEW it2 \in [ReservationIds -> Quantities],
         NEW r \in ReservationIds, NEW s, NEW p \in Products,
         OnlyAt(r, st, it, st2, it2), st[r] = s, st2[r] # s
  PROVE  Cardinality(Units(st2, it2, p, s)) =
           Cardinality(Units(st, it, p, s)) - it[r][p]
<1>1. Cardinality(Units(st, it, p, s)) =
        Cardinality(Units(st2, it2, p, s)) + it[r][p]
  <2>1. OnlyAt(r, st2, it2, st, it)
    BY DEF OnlyAt
  <2> QED
    BY <2>1, UnitsEnter
<1>2. it[r][p] \in 0..MaxQuantity
  BY DEF Quantities
<1> QED
  BY <1>1, <1>2, UnitsFinite, QuantityAssumption

(* A reservation that is in status s neither before nor after changes      *)
(* nothing there.                                                          *)
LEMMA UnitsElsewhere ==
  ASSUME NEW st, NEW it, NEW st2, NEW it2,
         NEW r \in ReservationIds, NEW s, NEW p \in Products,
         OnlyAt(r, st, it, st2, it2), st[r] # s, st2[r] # s
  PROVE  Cardinality(Units(st2, it2, p, s)) = Cardinality(Units(st, it, p, s))
<1>1. Units(st2, it2, p, s) = Units(st, it, p, s)
  BY DEF Units, OnlyAt
<1> QED
  BY <1>1

-----------------------------------------------------------------------------
(* What one commit does to the two sums of one product.                    *)

LEMMA HoldSums ==
  ASSUME TypeOK, TypeOK', NEW r \in ReservationIds, NEW q \in Quantities,
         Reserve(r, q), NEW p \in Products
  PROVE  Held(p)' = Held(p) + q[p] /\ Sold(p)' = Sold(p)
<1>1. /\ status[r] = "NONE" /\ status'[r] = "PENDING" /\ items'[r] = q
      /\ OnlyAt(r, status, items, status', items')
  BY DEF Reserve, TypeOK, OnlyAt
<1>2. Held(p)' = Held(p) + q[p]
  BY <1>1, UnitsEnter DEF Held, TypeOK
<1>3. Sold(p)' = Sold(p)
  BY <1>1, UnitsElsewhere DEF Sold
<1> QED
  BY <1>2, <1>3

(* A reservation that was not CONFIRMED becomes CONFIRMED: it leaves the   *)
(* held sum if it was PENDING, and enters the sold sum in any case.        *)
LEMMA ConfirmSums ==
  ASSUME TypeOK, TypeOK', NEW r \in ReservationIds, NEW p \in Products,
         OnlyAt(r, status, items, status', items'), items'[r] = items[r],
         status[r] # "CONFIRMED", status'[r] = "CONFIRMED"
  PROVE  /\ Held(p)' = IF status[r] = "PENDING" THEN Held(p) - items[r][p] ELSE Held(p)
         /\ Sold(p)' = Sold(p) + items[r][p]
<1>0. /\ items \in [ReservationIds -> Quantities]
      /\ items' \in [ReservationIds -> Quantities]
  BY DEF TypeOK
<1>1. Sold(p)' = Sold(p) + items[r][p]
  BY <1>0, UnitsEnter DEF Sold
<1>2. CASE status[r] = "PENDING"
  <2>1. Held(p)' = Held(p) - items[r][p]
    BY <1>2, <1>0, UnitsLeave DEF Held
  <2> QED
    BY <1>1, <1>2, <2>1
<1>3. CASE status[r] # "PENDING"
  <2>1. Held(p)' = Held(p)
    BY <1>3, UnitsElsewhere DEF Held
  <2> QED
    BY <1>1, <1>3, <2>1
<1> QED
  BY <1>2, <1>3

(* A reservation becomes RELEASED: it leaves whichever sum it was in.      *)
LEMMA ReleaseSums ==
  ASSUME TypeOK, TypeOK', NEW r \in ReservationIds, NEW p \in Products,
         OnlyAt(r, status, items, status', items'), status'[r] = "RELEASED"
  PROVE  /\ Held(p)' = IF status[r] = "PENDING" THEN Held(p) - items[r][p] ELSE Held(p)
         /\ Sold(p)' = IF status[r] = "CONFIRMED" THEN Sold(p) - items[r][p] ELSE Sold(p)
<1>0. /\ items \in [ReservationIds -> Quantities]
      /\ items' \in [ReservationIds -> Quantities]
  BY DEF TypeOK
<1>1. CASE status[r] = "PENDING"
  <2>1. Held(p)' = Held(p) - items[r][p]
    BY <1>1, <1>0, UnitsLeave DEF Held
  <2>2. Sold(p)' = Sold(p)
    BY <1>1, UnitsElsewhere DEF Sold
  <2> QED
    BY <1>1, <2>1, <2>2
<1>2. CASE status[r] # "PENDING"
  <2>1. Held(p)' = Held(p)
    BY <1>2, UnitsElsewhere DEF Held
  <2>2. CASE status[r] = "CONFIRMED"
    <3>1. Sold(p)' = Sold(p) - items[r][p]
      BY <2>2, <1>0, UnitsLeave DEF Sold
    <3> QED
      BY <2>2, <2>1, <3>1
  <2>3. CASE status[r] # "CONFIRMED"
    <3>1. Sold(p)' = Sold(p)
      BY <2>3, UnitsElsewhere DEF Sold
    <3> QED
      BY <1>2, <2>3, <2>1, <3>1
  <2> QED
    BY <2>2, <2>3
<1> QED
  BY <1>1, <1>2

(* Sums are natural numbers.                                               *)
LEMMA SumTypes ==
  ASSUME NEW p \in Products
  PROVE  Held(p) \in Nat /\ Sold(p) \in Nat
BY UnitsFinite DEF Held, Sold

(* A step of a commit or of a reservation, seen from one product: every    *)
(* other step leaves the columns and both sums alone.                      *)
LEMMA QuietSteps ==
  ASSUME UNCHANGED <<available, reserved, status, items>>, NEW p \in Products
  PROVE  /\ available'[p] = available[p] /\ reserved'[p] = reserved[p]
         /\ Held(p)' = Held(p) /\ Sold(p)' = Sold(p)
BY DEF Held, Sold

LEMMA ReserveStep ==
  ASSUME TypeOK, TypeOK', NEW r \in ReservationIds, NEW q \in Quantities,
         Reserve(r, q), NEW p \in Products
  PROVE  /\ available'[p] = available[p] - q[p]
         /\ reserved'[p] = reserved[p] + q[p]
         /\ q[p] \in Nat /\ q[p] <= available[p]
         /\ Held(p)' = Held(p) + q[p] /\ Sold(p)' = Sold(p)
<1>1. q[p] \in 0..MaxQuantity
  BY DEF Quantities
<1>2. Held(p)' = Held(p) + q[p] /\ Sold(p)' = Sold(p)
  BY HoldSums
<1> QED
  BY <1>1, <1>2, QuantityAssumption DEF Reserve, TypeOK

LEMMA CommitConfirmStep ==
  ASSUME TypeOK, TypeOK', NEW c \in Confirmers, NEW r \in ReservationIds,
         CommitConfirm(c, r), status[r] # "CONFIRMED", NEW p \in Products
  PROVE  /\ available'[p] = available[p]
         /\ reserved'[p] = reserved[p] - items[r][p]
         /\ Held(p)' = IF status[r] = "PENDING" THEN Held(p) - items[r][p] ELSE Held(p)
         /\ Sold(p)' = Sold(p) + items[r][p]
<1>1. /\ OnlyAt(r, status, items, status', items')
      /\ items'[r] = items[r] /\ status'[r] = "CONFIRMED"
  BY DEF CommitConfirm, OnlyAt, TypeOK
<1>2. available'[p] = available[p] /\ reserved'[p] = reserved[p] - items[r][p]
  BY DEF CommitConfirm, TypeOK
<1> QED
  BY <1>1, <1>2, ConfirmSums

LEMMA CommitReleaseStep ==
  ASSUME TypeOK, TypeOK', NEW c \in Releasers, NEW r \in ReservationIds,
         CommitRelease(c, r), status[r] \notin {"RELEASED", "EXPIRED"},
         NEW p \in Products
  PROVE  /\ available'[p] = available[p] + items[r][p]
         /\ reserved'[p] = reserved[p] - items[r][p]
         /\ Held(p)' = IF status[r] = "PENDING" THEN Held(p) - items[r][p] ELSE Held(p)
         /\ Sold(p)' = IF status[r] = "CONFIRMED" THEN Sold(p) - items[r][p] ELSE Sold(p)
<1>1. OnlyAt(r, status, items, status', items') /\ status'[r] = "RELEASED"
  BY DEF CommitRelease, OnlyAt, TypeOK
<1>2. /\ available'[p] = available[p] + items[r][p]
      /\ reserved'[p] = reserved[p] - items[r][p]
  BY DEF CommitRelease, TypeOK
<1> QED
  BY <1>1, <1>2, ReleaseSums

LEMMA ItemQuantity ==
  ASSUME TypeOK, NEW r \in ReservationIds, NEW p \in Products
  PROVE  items[r][p] \in Nat
<1>1. items[r][p] \in 0..MaxQuantity
  BY DEF TypeOK, Quantities
<1> QED
  BY <1>1, QuantityAssumption

(* At the start nothing is held or sold.                                   *)
LEMMA SumsAtStart ==
  ASSUME Init, NEW p \in Products
  PROVE  Held(p) = 0 /\ Sold(p) = 0
<1>1. /\ Units(status, items, p, "PENDING") = {}
      /\ Units(status, items, p, "CONFIRMED") = {}
  BY DEF Init, Units
<1> QED
  BY <1>1, FS_EmptySet DEF Held, Sold

-----------------------------------------------------------------------------
(* No oversell, whoever calls what: the check and the decrement share a    *)
(* transaction, and every other step only adds to the free quantity.       *)
THEOREM NeverOversold == Spec => []NoOversell
<1>1. Init => NoOversell
  BY QuantityAssumption DEF Init, NoOversell
<1>2. TypeOK /\ TypeOK' /\ NoOversell /\ [Next]_vars => NoOversell'
  <2> SUFFICES ASSUME TypeOK, TypeOK', NoOversell, [Next]_vars, NEW p \in Products
               PROVE  available'[p] >= 0
    BY DEF NoOversell
  <2>0. available[p] \in Int /\ available[p] >= 0
    BY DEF NoOversell, TypeOK
  <2>1. ASSUME NEW r \in ReservationIds, NEW q \in Quantities, Reserve(r, q)
        PROVE  available'[p] >= 0
    BY <2>0, <2>1, ReserveStep
  <2>2. ASSUME NEW c \in Releasers, NEW r \in ReservationIds, CommitRelease(c, r)
        PROVE  available'[p] >= 0
    <3>1. CASE status[r] \in {"RELEASED", "EXPIRED"}
      BY <2>0, <2>2, <3>1 DEF CommitRelease
    <3>2. CASE status[r] \notin {"RELEASED", "EXPIRED"}
      BY <2>0, <2>2, <3>2, CommitReleaseStep, ItemQuantity
    <3> QED
      BY <3>1, <3>2
  <2>3. CASE available' = available
    BY <2>0, <2>3
  <2> QED
    BY <2>1, <2>2, <2>3
    DEF Next, vars, TtlPasses, ReadForConfirm, CommitConfirm, ReadForRelease, Abort
<1> QED
  BY <1>1, <1>2, Typing, PTL DEF Spec

(* No unit of stock disappears, whatever overlaps and whoever dies: the    *)
(* only error the commits can make is to count a unit twice.               *)
THEOREM NothingIsLost == Spec => []NothingLost
<1>1. Init => NothingLost
  <2> SUFFICES ASSUME Init, NEW p \in Products
               PROVE  /\ available[p] + Held(p) + Sold(p) >= InitialStock[p]
                      /\ reserved[p] <= Held(p)
    BY DEF NothingLost
  <2>1. available[p] = InitialStock[p] /\ reserved[p] = 0 /\ InitialStock[p] \in Nat
    BY QuantityAssumption DEF Init, NoItems
  <2> QED
    BY <2>1, SumsAtStart
<1>2. TypeOK /\ TypeOK' /\ NothingLost /\ [Next]_vars => NothingLost'
  <2> SUFFICES ASSUME TypeOK, TypeOK', NothingLost, [Next]_vars, NEW p \in Products
               PROVE  /\ available'[p] + Held(p)' + Sold(p)' >= InitialStock[p]
                      /\ reserved'[p] <= Held(p)'
    BY DEF NothingLost
  <2> DEFINE Claim == /\ available'[p] + Held(p)' + Sold(p)' >= InitialStock[p]
                      /\ reserved'[p] <= Held(p)'
  <2>0. /\ available[p] \in Int /\ reserved[p] \in Int /\ InitialStock[p] \in Nat
        /\ Held(p) \in Nat /\ Sold(p) \in Nat
        /\ available[p] + Held(p) + Sold(p) >= InitialStock[p]
        /\ reserved[p] <= Held(p)
    BY SumTypes, QuantityAssumption DEF TypeOK, NothingLost
  <2>1. ASSUME NEW r \in ReservationIds, NEW q \in Quantities, Reserve(r, q)
        PROVE  Claim
    <3>1. /\ available'[p] = available[p] - q[p]
          /\ reserved'[p] = reserved[p] + q[p]
          /\ q[p] \in Nat
          /\ Held(p)' = Held(p) + q[p] /\ Sold(p)' = Sold(p)
      BY <2>1, ReserveStep
    <3> QED
      BY <2>0, <3>1
  <2>2. ASSUME NEW c \in Confirmers, NEW r \in ReservationIds, CommitConfirm(c, r),
               status[r] # "CONFIRMED"
        PROVE  Claim
    <3>1. /\ available'[p] = available[p]
          /\ reserved'[p] = reserved[p] - items[r][p]
          /\ Held(p)' = IF status[r] = "PENDING" THEN Held(p) - items[r][p] ELSE Held(p)
          /\ Sold(p)' = Sold(p) + items[r][p]
          /\ items[r][p] \in Nat
      BY <2>2, CommitConfirmStep, ItemQuantity
    <3> QED
      BY <2>0, <3>1
  <2>3. ASSUME NEW c \in Releasers, NEW r \in ReservationIds, CommitRelease(c, r),
               status[r] \notin {"RELEASED", "EXPIRED"}
        PROVE  Claim
    <3>1. /\ available'[p] = available[p] + items[r][p]
          /\ reserved'[p] = reserved[p] - items[r][p]
          /\ Held(p)' = IF status[r] = "PENDING" THEN Held(p) - items[r][p] ELSE Held(p)
          /\ Sold(p)' = IF status[r] = "CONFIRMED" THEN Sold(p) - items[r][p] ELSE Sold(p)
          /\ items[r][p] \in Nat
      BY <2>3, CommitReleaseStep, ItemQuantity
    <3> QED
      BY <2>0, <3>1
  <2>4. CASE UNCHANGED <<available, reserved, status, items>>
    BY <2>0, <2>4, QuietSteps
  <2> QED
    BY <2>1, <2>2, <2>3, <2>4
    DEF Next, vars, TtlPasses, ReadForConfirm, CommitConfirm, ReadForRelease,
        CommitRelease, Abort
<1> QED
  BY <1>1, <1>2, Typing, PTL DEF Spec

-----------------------------------------------------------------------------
(* The books.  They balance exactly as long as the two read-then-write use *)
(* cases are not both in use: a transaction then finds the status its      *)
(* caller decided on, or the one its early return expects.  That is what   *)
(* OneSided says, and what the transactions alone do not guarantee.        *)
Exclusive == Confirmers = {} \/ Releasers = {}

OneSided ==
  /\ \A c \in Callers : call[c] # Idle => status[call[c]] # "NONE"
  /\ \A r \in ReservationIds : /\ status[r] # "EXPIRED"
                               /\ Confirmers = {} => status[r] # "CONFIRMED"
                               /\ Releasers = {} => status[r] # "RELEASED"

LEMMA OneSidedInvariant == Spec => []OneSided
<1>1. Init => OneSided
  BY CallerAssumption DEF Init, OneSided
<1>2. TypeOK /\ OneSided /\ [Next]_vars => OneSided'
  <2> SUFFICES ASSUME TypeOK, OneSided, [Next]_vars PROVE OneSided'
    OBVIOUS
  <2> USE DEF OneSided
  <2>1. ASSUME NEW r \in ReservationIds, NEW q \in Quantities, Reserve(r, q)
        PROVE  OneSided'
    BY <2>1 DEF Reserve, TypeOK
  <2>2. ASSUME NEW r \in ReservationIds, TtlPasses(r) PROVE OneSided'
    BY <2>2 DEF TtlPasses
  <2>3. ASSUME NEW c \in Confirmers, NEW r \in ReservationIds, ReadForConfirm(c, r)
        PROVE  OneSided'
    BY <2>3 DEF ReadForConfirm, TypeOK, Callers
  <2>4. ASSUME NEW c \in Confirmers, NEW r \in ReservationIds, CommitConfirm(c, r)
        PROVE  OneSided'
    <3>1. CASE status[r] = "CONFIRMED"
      BY <2>4, <3>1 DEF CommitConfirm, TypeOK, Callers
    <3>2. CASE status[r] # "CONFIRMED"
      BY <2>4, <3>2 DEF CommitConfirm, TypeOK, Callers
    <3> QED
      BY <3>1, <3>2
  <2>5. ASSUME NEW c \in Releasers, NEW r \in ReservationIds, ReadForRelease(c, r)
        PROVE  OneSided'
    BY <2>5 DEF ReadForRelease, TypeOK, Callers
  <2>6. ASSUME NEW c \in Releasers, NEW r \in ReservationIds, CommitRelease(c, r)
        PROVE  OneSided'
    <3>1. CASE status[r] \in {"RELEASED", "EXPIRED"}
      BY <2>6, <3>1 DEF CommitRelease, TypeOK, Callers
    <3>2. CASE status[r] \notin {"RELEASED", "EXPIRED"}
      BY <2>6, <3>2 DEF CommitRelease, TypeOK, Callers
    <3> QED
      BY <3>1, <3>2
  <2>7. ASSUME NEW c \in Callers, Abort(c) PROVE OneSided'
    BY <2>7 DEF Abort, TypeOK
  <2>8. CASE UNCHANGED vars
    BY <2>8 DEF vars
  <2> QED
    BY <2>1, <2>2, <2>3, <2>4, <2>5, <2>6, <2>7, <2>8 DEF Next
<1> QED
  BY <1>1, <1>2, Typing, PTL DEF Spec

(* A commit that changes a status therefore finds a pending reservation.   *)
LEMMA CommitsArePending ==
  ASSUME Exclusive, TypeOK, OneSided, NEW r \in ReservationIds
  PROVE  /\ \A c \in Confirmers : CommitConfirm(c, r) /\ status[r] # "CONFIRMED"
                                    => status[r] = "PENDING"
         /\ \A c \in Releasers :
              CommitRelease(c, r) /\ status[r] \notin {"RELEASED", "EXPIRED"}
                => status[r] = "PENDING"
<1>1. r # Idle
  BY CallerAssumption
<1>2. status[r] \in {"PENDING", "CONFIRMED", "RELEASED", "NONE"}
  BY DEF TypeOK, OneSided, ReservationStatus
<1>3. ASSUME NEW c \in Confirmers, CommitConfirm(c, r), status[r] # "CONFIRMED"
      PROVE  status[r] = "PENDING"
  BY <1>1, <1>2, <1>3 DEF Exclusive, OneSided, CommitConfirm, Callers
<1>4. ASSUME NEW c \in Releasers, CommitRelease(c, r),
             status[r] \notin {"RELEASED", "EXPIRED"}
      PROVE  status[r] = "PENDING"
  BY <1>1, <1>2, <1>4 DEF Exclusive, OneSided, CommitRelease, Callers
<1> QED
  BY <1>3, <1>4

(* The books balance, in every deployment that uses only one of the two    *)
(* read-then-write use cases.                                              *)
THEOREM BooksAlwaysBalance ==
  ASSUME Exclusive
  PROVE  Spec => []BooksBalance
<1>1. Init => BooksBalance
  <2> SUFFICES ASSUME Init, NEW p \in Products
               PROVE  /\ available[p] + Held(p) + Sold(p) = InitialStock[p]
                      /\ reserved[p] = Held(p)
    BY DEF BooksBalance
  <2>1. available[p] = InitialStock[p] /\ reserved[p] = 0 /\ InitialStock[p] \in Nat
    BY QuantityAssumption DEF Init, NoItems
  <2> QED
    BY <2>1, SumsAtStart
<1>2. TypeOK /\ TypeOK' /\ OneSided /\ BooksBalance /\ [Next]_vars => BooksBalance'
  <2> SUFFICES ASSUME TypeOK, TypeOK', OneSided, BooksBalance, [Next]_vars,
                      NEW p \in Products
               PROVE  /\ available'[p] + Held(p)' + Sold(p)' = InitialStock[p]
                      /\ reserved'[p] = Held(p)'
    BY DEF BooksBalance
  <2> DEFINE Claim == /\ available'[p] + Held(p)' + Sold(p)' = InitialStock[p]
                      /\ reserved'[p] = Held(p)'
  <2>0. /\ available[p] \in Int /\ reserved[p] \in Int /\ InitialStock[p] \in Nat
        /\ Held(p) \in Nat /\ Sold(p) \in Nat
        /\ available[p] + Held(p) + Sold(p) = InitialStock[p]
        /\ reserved[p] = Held(p)
    BY SumTypes, QuantityAssumption DEF TypeOK, BooksBalance
  <2>1. ASSUME NEW r \in ReservationIds, NEW q \in Quantities, Reserve(r, q)
        PROVE  Claim
    <3>1. /\ available'[p] = available[p] - q[p]
          /\ reserved'[p] = reserved[p] + q[p]
          /\ q[p] \in Nat
          /\ Held(p)' = Held(p) + q[p] /\ Sold(p)' = Sold(p)
      BY <2>1, ReserveStep
    <3> QED
      BY <2>0, <3>1
  <2>2. ASSUME NEW c \in Confirmers, NEW r \in ReservationIds, CommitConfirm(c, r),
               status[r] # "CONFIRMED"
        PROVE  Claim
    <3>1. /\ available'[p] = available[p]
          /\ reserved'[p] = reserved[p] - items[r][p]
          /\ Held(p)' = Held(p) - items[r][p]
          /\ Sold(p)' = Sold(p) + items[r][p]
          /\ items[r][p] \in Nat
      BY <2>2, CommitConfirmStep, CommitsArePending, ItemQuantity
    <3> QED
      BY <2>0, <3>1
  <2>3. ASSUME NEW c \in Releasers, NEW r \in ReservationIds, CommitRelease(c, r),
               status[r] \notin {"RELEASED", "EXPIRED"}
        PROVE  Claim
    <3>1. /\ available'[p] = available[p] + items[r][p]
          /\ reserved'[p] = reserved[p] - items[r][p]
          /\ Held(p)' = Held(p) - items[r][p]
          /\ Sold(p)' = Sold(p)
          /\ items[r][p] \in Nat
      BY <2>3, CommitReleaseStep, CommitsArePending, ItemQuantity
    <3> QED
      BY <2>0, <3>1
  <2>4. CASE UNCHANGED <<available, reserved, status, items>>
    BY <2>0, <2>4, QuietSteps
  <2> QED
    BY <2>1, <2>2, <2>3, <2>4
    DEF Next, vars, TtlPasses, ReadForConfirm, CommitConfirm, ReadForRelease,
        CommitRelease, Abort
<1> QED
  BY <1>1, <1>2, Typing, OneSidedInvariant, PTL DEF Spec

-----------------------------------------------------------------------------
(* In such a deployment the rows and their transactions implement the      *)
(* ledger: every commit is one of its steps or none at all.                *)
THEOREM ReservationsImplementLedger ==
  ASSUME Exclusive
  PROVE  Spec => ImplementsLedger
<1>1. Init => Ledger!Init
  BY DEF Init, Ledger!Init, NoItems
<1>2. TypeOK /\ OneSided /\ [Next]_vars => [Ledger!Next]_(Ledger!ledgerVars)
  <2> SUFFICES ASSUME TypeOK, OneSided, [Next]_vars
               PROVE  Ledger!Next \/ UNCHANGED <<available, status, items>>
    BY DEF Ledger!ledgerVars
  <2>1. ASSUME NEW r \in ReservationIds, NEW q \in Quantities, Reserve(r, q)
        PROVE  Ledger!Hold(r)
    BY <2>1 DEF Reserve, Ledger!Hold, Quantities
  <2>2. ASSUME NEW c \in Confirmers, NEW r \in ReservationIds, CommitConfirm(c, r)
        PROVE  Ledger!Sell(r) \/ UNCHANGED <<available, status, items>>
    BY <2>2, CommitsArePending DEF CommitConfirm, Ledger!Sell
  <2>3. ASSUME NEW c \in Releasers, NEW r \in ReservationIds, CommitRelease(c, r)
        PROVE  Ledger!GiveBack(r) \/ UNCHANGED <<available, status, items>>
    BY <2>3, CommitsArePending DEF CommitRelease, Ledger!GiveBack
  <2> QED
    BY <2>1, <2>2, <2>3
    DEF Next, vars, TtlPasses, ReadForConfirm, ReadForRelease, Abort, Ledger!Next
<1> QED
  BY <1>1, <1>2, Typing, OneSidedInvariant, PTL
  DEF Spec, ImplementsLedger, Ledger!Ledger

-----------------------------------------------------------------------------
(* With both in use, the books are kept until a commit resells what was    *)
(* given back.                                                             *)
LEMMA BooksAreBehaviours == BooksSpec => Spec
<1>1. BooksInit => Init
  BY DEF BooksInit
<1>2. [BooksNext]_booksVars => [Next]_vars
  BY DEF BooksNext, booksVars
<1> QED
  BY <1>1, <1>2, PTL DEF BooksSpec, Spec

(* A transaction that changes a status finds a pending reservation, or it  *)
(* is recorded in the history.                                             *)
LEMMA ConfirmFinds ==
  ASSUME TypeOK, OneSided, NEW c \in Confirmers, NEW r \in ReservationIds,
         CommitConfirm(c, r), status[r] # "CONFIRMED"
  PROVE  status[r] = "PENDING" \/ Resells
<1>1. r # Idle /\ c \in Callers
  BY CallerAssumption DEF Callers
<1>2. status[r] \in {"PENDING", "RELEASED"}
  BY <1>1 DEF TypeOK, OneSided, ReservationStatus, CommitConfirm
<1>3. status'[r] = "CONFIRMED"
  BY DEF CommitConfirm, TypeOK
<1> QED
  BY <1>2, <1>3 DEF Resells

LEMMA ReleaseFinds ==
  ASSUME TypeOK, OneSided, NEW c \in Releasers, NEW r \in ReservationIds,
         CommitRelease(c, r), status[r] \notin {"RELEASED", "EXPIRED"}
  PROVE  status[r] = "PENDING" \/ (status[r] = "CONFIRMED" /\ Returns)
<1>1. r # Idle /\ c \in Callers
  BY CallerAssumption DEF Callers
<1>2. status[r] \in {"PENDING", "CONFIRMED"}
  BY <1>1 DEF TypeOK, OneSided, ReservationStatus, CommitRelease
<1>3. status'[r] = "RELEASED"
  BY DEF CommitRelease, TypeOK
<1> QED
  BY <1>2, <1>3 DEF Returns

(* The books, for every number of overlapping confirmations and releases.  *)
(* (PostgresReservationRepository.)                                        *)
THEOREM BooksAreKept == BooksSpec => []BooksKept
<1>1. BooksInit => BooksKept
  <2> SUFFICES ASSUME Init, NEW p \in Products
               PROVE  /\ available[p] + Held(p) + Sold(p) = InitialStock[p]
                      /\ reserved[p] = Held(p)
    BY DEF BooksKept, BooksInit
  <2>1. available[p] = InitialStock[p] /\ reserved[p] = 0 /\ InitialStock[p] \in Nat
    BY QuantityAssumption DEF Init, NoItems
  <2> QED
    BY <2>1, SumsAtStart
<1>2. TypeOK /\ TypeOK' /\ OneSided /\ BooksKept /\ [BooksNext]_booksVars => BooksKept'
  <2> SUFFICES ASSUME TypeOK, TypeOK', OneSided, BooksKept, [BooksNext]_booksVars,
                      ~resold', NEW p \in Products
               PROVE  /\ available'[p] + Held(p)' + Sold(p)' = InitialStock[p]
                      /\ ~returned' => reserved'[p] = Held(p)'
    BY DEF BooksKept
  <2> DEFINE Claim == /\ available'[p] + Held(p)' + Sold(p)' = InitialStock[p]
                      /\ ~returned' => reserved'[p] = Held(p)'
  <2>1. /\ \/ Next /\ ~Resells /\ (~returned' => ~Returns)
           \/ UNCHANGED vars
        /\ ~resold
        /\ ~returned' => ~returned
    <3>1. CASE BooksNext
      BY <3>1, Zenon DEF BooksNext
    <3>2. CASE UNCHANGED booksVars
      BY <3>2 DEF booksVars
    <3> QED
      BY <3>1, <3>2
  <2>2. /\ available[p] \in Int /\ reserved[p] \in Int /\ InitialStock[p] \in Nat
        /\ Held(p) \in Nat /\ Sold(p) \in Nat
        /\ available[p] + Held(p) + Sold(p) = InitialStock[p]
        /\ ~returned => reserved[p] = Held(p)
    BY <2>1, SumTypes, QuantityAssumption DEF TypeOK, BooksKept
  <2>3. ASSUME NEW r \in ReservationIds, NEW q \in Quantities, Reserve(r, q)
        PROVE  Claim
    <3>1. /\ available'[p] = available[p] - q[p]
          /\ reserved'[p] = reserved[p] + q[p]
          /\ q[p] \in Nat
          /\ Held(p)' = Held(p) + q[p] /\ Sold(p)' = Sold(p)
      BY <2>3, ReserveStep
    <3> QED
      BY <2>1, <2>2, <3>1
  <2>4. ASSUME NEW c \in Confirmers, NEW r \in ReservationIds, CommitConfirm(c, r),
               status[r] # "CONFIRMED", ~Resells
        PROVE  Claim
    <3>1. /\ available'[p] = available[p]
          /\ reserved'[p] = reserved[p] - items[r][p]
          /\ Held(p)' = Held(p) - items[r][p]
          /\ Sold(p)' = Sold(p) + items[r][p]
          /\ items[r][p] \in Nat
      BY <2>4, CommitConfirmStep, ConfirmFinds, ItemQuantity
    <3> QED
      BY <2>1, <2>2, <3>1
  <2>5. ASSUME NEW c \in Releasers, NEW r \in ReservationIds, CommitRelease(c, r),
               status[r] \notin {"RELEASED", "EXPIRED"}, ~returned' => ~Returns
        PROVE  Claim
    <3>1. /\ available'[p] = available[p] + items[r][p]
          /\ reserved'[p] = reserved[p] - items[r][p]
          /\ Held(p)' = IF status[r] = "PENDING" THEN Held(p) - items[r][p] ELSE Held(p)
          /\ Sold(p)' = IF status[r] = "CONFIRMED" THEN Sold(p) - items[r][p] ELSE Sold(p)
          /\ items[r][p] \in Nat
      BY <2>5, CommitReleaseStep, ItemQuantity
    <3>2. CASE status[r] = "PENDING"
      BY <2>1, <2>2, <3>1, <3>2
    <3>3. CASE status[r] = "CONFIRMED" /\ Returns
      BY <2>1, <2>2, <2>5, <3>1, <3>3
    <3> QED
      BY <2>5, <3>2, <3>3, ReleaseFinds
  <2>6. CASE UNCHANGED <<available, reserved, status, items>>
    BY <2>1, <2>2, <2>6, QuietSteps
  <2>7. CASE UNCHANGED vars
    BY <2>6, <2>7 DEF vars
  <2>8. CASE ~UNCHANGED vars
    <3>1. Next /\ ~Resells /\ (~returned' => ~Returns)
      BY <2>1, <2>8
    <3> QED
      BY <2>3, <2>4, <2>5, <2>6, <3>1
      DEF Next, TtlPasses, ReadForConfirm, CommitConfirm, ReadForRelease,
          CommitRelease, Abort
  <2> QED
    BY <2>7, <2>8
<1> QED
  BY <1>1, <1>2, BooksAreBehaviours, Typing, OneSidedInvariant, PTL DEF BooksSpec

(* And so long every step of the rows is a step of the ledger.             *)
THEOREM LedgerIsKept == BooksSpec => LedgerKept
<1>1. BooksInit => Ledger!Init
  BY DEF BooksInit, Init, Ledger!Init, NoItems
<1>2. TypeOK /\ OneSided /\ [BooksNext]_booksVars
        => [resold' \/ Ledger!Next]_(Ledger!ledgerVars)
  <2> SUFFICES ASSUME TypeOK, OneSided, [BooksNext]_booksVars, ~resold'
               PROVE  Ledger!Next \/ UNCHANGED <<available, status, items>>
    BY DEF Ledger!ledgerVars
  <2>0. [Next]_vars /\ (~Resells \/ UNCHANGED vars)
    BY DEF BooksNext, booksVars
  <2>1. ASSUME NEW r \in ReservationIds, NEW q \in Quantities, Reserve(r, q)
        PROVE  Ledger!Hold(r)
    BY <2>1 DEF Reserve, Ledger!Hold, Quantities
  <2>2. ASSUME NEW c \in Confirmers, NEW r \in ReservationIds, CommitConfirm(c, r),
               ~Resells
        PROVE  Ledger!Sell(r) \/ UNCHANGED <<available, status, items>>
    BY <2>2, ConfirmFinds DEF CommitConfirm, Ledger!Sell
  <2>3. ASSUME NEW c \in Releasers, NEW r \in ReservationIds, CommitRelease(c, r)
        PROVE  Ledger!GiveBack(r) \/ UNCHANGED <<available, status, items>>
    BY <2>3, ReleaseFinds DEF CommitRelease, Ledger!GiveBack
  <2>4. CASE UNCHANGED vars
    BY <2>4 DEF vars
  <2> QED
    BY <2>0, <2>1, <2>2, <2>3, <2>4
    DEF Next, vars, TtlPasses, ReadForConfirm, ReadForRelease, Abort, Ledger!Next
<1> QED
  BY <1>1, <1>2, BooksAreBehaviours, Typing, OneSidedInvariant, PTL
  DEF BooksSpec, LedgerKept

=============================================================================
