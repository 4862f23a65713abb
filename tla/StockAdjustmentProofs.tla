----------------------- MODULE StockAdjustmentProofs -----------------------
(***************************************************************************)
(* Theorems about StockAdjustment, for any number of products, requests,   *)
(* reservations, callers and quantities.                                   *)
(***************************************************************************)
EXTENDS StockAdjustment, FiniteSetTheorems, TLAPS

(* A request holds a level from its read on and not before, and only an    *)
(* adjustment gets as far as writing.                                      *)
InHand == \A w \in Requesters :
            /\ step[w] \in {"fill", "apply", "refresh"} => copy[w] \in Level
            /\ step[w] \in {"idle", "lookup", "read"} => copy[w] = Missing
            /\ step[w] \in {"apply", "refresh"} => task[w] \in Commands

(* A reservation that does not exist yet has no items.                     *)
NoItemsYet == \A r \in ReservationIds :
                status[r] = "NONE" => items[r] = Reservations!NoItems

(* Neither the column, nor the cache, nor a copy in somebody's hands       *)
(* claims more reserved units than were ever asked for.                    *)
ReservedBounded ==
  /\ ReservedWasReserved
  /\ \A p \in Products : cache[p] \in Level => cache[p].reserved <= Cardinality(Asked(items, p))
  /\ \A w \in Requesters :
       copy[w] \in Level => copy[w].reserved <= Cardinality(Asked(items, on[w]))

IInv == TypeOK /\ InHand /\ NoItemsYet /\ NoOversell /\ ReservedBounded

USE DEF Reservations!InStock, Reservations!AlreadyConfirmed,
        Reservations!AlreadyReleased, Reservations!Restored,
        Reservations!StatusWritten, Reservations!Quantities,
        Reservations!NoItems, Reservations!Callers,
        Loadable, ReservedWritten

-----------------------------------------------------------------------------
(* There are finitely many units, so they can be counted.                  *)
LEMMA AskedFinite ==
  ASSUME NEW it, NEW p
  PROVE  IsFiniteSet(Asked(it, p)) /\ Cardinality(Asked(it, p)) \in Nat
<1>1. IsFiniteSet(1..MaxQuantity)
  BY StockAssumption, FS_Interval
<1>2. IsFiniteSet(ReservationIds \X (1..MaxQuantity))
  BY <1>1, StockAssumption, FS_Product
<1>3. Asked(it, p) \subseteq ReservationIds \X (1..MaxQuantity)
  BY DEF Asked
<1>4. IsFiniteSet(Asked(it, p))
  BY <1>2, <1>3, FS_Subset
<1> QED
  BY <1>4, FS_CardinalityType

(* A new reservation adds its own units to those asked for.                *)
LEMMA AskedGrows ==
  ASSUME NEW it \in [ReservationIds -> Reservations!Quantities],
         NEW r \in ReservationIds, it[r] = Reservations!NoItems,
         NEW q \in Reservations!Quantities, NEW p \in Products
  PROVE  Cardinality(Asked([it EXCEPT ![r] = q], p))
           = Cardinality(Asked(it, p)) + q[p]
<1> DEFINE new == {r} \X (1..q[p])
<1>1. q[p] \in Nat /\ q[p] <= MaxQuantity /\ it[r][p] = 0
  BY StockAssumption
<1>2. IsFiniteSet(1..q[p]) /\ Cardinality(1..q[p]) = q[p]
  BY <1>1, FS_Interval
<1>3. IsFiniteSet({r}) /\ Cardinality({r}) = 1
  BY FS_Singleton
<1>4. IsFiniteSet(new) /\ Cardinality(new) = Cardinality({r}) * Cardinality(1..q[p])
  BY <1>2, <1>3, FS_Product
<1>5. Cardinality(new) = q[p]
  BY <1>1, <1>2, <1>3, <1>4
<1>6. Asked([it EXCEPT ![r] = q], p) = Asked(it, p) \cup new
  BY <1>1, StockAssumption DEF Asked
<1>7. Asked(it, p) \cap new = {}
  BY <1>1, StockAssumption DEF Asked
<1>8. IsFiniteSet(Asked(it, p)) /\ Cardinality(Asked(it, p)) \in Nat
  BY AskedFinite
<1>9. Cardinality(Asked(it, p) \cup new)
        = Cardinality(Asked(it, p)) + Cardinality(new) - Cardinality(Asked(it, p) \cap new)
  BY <1>4, <1>8, FS_Union
<1>10. Cardinality(Asked(it, p) \cap new) = 0
  BY <1>7, FS_EmptySet
<1> HIDE DEF new
<1>11. Cardinality(Asked(it, p) \cup new) = Cardinality(Asked(it, p)) + q[p]
  BY <1>1, <1>5, <1>8, <1>9, <1>10
<1> QED
  BY <1>6, <1>11

(* Two numbers that grow by the same amount.                              *)
LEMMA BothGrow ==
  ASSUME NEW a \in Nat, NEW b, NEW q \in Nat, NEW x \in Int, NEW y,
         b = a + q, y = x + q
  PROVE  a <= b /\ (x <= a => y <= b)
  OBVIOUS

-----------------------------------------------------------------------------
(* What the reservations do to the rows, whoever else writes them: types   *)
(* stay, stock stays above zero, and the reserved column grows only with   *)
(* what is asked for.                                                      *)
LEMMA ReservationsKeep ==
  ASSUME Reservations!TypeOK, NoItemsYet, NoOversell, Reservations!Next
  PROVE  /\ Reservations!TypeOK'
         /\ NoItemsYet'
         /\ NoOversell'
         /\ \A p \in Products :
              /\ Cardinality(Asked(items, p)) <= Cardinality(Asked(items', p))
              /\ reserved[p] <= Cardinality(Asked(items, p))
                   => reserved'[p] <= Cardinality(Asked(items', p))
<1> USE DEF Reservations!TypeOK, NoOversell, Reservations!NoOversell, NoItemsYet
<1>0. \A p \in Products : /\ Cardinality(Asked(items, p)) \in Nat
                          /\ Cardinality(Asked(items', p)) \in Nat
  BY AskedFinite
<1>1. ASSUME NEW r \in ReservationIds, NEW q \in Reservations!Quantities,
             Reservations!Reserve(r, q)
      PROVE  /\ Reservations!TypeOK' /\ NoItemsYet' /\ NoOversell'
             /\ \A p \in Products :
                  /\ Cardinality(Asked(items, p)) <= Cardinality(Asked(items', p))
                  /\ reserved[p] <= Cardinality(Asked(items, p))
                       => reserved'[p] <= Cardinality(Asked(items', p))
  <2> USE <1>1 DEF Reservations!Reserve
  <2>1. \A p \in Products : q[p] \in Nat /\ q[p] \in Int
    BY StockAssumption
  <2>2. Reservations!TypeOK'
    BY <2>1 DEF Reservations!ReservationStatus
  <2>3. NoItemsYet' /\ NoOversell'
    BY <2>1
  <2>4. ASSUME NEW p \in Products
        PROVE  Cardinality(Asked(items', p)) = Cardinality(Asked(items, p)) + q[p]
    <3>1. /\ items \in [ReservationIds -> Reservations!Quantities]
          /\ items[r] = Reservations!NoItems
      BY DEF Reservations!TypeOK, NoItemsYet
    <3>2. items' = [items EXCEPT ![r] = q]
      OBVIOUS
    <3>3. Cardinality(Asked([items EXCEPT ![r] = q], p)) = Cardinality(Asked(items, p)) + q[p]
      <4> HIDE <1>1 DEF Asked, Reservations!Reserve, Reservations!TypeOK,
                        Reservations!Quantities, Reservations!NoItems
      <4> QED
        BY <3>1, AskedGrows
    <3> QED
      BY <3>2, <3>3
  <2>5. ASSUME NEW p \in Products
        PROVE  /\ Cardinality(Asked(items, p)) <= Cardinality(Asked(items', p))
               /\ reserved[p] <= Cardinality(Asked(items, p))
                    => reserved'[p] <= Cardinality(Asked(items', p))
    <3>1. reserved'[p] = reserved[p] + q[p] /\ reserved[p] \in Int
      OBVIOUS
    <3>2. /\ Cardinality(Asked(items, p)) \in Nat
          /\ Cardinality(Asked(items', p)) = Cardinality(Asked(items, p)) + q[p]
      BY <1>0, <2>4
    <3> QED
      BY <2>1, <3>1, <3>2, BothGrow
  <2> QED
    BY <2>2, <2>3, <2>5
<1>2. ASSUME NEW r \in ReservationIds, NEW c,
             \/ Reservations!TtlPasses(r)
             \/ c \in Confirmers /\ Reservations!ReadForConfirm(c, r)
             \/ c \in Releasers /\ Reservations!ReadForRelease(c, r)
             \/ c \in Confirmers \cup Releasers /\ Reservations!Abort(c)
      PROVE  /\ Reservations!TypeOK'
             /\ UNCHANGED <<available, reserved, status, items>>
  <2>1. CASE Reservations!TtlPasses(r)
    BY <2>1 DEF Reservations!TtlPasses
  <2>2. CASE c \in Confirmers /\ Reservations!ReadForConfirm(c, r)
    BY <2>2 DEF Reservations!ReadForConfirm
  <2>3. CASE c \in Releasers /\ Reservations!ReadForRelease(c, r)
    BY <2>3 DEF Reservations!ReadForRelease
  <2>4. CASE c \in Confirmers \cup Releasers /\ Reservations!Abort(c)
    BY <2>4 DEF Reservations!Abort
  <2> QED
    BY <1>2, <2>1, <2>2, <2>3, <2>4
<1>3. ASSUME NEW r \in ReservationIds, NEW c \in Confirmers \cup Releasers,
             \/ c \in Confirmers /\ Reservations!CommitConfirm(c, r)
             \/ c \in Releasers /\ Reservations!CommitRelease(c, r)
      PROVE  /\ Reservations!TypeOK' /\ NoItemsYet' /\ NoOversell'
             /\ items' = items
             /\ \A p \in Products : reserved'[p] <= reserved[p]
  <2>1. \A p \in Products : items[r][p] \in Nat /\ items[r][p] \in Int
    BY StockAssumption
  <2>2. CASE c \in Confirmers /\ Reservations!CommitConfirm(c, r)
    BY <2>1, <2>2 DEF Reservations!CommitConfirm, Reservations!ReservationStatus
  <2>3. CASE c \in Releasers /\ Reservations!CommitRelease(c, r)
    <3> USE <2>3 DEF Reservations!CommitRelease
    <3>1. Reservations!TypeOK' /\ items' = items
      BY <2>1 DEF Reservations!ReservationStatus
    <3>2. NoItemsYet'
      OBVIOUS
    <3>3. NoOversell'
      BY <2>1
    <3>4. \A p \in Products : reserved'[p] <= reserved[p]
      BY <2>1
    <3> QED
      BY <3>1, <3>2, <3>3, <3>4
  <2> QED
    BY <1>3, <2>2, <2>3
<1>4. ASSUME items' = items, \A p \in Products : reserved'[p] <= reserved[p],
             Reservations!TypeOK'
      PROVE  \A p \in Products :
                  /\ Cardinality(Asked(items, p)) <= Cardinality(Asked(items', p))
                  /\ reserved[p] <= Cardinality(Asked(items, p))
                       => reserved'[p] <= Cardinality(Asked(items', p))
  BY <1>0, <1>4
<1>5. ASSUME NEW r \in ReservationIds, NEW c,
             \/ Reservations!TtlPasses(r)
             \/ c \in Confirmers /\ Reservations!ReadForConfirm(c, r)
             \/ c \in Releasers /\ Reservations!ReadForRelease(c, r)
             \/ c \in Confirmers \cup Releasers /\ Reservations!Abort(c)
             \/ c \in Confirmers /\ Reservations!CommitConfirm(c, r)
             \/ c \in Releasers /\ Reservations!CommitRelease(c, r)
      PROVE  /\ Reservations!TypeOK' /\ NoItemsYet' /\ NoOversell'
             /\ items' = items
             /\ \A p \in Products : reserved'[p] <= reserved[p]
  <2>1. CASE \/ c \in Confirmers /\ Reservations!CommitConfirm(c, r)
             \/ c \in Releasers /\ Reservations!CommitRelease(c, r)
    BY <2>1, <1>3
  <2>2. CASE \/ Reservations!TtlPasses(r)
             \/ c \in Confirmers /\ Reservations!ReadForConfirm(c, r)
             \/ c \in Releasers /\ Reservations!ReadForRelease(c, r)
             \/ c \in Confirmers \cup Releasers /\ Reservations!Abort(c)
    BY <2>2, <1>2
  <2> QED
    BY <1>5, <2>1, <2>2
<1> HIDE DEF Reservations!TypeOK, NoOversell, Reservations!NoOversell, NoItemsYet
<1>6. CASE \E r \in ReservationIds, q \in Reservations!Quantities : Reservations!Reserve(r, q)
  BY <1>1, <1>6
<1>7. CASE \E r \in ReservationIds, c \in Confirmers \cup Releasers :
             \/ Reservations!TtlPasses(r)
             \/ c \in Confirmers /\ Reservations!ReadForConfirm(c, r)
             \/ c \in Releasers /\ Reservations!ReadForRelease(c, r)
             \/ Reservations!Abort(c)
             \/ c \in Confirmers /\ Reservations!CommitConfirm(c, r)
             \/ c \in Releasers /\ Reservations!CommitRelease(c, r)
  BY <1>7, <1>5, <1>4
<1>8. CASE \E r \in ReservationIds : Reservations!TtlPasses(r)
  BY <1>8, <1>5, <1>4
<1>9. CASE \E c \in Confirmers \cup Releasers : Reservations!Abort(c)
  <2>1. PICK c \in Confirmers \cup Releasers : Reservations!Abort(c)
    BY <1>9
  <2>2. call[c] \in ReservationIds
    BY <2>1 DEF Reservations!Abort, Reservations!TypeOK
  <2> QED
    BY <2>1, <2>2, <1>5, <1>4
<1> QED
  BY <1>6, <1>7, <1>8, <1>9 DEF Reservations!Next
-----------------------------------------------------------------------------
(* The start.                                                              *)
LEMMA InitInv == Init => IInv
<1> SUFFICES ASSUME Init PROVE IInv
  OBVIOUS
<1> USE DEF Init, Reservations!Init
<1>1. TypeOK
  BY StockAssumption, AdjustmentAssumption
  DEF TypeOK, Reservations!TypeOK, Reservations!ReservationStatus, Tasks, Nothing
<1>2. InHand /\ NoItemsYet
  BY DEF InHand, NoItemsYet
<1>3. NoOversell
  BY StockAssumption DEF NoOversell, Reservations!NoOversell
<1>4. \A p \in Products : reserved[p] = 0 /\ Cardinality(Asked(items, p)) \in Nat
  BY AskedFinite
<1>5. ReservedBounded
  BY <1>4, AdjustmentAssumption DEF ReservedBounded, ReservedWasReserved
<1> QED
  BY <1>1, <1>2, <1>3, <1>5 DEF IInv

(* A step of the reservations, the requests standing still.                *)
LEMMA ReservationStepInv == IInv /\ ReservationStep => IInv'
<1> SUFFICES ASSUME IInv, ReservationStep PROVE IInv'
  OBVIOUS
<1>1. /\ Reservations!TypeOK /\ NoItemsYet /\ NoOversell /\ Reservations!Next
      /\ TypeOK /\ InHand /\ ReservedBounded
      /\ UNCHANGED <<cache, task, on, step, copy>>
  BY DEF IInv, TypeOK, ReservationStep, requestVars
<1>2. /\ Reservations!TypeOK' /\ NoItemsYet' /\ NoOversell'
      /\ \A p \in Products :
           /\ Cardinality(Asked(items, p)) <= Cardinality(Asked(items', p))
           /\ reserved[p] <= Cardinality(Asked(items, p))
                => reserved'[p] <= Cardinality(Asked(items', p))
  BY <1>1, ReservationsKeep
<1>3. TypeOK' /\ InHand'
  BY <1>1, <1>2 DEF TypeOK, InHand
<1>4. \A p \in Products : /\ Cardinality(Asked(items, p)) \in Nat
                          /\ Cardinality(Asked(items', p)) \in Nat
  BY AskedFinite
<1>5. ReservedWasReserved'
  BY <1>1, <1>2 DEF ReservedBounded, ReservedWasReserved
<1>6. ASSUME NEW p \in Products, cache[p] \in Level
      PROVE  cache[p].reserved <= Cardinality(Asked(items', p))
  BY <1>1, <1>2, <1>4, <1>6 DEF ReservedBounded, Level
<1>7. ASSUME NEW w \in Requesters, copy[w] \in Level
      PROVE  copy[w].reserved <= Cardinality(Asked(items', on[w]))
  <2>1. on[w] \in Products
    BY <1>1 DEF TypeOK
  <2> QED
    BY <1>1, <1>2, <1>4, <1>7, <2>1 DEF ReservedBounded, Level
<1>8. ReservedBounded'
  BY <1>1, <1>5, <1>6, <1>7 DEF ReservedBounded
<1> QED
  BY <1>2, <1>3, <1>8 DEF IInv
(* A step of a request that leaves the rows alone: what it takes in its    *)
(* hands, or puts in the cache, was a level of the row, the cache or its   *)
(* own.                                                                    *)
Harmless(w) == Lookup(w) \/ ReadRow(w) \/ Fill(w) \/ Refuse(w) \/ Refresh(w) \/ Fail(w)

LEMMA HarmlessInv ==
  ASSUME IInv, NEW w \in Requesters, Harmless(w)
  PROVE  IInv'
<1> USE DEF Leave, Goto, Answer, Row, Level
<1>1. /\ UNCHANGED reservationVars
      /\ TypeOK /\ InHand /\ NoItemsYet /\ NoOversell /\ ReservedBounded
      /\ on[w] \in Products
  BY DEF IInv, TypeOK, Harmless, Lookup, ReadRow, Fill, Refuse, Refresh, Fail
<1>2. Reservations!TypeOK' /\ NoItemsYet' /\ NoOversell'
  BY <1>1 DEF reservationVars, TypeOK, Reservations!TypeOK, NoItemsYet, NoOversell,
              Reservations!NoOversell
<1>3. /\ \/ cache' = cache
         \/ copy[w] \in Level /\ cache' = [cache EXCEPT ![on[w]] = copy[w]]
      /\ on' = on
  BY <1>1 DEF Harmless, Lookup, ReadRow, Fill, Refuse, Refresh, Fail, InHand
<1>4. /\ \/ copy' = [copy EXCEPT ![w] = Missing]
         \/ copy' = [copy EXCEPT ![w] = copy[w]]
         \/ /\ cache[on[w]] \in Level
            /\ copy' = [copy EXCEPT ![w] = cache[on[w]]]
         \/ /\ Row(on[w]) \in Level
            /\ copy' = [copy EXCEPT ![w] = Row(on[w])]
  BY <1>1 DEF Harmless, Lookup, ReadRow, Fill, Refuse, Refresh, Fail, TypeOK
<1>5. /\ step' \in [Requesters -> {"idle", "lookup", "read", "fill", "apply", "refresh"}]
      /\ task' \in [Requesters -> Tasks \cup {Nothing}]
  BY <1>1 DEF Harmless, Lookup, ReadRow, Fill, Refuse, Refresh, Fail, TypeOK
<1>6. /\ cache' \in [Products -> Level \cup {Missing}]
      /\ copy' \in [Requesters -> Level \cup {Missing}]
      /\ on' \in [Requesters -> Products]
  BY <1>1, <1>3, <1>4 DEF TypeOK
<1>7. TypeOK'
  BY <1>2, <1>5, <1>6 DEF TypeOK
<1>8. InHand'
  BY <1>1 DEF Harmless, Lookup, ReadRow, Fill, Refuse, Refresh, Fail, InHand, TypeOK
<1>9. ReservedBounded'
  <2>1. ReservedWasReserved'
    BY <1>1 DEF reservationVars, ReservedBounded, ReservedWasReserved
  <2>2. ASSUME NEW p \in Products, cache'[p] \in Level
        PROVE  cache'[p].reserved <= Cardinality(Asked(items', p))
    BY <1>1, <1>3, <2>2 DEF reservationVars, ReservedBounded, TypeOK
  <2>3. ASSUME NEW v \in Requesters, copy'[v] \in Level
        PROVE  copy'[v].reserved <= Cardinality(Asked(items', on'[v]))
    BY <1>1, <1>3, <1>4, <2>3, AdjustmentAssumption
    DEF reservationVars, ReservedBounded, ReservedWasReserved, TypeOK
  <2> QED
    BY <2>1, <2>2, <2>3 DEF ReservedBounded
<1> QED
  BY <1>2, <1>7, <1>8, <1>9 DEF IInv

(* An adjustment writes its copy, whose reserved quantity is bounded and   *)
(* whose available quantity it has checked.                                *)
LEMMA WriteRowInv ==
  ASSUME IInv, NEW w \in Requesters, WriteRow(w)
  PROVE  IInv'
<1> USE DEF WriteRow, Goto, Level
<1>1. /\ TypeOK /\ InHand /\ NoItemsYet /\ NoOversell /\ ReservedBounded
      /\ on[w] \in Products /\ copy[w] \in Level /\ task[w] \in Commands
      /\ UNCHANGED <<status, items, expired, call, cache, task, on>>
  BY DEF IInv, TypeOK, InHand
<1>2. task[w].quantity \in Nat /\ task[w].verb \in {"ADD", "SUBTRACT", "SET"}
  BY <1>1, AdjustmentAssumption DEF Command
<1>3. Adjusted(w) \in Nat /\ copy[w].reserved \in Nat
  BY <1>1, <1>2 DEF Adjusted, Allowed
<1>4. TypeOK' /\ NoItemsYet'
  BY <1>1, <1>3 DEF TypeOK, Reservations!TypeOK, NoItemsYet
<1>5. NoOversell'
  BY <1>1, <1>3 DEF TypeOK, Reservations!TypeOK, NoOversell, Reservations!NoOversell
<1>6. InHand'
  BY <1>1, <1>3 DEF InHand, TypeOK
<1>7. copy[w].reserved <= Cardinality(Asked(items, on[w]))
  BY <1>1 DEF ReservedBounded
<1>8. ReservedWasReserved'
  BY <1>1, <1>3, <1>7 DEF ReservedBounded, ReservedWasReserved, TypeOK,
       Reservations!TypeOK
<1>9. ASSUME NEW v \in Requesters, copy'[v] \in Level
      PROVE  copy'[v].reserved <= Cardinality(Asked(items', on'[v]))
  BY <1>1, <1>3, <1>7, <1>9 DEF ReservedBounded, TypeOK
<1>10. ReservedBounded'
  BY <1>1, <1>8, <1>9 DEF ReservedBounded
<1> QED
  BY <1>4, <1>5, <1>6, <1>10 DEF IInv

(* A request arrives, or an entry expires.                                 *)
LEMMA ArrivalInv ==
  ASSUME IInv,
         \/ \E w \in Requesters, t \in Tasks, p \in Products : Begin(w, t, p)
         \/ \E p \in Products : CacheExpires(p)
  PROVE  IInv'
<1>1. UNCHANGED <<available, reserved, status, items, expired, call>>
  BY DEF Begin, CacheExpires, reservationVars
<1>2. ReservedWasReserved' /\ NoItemsYet' /\ NoOversell' /\ Reservations!TypeOK'
  BY <1>1 DEF IInv, TypeOK, ReservedBounded, ReservedWasReserved, NoItemsYet, NoOversell,
              Reservations!NoOversell, Reservations!TypeOK
<1>3. CASE \E w \in Requesters, t \in Tasks, p \in Products : Begin(w, t, p)
  <2>1. PICK w \in Requesters, t \in Tasks, p \in Products : Begin(w, t, p)
    BY <1>3
  <2>2. TypeOK' /\ InHand'
    BY <1>2, <2>1 DEF IInv, TypeOK, InHand, Begin
  <2>3. ReservedBounded'
    <3>1. /\ ReservedBounded /\ on \in [Requesters -> Products]
          /\ copy[w] = Missing
      BY <2>1 DEF IInv, TypeOK, InHand, Begin
    <3>2. /\ items' = items /\ copy' = copy /\ cache' = cache
          /\ on' = [on EXCEPT ![w] = p]
      BY <1>1, <2>1 DEF Begin
    <3>3. ASSUME NEW v \in Requesters, copy'[v] \in Level
          PROVE  copy'[v].reserved <= Cardinality(Asked(items', on'[v]))
      <4>1. v # w
        BY <3>1, <3>2, <3>3, AdjustmentAssumption
      <4> QED
        BY <3>1, <3>2, <3>3, <4>1 DEF ReservedBounded
    <3>4. ASSUME NEW q \in Products, cache'[q] \in Level
          PROVE  cache'[q].reserved <= Cardinality(Asked(items', q))
      BY <3>1, <3>2, <3>4 DEF ReservedBounded
    <3> QED
      BY <1>2, <3>3, <3>4 DEF ReservedBounded
  <2> QED
    BY <1>2, <2>2, <2>3 DEF IInv
<1>4. CASE \E p \in Products : CacheExpires(p)
  <2>1. PICK p \in Products : CacheExpires(p)
    BY <1>4
  <2>2. TypeOK' /\ InHand'
    BY <1>2, <2>1 DEF IInv, TypeOK, InHand, CacheExpires, requestVars
  <2>3. ReservedBounded'
    <3>1. ReservedBounded /\ cache \in [Products -> Level \cup {Missing}]
      BY DEF IInv, TypeOK
    <3>2. /\ items' = items /\ copy' = copy /\ on' = on
          /\ cache' = [cache EXCEPT ![p] = Missing]
      BY <1>1, <2>1 DEF CacheExpires, requestVars
    <3>3. ASSUME NEW q \in Products, cache'[q] \in Level
          PROVE  cache'[q] = cache[q]
      BY <3>1, <3>2, <3>3, AdjustmentAssumption
    <3>4. ASSUME NEW q \in Products, cache'[q] \in Level
          PROVE  cache'[q].reserved <= Cardinality(Asked(items', q))
      BY <3>1, <3>2, <3>3, <3>4 DEF ReservedBounded
    <3>5. ASSUME NEW v \in Requesters, copy'[v] \in Level
          PROVE  copy'[v].reserved <= Cardinality(Asked(items', on'[v]))
      BY <3>1, <3>2, <3>5 DEF ReservedBounded
    <3> QED
      BY <1>2, <3>4, <3>5 DEF ReservedBounded
  <2> QED
    BY <1>2, <2>2, <2>3 DEF IInv
<1> QED
  BY <1>3, <1>4

-----------------------------------------------------------------------------
(* The invariant holds along every behaviour.                              *)
LEMMA Invariance == Spec => []IInv
<1>1. IInv /\ UNCHANGED vars => IInv'
  <2> SUFFICES ASSUME IInv, UNCHANGED vars PROVE IInv'
    OBVIOUS
  <2> USE DEF vars, reservationVars, requestVars
  <2>1. TypeOK'
    BY DEF IInv, TypeOK, Reservations!TypeOK
  <2>2. InHand' /\ NoItemsYet' /\ NoOversell'
    BY DEF IInv, InHand, NoItemsYet, NoOversell, Reservations!NoOversell
  <2>3. ReservedBounded'
    BY DEF IInv, ReservedBounded, ReservedWasReserved
  <2> QED
    BY <2>1, <2>2, <2>3 DEF IInv
<1>2. IInv /\ Next => IInv'
  <2> SUFFICES ASSUME IInv, Next PROVE IInv'
    OBVIOUS
  <2>1. CASE ReservationStep
    BY <2>1, ReservationStepInv
  <2>2. CASE \E w \in Requesters : Harmless(w)
    BY <2>2, HarmlessInv
  <2>3. CASE \E w \in Requesters : WriteRow(w)
    BY <2>3, WriteRowInv
  <2>4. CASE \/ \E w \in Requesters, t \in Tasks, p \in Products : Begin(w, t, p)
             \/ \E p \in Products : CacheExpires(p)
    BY <2>4, ArrivalInv
  <2> QED
    BY <2>1, <2>2, <2>3, <2>4 DEF Next, Harmless
<1> QED
  BY InitInv, <1>1, <1>2, PTL DEF Spec

(* Every variable keeps its type; in particular no negative level reaches  *)
(* the cache.  (Inventory.validateProps.)                                  *)
THEOREM AdjustmentTypes == Spec => []TypeOK
<1>1. IInv => TypeOK
  BY DEF IInv
<1> QED
  BY Invariance, <1>1, PTL

(* Stock never goes below zero, however stale the copies are on which      *)
(* adjustments are computed, and whatever reservations run beside them.    *)
(* (AdjustStock, PostgresReservationRepository.)                           *)
THEOREM AdjustmentsNeverOversell == Spec => []NoOversell
<1>1. IInv => NoOversell
  BY DEF IInv
<1> QED
  BY Invariance, <1>1, PTL

(* The reserved column never claims more units than were ever reserved.    *)
(* (PostgresInventoryRepository.update writes back old reserved            *)
(* quantities.)                                                            *)
THEOREM ReservedIsBounded == Spec => []ReservedWasReserved
<1>1. IInv => ReservedWasReserved
  BY DEF IInv, ReservedBounded
<1> QED
  BY Invariance, <1>1, PTL
=============================================================================
