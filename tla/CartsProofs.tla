----------------------------- MODULE CartsProofs -----------------------------
(***************************************************************************)
(* Theorems about Carts, for any number of carts, products, items and      *)
(* overlapping requests.                                                   *)
(***************************************************************************)
EXTENDS Carts, TLAPS

Items == Item \cup NewItem

(* What a request has in its hands at each step.                           *)
Empty == {"idle", "lookup", "read"}
Whole == {"fill", "check", "delete", "evict", "store"}
InHand ==
  \A w \in Workers :
    /\ step[w] # "idle" => request[w] \in Requests
    /\ step[w] = "idle" => request[w] = Absent
    /\ step[w] \in Empty => copy[w] = Absent
    /\ step[w] \in Whole => copy[w] \in Cart
    /\ step[w] = "commit" => copy[w] \in SUBSET Items
    /\ step[w] = "load" => IF request[w].op = "Create" THEN copy[w] = Absent
                                                       ELSE copy[w] \in SUBSET Items
    /\ step[w] \in {"check", "load", "commit"} /\ request[w].op = "Merge"
         => guest[w] # Absent
    /\ step[w] \in {"delete", "evict"} => request[w].op = "Merge"
    /\ step[w] \in {"lookup", "read", "fill", "check"} => request[w].op # "Create"
    /\ step[w] # "idle" => /\ request[w].cart \in made
                           /\ request[w].op = "Merge" => request[w].guest \in made

(* The carts that have an item: in the row, in the entry, in what some     *)
(* request has in its hands.  A merge holds the items of its guest cart    *)
(* only while it fills that cart's entry.                                  *)
Subject(w) == IF step[w] = "fill" THEN Sought(w) ELSE request[w].cart
InRow(c, i) == i \in IdsOf(ItemsOf(c))
InEntry(c, i) == cache[c] # Absent /\ i \in IdsOf(cache[c])
Full(w) == step[w] \notin Empty /\ (step[w] = "load" => request[w].op # "Create")
InCopy(w, c, i) == Full(w) /\ Subject(w) = c /\ i \in IdsOf(copy[w])
InLoaded(w, c, i) ==
  step[w] = "commit" /\ request[w].cart = c /\ i \in IdsOf(Loaded(w))
Has(c, i) == \/ InRow(c, i) \/ InEntry(c, i)
             \/ \E w \in Workers : InCopy(w, c, i) \/ InLoaded(w, c, i)

(* All that have it were put back, one after the other, in the same place. *)
OneOwner ==
  \A i \in ItemIds : \A c, d \in Ids : Has(c, i) /\ Has(d, i) => origin[c] = origin[d]
AllGiven == \A i \in ItemIds, c \in Ids : Has(c, i) => i \in given /\ c \in made

IInv == TypeOK /\ InHand /\ OneOwner /\ AllGiven

-----------------------------------------------------------------------------
LEMMA InitInv == Init => IInv
<1> SUFFICES ASSUME Init PROVE IInv
  OBVIOUS
<1> USE CartsAssumption DEF Init
<1>1. TypeOK /\ InHand
  BY DEF TypeOK, InHand, Steps, Empty, Whole
<1>2. \A i \in ItemIds, c \in Ids : ~Has(c, i)
  BY DEF Has, InRow, InEntry, InCopy, InLoaded, ItemsOf, IdsOf, Full, Empty
<1> QED
  BY <1>1, <1>2 DEF IInv, OneOwner, AllGiven

(* The entity: what its methods make of items is items, but for the size   *)
(* of a quantity.                                                          *)
Shaped(items) ==
  \A i \in items : /\ i = [id |-> i.id, product |-> i.product, qty |-> i.qty]
                   /\ i.id \in ItemIds \cup {New} /\ i.product \in Products

LEMMA ItemsTyped ==
  /\ \A i \in Item : i.id \in ItemIds /\ i.id # New /\ i.product \in Products
  /\ \A i \in NewItem : i.id = New /\ i.product \in Products
  /\ \A i \in Items, q \in 1..MaxQty :
       /\ [i EXCEPT !.qty = q] \in Items /\ [i EXCEPT !.qty = q].id = i.id
       /\ i \in Item => [i EXCEPT !.qty = q] \in Item
  /\ \A p \in Products, q \in 1..MaxQty :
       [id |-> New, product |-> p, qty |-> q] \in NewItem
  BY CartsAssumption DEF Items, Item, NewItem

LEMMA ItemsShaped ==
  /\ \A items \in SUBSET Items : Shaped(items)
  /\ \A items : Shaped(items) /\ WithinBounds(items) => items \in SUBSET Items
<1>1. ASSUME NEW i \in Items
      PROVE  /\ i = [id |-> i.id, product |-> i.product, qty |-> i.qty]
             /\ i.id \in ItemIds \cup {New} /\ i.product \in Products
  BY DEF Items, Item, NewItem
<1>2. ASSUME NEW items, Shaped(items), WithinBounds(items), NEW i \in items
      PROVE  i \in Items
  <2>1. /\ i = [id |-> i.id, product |-> i.product, qty |-> i.qty]
        /\ i.id \in ItemIds \cup {New} /\ i.product \in Products /\ i.qty \in 1..MaxQty
    BY <1>2 DEF Shaped, WithinBounds
  <2> QED
    BY <2>1 DEF Items, Item, NewItem
<1> QED
  BY <1>1, <1>2 DEF Shaped

LEMMA MergedItems ==
  ASSUME NEW mine, NEW theirs, Shaped(mine), Shaped(theirs)
  PROVE  /\ Shaped(Merged(mine, theirs))
         /\ IdsOf(Merged(mine, theirs)) \subseteq IdsOf(mine) \cup {New}
<1> DEFINE Good(i) == /\ i = [id |-> i.id, product |-> i.product, qty |-> i.qty]
                      /\ i.id \in ItemIds \cup {New} /\ i.product \in Products
                      /\ i.id \in IdsOf(mine) \cup {New}
<1>1. ASSUME NEW i \in Merged(mine, theirs) PROVE Good(i)
  <2>1. ASSUME NEW j \in mine, i = j PROVE Good(i)
    BY <2>1 DEF IdsOf, Shaped
  <2>2. ASSUME NEW j \in mine, NEW q, i = [j EXCEPT !.qty = q] PROVE Good(i)
    <3>1. /\ j = [id |-> j.id, product |-> j.product, qty |-> j.qty]
          /\ j.id \in ItemIds \cup {New} /\ j.product \in Products
          /\ j.id \in IdsOf(mine)
      BY DEF Shaped, IdsOf
    <3>2. i = [id |-> j.id, product |-> j.product, qty |-> q]
      BY <2>2, <3>1
    <3> QED
      BY <3>1, <3>2
  <2>3. ASSUME NEW p \in ProductsOf(theirs), NEW q,
               i = [id |-> New, product |-> p, qty |-> q]
        PROVE  Good(i)
    BY <2>3 DEF ProductsOf, Shaped
  <2>4. \/ \E j \in mine : i = j
        \/ \E j \in mine : \E q : i = [j EXCEPT !.qty = q]
        \/ \E p \in ProductsOf(theirs) : \E q : i = [id |-> New, product |-> p, qty |-> q]
    BY DEF Merged
  <2> QED
    BY <2>1, <2>2, <2>3, <2>4
<1> QED
  BY <1>1 DEF IdsOf, Shaped

LEMMA ChangedItems ==
  ASSUME NEW w \in Workers, TypeOK, InHand, step[w] = "check",
         NEW items \in Changed(w), WithinBounds(items)
  PROVE  /\ items \in SUBSET Items
         /\ IdsOf(items) \subseteq IdsOf(copy[w]) \cup {New}
         /\ request[w].op # "Get"
<1> DEFINE r == request[w]
<1>1. r \in Requests /\ copy[w] \in Cart /\ copy[w] \in SUBSET Items
  BY DEF InHand, Whole, Items, Cart
<1>2. CASE r.op = "Add"
  <2>1. r.product \in Products
    BY <1>1, <1>2 DEF Requests
  <2>2. {[id |-> New, product |-> r.product, qty |-> 1]} \in SUBSET Items
    BY <2>1, CartsAssumption DEF Items, NewItem
  <2> QED
    BY <1>1, <1>2, <2>2, MergedItems, ItemsShaped DEF Changed, WithOneMore
<1>3. CASE r.op = "Update"
  <2>1. r.qty \in 1..MaxQty
    BY <1>1, <1>3 DEF Requests
  <2>2. PICK i : items = WithQuantity(copy[w], i, r.qty)
    BY <1>3 DEF Changed
  <2>3. ASSUME NEW k \in items PROVE k \in Items /\ k.id \in IdsOf(copy[w])
    <3>1. PICK j \in copy[w] : k = j \/ k = [j EXCEPT !.qty = r.qty]
      BY <2>2 DEF WithQuantity
    <3>2. j \in Items /\ [j EXCEPT !.qty = r.qty] \in Items
          /\ [j EXCEPT !.qty = r.qty].id = j.id
      BY <1>1, <2>1, ItemsTyped
    <3>3. k \in Items /\ k.id = j.id
      BY <3>1, <3>2
    <3> QED
      BY <3>3 DEF IdsOf
  <2> QED
    BY <1>3, <2>3 DEF IdsOf
<1>4. CASE r.op = "Remove"
  BY <1>1, <1>4 DEF Changed, Without, IdsOf
<1>5. CASE r.op = "Clear"
  BY <1>5 DEF Changed, IdsOf
<1>6. CASE r.op = "Merge"
  <2>1. guest[w] \in SUBSET Items
    BY <1>6 DEF InHand, TypeOK, Cart, Items
  <2>2. /\ Shaped(guest[w]) /\ Shaped(Merged(copy[w], guest[w]))
        /\ IdsOf(Merged(copy[w], guest[w])) \subseteq IdsOf(copy[w]) \cup {New}
    BY <1>1, <2>1, MergedItems, ItemsShaped
  <2>3. items = Merged(Merged(copy[w], guest[w]), guest[w])
    BY <1>6 DEF Changed
  <2>4. /\ Shaped(items)
        /\ IdsOf(items) \subseteq IdsOf(Merged(copy[w], guest[w])) \cup {New}
    BY <2>2, <2>3, MergedItems
  <2> QED
    BY <1>6, <2>2, <2>4, ItemsShaped
<1>7. CASE r.op = "Get"
  BY <1>7 DEF Changed
<1>8. r.op \in {"Add", "Update", "Remove", "Clear", "Merge", "Get"}
  BY <1>1 DEF InHand, Requests
<1> QED
  BY <1>2, <1>3, <1>4, <1>5, <1>6, <1>7, <1>8

(* What a commit saves has ids: one it had, of a row that was found, or    *)
(* one that nobody had.                                                    *)
LEMMA NamedItems ==
  ASSUME NEW w \in Workers, copy[w] \in SUBSET Items, Namings(w) # {},
         found[w] \subseteq ItemIds, given \subseteq ItemIds
  PROVE  /\ Named(w) \in Cart
         /\ IdsOf(Named(w)) \subseteq (IdsOf(copy[w]) \cap found[w]) \cup (ItemIds \ given)
<1> DEFINE fresh == CHOOSE f \in Namings(w) : TRUE
<1>1. fresh \in [{i \in copy[w] : i.id \notin found[w]} -> ItemIds \ given]
  BY DEF Namings, Injection
<1>2. Named(w) = {IF i.id \in found[w] THEN i ELSE [i EXCEPT !.id = fresh[i]] : i \in copy[w]}
  BY DEF Named
<1> HIDE DEF fresh
<1>3. ASSUME NEW k \in Named(w)
      PROVE  k \in Item /\ k.id \in (IdsOf(copy[w]) \cap found[w]) \cup (ItemIds \ given)
  <2>1. PICK i \in copy[w] : k = IF i.id \in found[w] THEN i ELSE [i EXCEPT !.id = fresh[i]]
    BY <1>2, <1>3
  <2>2. CASE i.id \notin found[w]
    <3>1. fresh[i] \in ItemIds \ given
      BY <1>1, <2>2
    <3>2. i \in Items
      OBVIOUS
    <3> QED
      BY <2>1, <2>2, <3>1, <3>2 DEF Items, Item, NewItem
  <2>3. CASE i.id \in found[w]
    <3>1. i \in Item
      BY <2>3, ItemsTyped, CartsAssumption DEF Items
    <3> QED
      BY <2>1, <2>3, <3>1 DEF IdsOf
  <2> QED
    BY <2>2, <2>3
<1> QED
  BY <1>3 DEF IdsOf, Cart

LEMMA RowTyped ==
  ASSUME TypeOK, NEW c \in Ids
  PROVE  ItemsOf(c) \in Cart /\ IdsOf(ItemsOf(c)) \subseteq ItemIds
BY ItemsTyped DEF ItemsOf, TypeOK, Cart, IdsOf

LEMMA StoredTyped == TypeOK => Stored \subseteq ItemIds
BY RowTyped DEF Stored, TypeOK

LEMMA SavedItems ==
  ASSUME NEW w \in Workers, NEW items \in Cart, TypeOK, NEW c \in Ids
  PROVE  /\ RowAfterSave(w, items, c) \in Cart
         /\ IdsOf(RowAfterSave(w, items, c)) \subseteq
              IdsOf(ItemsOf(c)) \cup (IF c = request[w].cart THEN IdsOf(items) ELSE {})
<1>1. ASSUME NEW i \in RowAfterSave(w, items, c)
      PROVE  /\ i \in ItemsOf(c) \cup items
             /\ i.id \in IdsOf(ItemsOf(c)) \cup (IF c = request[w].cart THEN IdsOf(items) ELSE {})
  BY <1>1 DEF RowAfterSave, Updated, Attached, IdsOf
<1> QED
  BY <1>1, RowTyped DEF Cart, IdsOf

LEMMA SoughtCart ==
  ASSUME NEW w \in Workers, InHand, step[w] # "idle"
  PROVE  /\ request[w].cart \in Ids /\ Sought(w) \in Ids
         /\ request[w].op = "Merge" => request[w].guest \in Ids
<1>1. request[w] \in Requests
  BY DEF InHand
<1>2. /\ request[w].cart \in Ids
      /\ request[w].op = "Merge" => request[w].guest \in Ids
  BY <1>1 DEF Requests
<1> QED
  BY <1>2 DEF Sought, OfGuest

(* The requests that start.                                                *)
Starts(w, r, s) ==
  /\ Begin(w, r, s)
  /\ made' \in SUBSET Ids /\ r.cart \in made'
  /\ r.op = "Merge" => r.guest \in made
  /\ IF r.op = "Create"
       THEN s = "load" /\ r.cart \notin made /\ made' = made \cup {r.cart}
       ELSE s = "lookup" /\ made' = made

Step == \E w \in Workers :
          \/ \E r \in Requests : \E s : Starts(w, r, s)
          \/ Lookup(w) \/ ReadRow(w) \/ Fill(w) \/ Change(w) \/ Refuse(w)
          \/ Load(w) \/ Commit(w) \/ DeleteGuest(w) \/ EvictGuest(w) \/ Store(w)
          \/ Interrupted(w)

LEMMA NextIsStep == TypeOK /\ Next => Step
<1> SUFFICES ASSUME TypeOK, Next PROVE Step
  OBVIOUS
<1> USE DEF TypeOK, Requests, Starts
<1>1. ASSUME NEW w \in Workers, CreateCart(w)
      PROVE  \E r \in Requests : \E s : Starts(w, r, s)
  <2>1. PICK c \in Ids \ made : /\ made' = made \cup {c}
                                /\ Begin(w, [op |-> "Create", cart |-> c], "load")
    BY <1>1 DEF CreateCart
  <2> QED
    BY <2>1
<1>2. ASSUME NEW w \in Workers, NEW c \in made, GetCart(w, c)
      PROVE  \E r \in Requests : \E s : Starts(w, r, s)
  <2>1. [op |-> "Get", cart |-> c] \in Requests /\ made' = made /\ Begin(w, [op |-> "Get", cart |-> c], "lookup")
    BY <1>2 DEF GetCart
  <2> QED
    BY <2>1
<1>3. ASSUME NEW w \in Workers, NEW c \in made, AddItem(w, c)
      PROVE  \E r \in Requests : \E s : Starts(w, r, s)
  <2>1. PICK p \in Products : Begin(w, [op |-> "Add", cart |-> c, product |-> p], "lookup")
    BY <1>3 DEF AddItem
  <2>2. [op |-> "Add", cart |-> c, product |-> p] \in Requests /\ made' = made
    BY <1>3 DEF AddItem
  <2> QED
    BY <2>1, <2>2
<1>4. ASSUME NEW w \in Workers, NEW c \in made, UpdateItem(w, c)
      PROVE  \E r \in Requests : \E s : Starts(w, r, s)
  <2>1. PICK i \in given, q \in 1..MaxQty : Begin(w, [op |-> "Update", cart |-> c, item |-> i, qty |-> q], "lookup")
    BY <1>4 DEF UpdateItem
  <2>2. [op |-> "Update", cart |-> c, item |-> i, qty |-> q] \in Requests /\ made' = made
    BY <1>4 DEF UpdateItem
  <2> QED
    BY <2>1, <2>2
<1>5. ASSUME NEW w \in Workers, NEW c \in made, RemoveItem(w, c)
      PROVE  \E r \in Requests : \E s : Starts(w, r, s)
  <2>1. PICK i \in given : Begin(w, [op |-> "Remove", cart |-> c, item |-> i], "lookup")
    BY <1>5 DEF RemoveItem
  <2>2. [op |-> "Remove", cart |-> c, item |-> i] \in Requests /\ made' = made
    BY <1>5 DEF RemoveItem
  <2> QED
    BY <2>1, <2>2
<1>6. ASSUME NEW w \in Workers, NEW c \in made, ClearCart(w, c)
      PROVE  \E r \in Requests : \E s : Starts(w, r, s)
  <2>1. [op |-> "Clear", cart |-> c] \in Requests /\ made' = made /\ Begin(w, [op |-> "Clear", cart |-> c], "lookup")
    BY <1>6 DEF ClearCart
  <2> QED
    BY <2>1
<1>7. ASSUME NEW w \in Workers, NEW c \in made, MergeCarts(w, c)
      PROVE  \E r \in Requests : \E s : Starts(w, r, s)
  <2>1. PICK g \in made : Begin(w, [op |-> "Merge", cart |-> c, guest |-> g], "lookup")
    BY <1>7 DEF MergeCarts
  <2>2. [op |-> "Merge", cart |-> c, guest |-> g] \in Requests /\ made' = made
    BY <1>7 DEF MergeCarts
  <2> QED
    BY <2>1, <2>2
<1> QED
  BY <1>1, <1>2, <1>3, <1>4, <1>5, <1>6, <1>7 DEF Next, Step

(* What the transaction of a save does to the state, whatever it finds.    *)
LEMMA LoadStep ==
  ASSUME TypeOK, InHand, NEW w \in Workers, Load(w)
  PROVE  \E r \in Requests, x \in SUBSET Items :
           /\ step[w] = "load" /\ request[w].cart \in Ids
           /\ request' = [request EXCEPT ![w] = r] /\ r.op = request[w].op
           /\ r.op = "Merge" => r.guest = request[w].guest
           /\ made' \in SUBSET Ids /\ made \subseteq made' /\ r.cart \in made'
           /\ origin' \in [Ids -> Ids] /\ \A d \in made : origin'[d] = origin[d]
           /\ origin'[r.cart] = origin[request[w].cart]
           /\ x = (IF request[w].op = "Create" THEN {} ELSE copy[w])
           /\ copy' = [copy EXCEPT ![w] = x]
           /\ known' = [known EXCEPT ![w] = rows[request[w].cart]]
           /\ found' = [found EXCEPT ![w] = IdsOf(x) \cap Stored]
           /\ step' = [step EXCEPT ![w] = "commit"]
           /\ UNCHANGED <<rows, loose, cache, given, guest, disturbed, troubles>>
<1> DEFINE y == IF request[w].op = "Create" THEN {} ELSE copy[w]
<1> USE CartsAssumption DEF InHand
<1>1. step[w] = "load" /\ request[w] \in Requests /\ request[w].cart \in Ids \cap made
  BY SoughtCart DEF Load
<1>2. y \in SUBSET Items
  BY <1>1
<1>3. /\ copy' = [copy EXCEPT ![w] = y] /\ copy'[w] = y
      /\ known' = [known EXCEPT ![w] = rows[request[w].cart]]
      /\ found' = [found EXCEPT ![w] = IdsOf(y) \cap Stored]
      /\ step' = [step EXCEPT ![w] = "commit"]
      /\ UNCHANGED <<rows, loose, cache, given, guest, disturbed, troubles>>
  BY DEF Load, TypeOK, tables
<1>4. CASE UNCHANGED <<request, made, origin>>
  <2>1. request' = [request EXCEPT ![w] = request[w]]
    BY <1>4 DEF TypeOK
  <2>2. /\ made' \in SUBSET Ids /\ request[w].cart \in made' /\ origin' \in [Ids -> Ids]
        /\ origin'[request[w].cart] = origin[request[w].cart]
    BY <1>1, <1>4 DEF TypeOK
  <2> QED
    BY <1>1, <1>2, <1>3, <1>4, <2>1, <2>2
<1>5. ASSUME NEW c \in Ids \ made, request[w].op # "Create",
             made' = made \cup {c},
             origin' = [origin EXCEPT ![c] = origin[request[w].cart]],
             request' = [request EXCEPT ![w].cart = c]
      PROVE  \E r \in Requests :
               /\ request' = [request EXCEPT ![w] = r] /\ r.op = request[w].op
               /\ r.op = "Merge" => r.guest = request[w].guest
               /\ r.cart = c
  <2> DEFINE r == [request[w] EXCEPT !.cart = c]
  <2>1. request' = [request EXCEPT ![w] = r]
    BY <1>5
  <2>2. r \in Requests
    BY <1>1, <1>5 DEF Requests
  <2>3. /\ r.op = request[w].op /\ r.cart = c
        /\ r.op = "Merge" => r.guest = request[w].guest
    BY <1>1, <1>5 DEF Requests
  <2> QED
    BY <2>1, <2>2, <2>3
<1>6. CASE /\ request[w].op # "Create"
           /\ \E c \in Ids \ made :
                /\ made' = made \cup {c}
                /\ origin' = [origin EXCEPT ![c] = origin[request[w].cart]]
                /\ request' = [request EXCEPT ![w].cart = c]
  <2>1. PICK c \in Ids \ made :
                /\ made' = made \cup {c}
                /\ origin' = [origin EXCEPT ![c] = origin[request[w].cart]]
                /\ request' = [request EXCEPT ![w].cart = c]
    BY <1>6
  <2>2. PICK r \in Requests :
          /\ request' = [request EXCEPT ![w] = r] /\ r.op = request[w].op
          /\ r.op = "Merge" => r.guest = request[w].guest
          /\ r.cart = c
    BY <1>5, <1>6, <2>1
  <2>3. /\ origin' \in [Ids -> Ids] /\ \A d \in made : origin'[d] = origin[d]
        /\ origin'[c] = origin[request[w].cart]
    BY <1>1, <2>1 DEF TypeOK
  <2>4. made' \in SUBSET Ids /\ made \subseteq made' /\ r.cart \in made'
    BY <2>1, <2>2 DEF TypeOK
  <2> QED
    BY <1>1, <1>2, <1>3, <2>2, <2>3, <2>4
<1> QED
  BY <1>4, <1>6 DEF Load

LEMMA CommitStep ==
  ASSUME TypeOK, InHand, NEW w \in Workers, Commit(w)
  PROVE  /\ step[w] = "commit" /\ request[w].cart \in Ids \cap made
         /\ Named(w) \in Cart /\ Named(w) \in SUBSET Items
         /\ IdsOf(Named(w)) \subseteq (IdsOf(copy[w]) \cap found[w]) \cup (ItemIds \ given)
         /\ UNCHANGED <<cache, made, origin, disturbed, troubles>>
         /\ \/ Leave(w) /\ UNCHANGED <<rows, loose, given>>
            \/ /\ rows' = [c \in Ids |-> IF rows[c] = Absent /\ ~Inserted(w, c)
                                         THEN Absent ELSE RowAfterSave(w, Named(w), c)]
               /\ rows' \in [Ids -> {Absent} \cup Cart]
               /\ loose' \in SUBSET ItemIds
               /\ given' = given \cup IdsOf(Named(w)) /\ given' \in SUBSET ItemIds
               /\ copy' = [copy EXCEPT ![w] = Named(w)]
               /\ known' = [known EXCEPT ![w] = Absent]
               /\ found' = [found EXCEPT ![w] = {}]
               /\ step' = [step EXCEPT ![w] = AfterCommit(w)]
               /\ UNCHANGED <<request, guest>>
<1>1. /\ step[w] = "commit" /\ request[w].cart \in Ids \cap made
      /\ UNCHANGED <<cache, made, origin, disturbed, troubles>>
  BY SoughtCart DEF Commit, InHand, history
<1>2. Named(w) \in Cart
      /\ IdsOf(Named(w)) \subseteq (IdsOf(copy[w]) \cap found[w]) \cup (ItemIds \ given)
  BY <1>1, NamedItems DEF Commit, InHand, TypeOK
<1>3. Named(w) \in SUBSET Items /\ IdsOf(Named(w)) \subseteq ItemIds
  BY <1>2, ItemsTyped DEF Cart, Items, IdsOf
<1>4. CASE Leave(w) /\ UNCHANGED <<tables, given>>
  BY <1>1, <1>2, <1>3, <1>4 DEF tables
<1>5. CASE ~(Leave(w) /\ UNCHANGED <<tables, given>>)
  <2>1. /\ rows' = [c \in Ids |-> IF rows[c] = Absent /\ ~Inserted(w, c)
                                  THEN Absent ELSE RowAfterSave(w, Named(w), c)]
        /\ loose' = (loose \cup (CutOff(w, Named(w)) \cap Stored))
                       \ IdsOf(Attached(w, Named(w)))
        /\ given' = given \cup IdsOf(Named(w))
        /\ copy' = [copy EXCEPT ![w] = Named(w)]
        /\ known' = [known EXCEPT ![w] = Absent]
        /\ found' = [found EXCEPT ![w] = {}]
        /\ step' = [step EXCEPT ![w] = AfterCommit(w)]
        /\ UNCHANGED <<request, guest>>
    BY <1>5 DEF Commit
  <2>2. rows' \in [Ids -> {Absent} \cup Cart]
    BY <1>2, <2>1, SavedItems
  <2>3. loose' \in SUBSET ItemIds /\ given' \in SUBSET ItemIds
    BY <1>3, <2>1, StoredTyped DEF TypeOK
  <2> QED
    BY <1>1, <1>2, <1>3, <2>1, <2>2, <2>3
<1> QED
  BY <1>4, <1>5

(* Types.                                                                  *)
LEMMA TypeStep ==
  TypeOK /\ InHand /\ [Next]_vars => TypeOK'
<1> SUFFICES ASSUME TypeOK, InHand, [Next]_vars PROVE TypeOK'
  OBVIOUS
<1> USE CartsAssumption DEF TypeOK, InHand, Empty, Whole, Steps, tables
<1>1. ASSUME NEW w \in Workers, NEW r \in Requests, NEW s, Starts(w, r, s) PROVE TypeOK'
  BY <1>1 DEF Starts, Begin
<1>2. ASSUME NEW w \in Workers, Lookup(w) PROVE TypeOK'
  <2>1. Sought(w) \in Ids /\ step[w] = "lookup"
    BY <1>2, SoughtCart DEF Lookup
  <2>2. CASE /\ cache[Sought(w)] # Absent /\ cache' = cache
             /\ OfGuest(w) /\ Found(w, cache[Sought(w)])
    BY <1>2, <2>1, <2>2 DEF Lookup, Found, history
  <2>3. CASE /\ cache[Sought(w)] # Absent /\ cache' = cache
             /\ ~OfGuest(w) /\ Found(w, cache[Sought(w)])
    <3>1. request[w].op = "Merge" => guest[w] # Absent
      BY <2>3 DEF OfGuest
    <3>2. /\ copy' = [copy EXCEPT ![w] = cache[Sought(w)]]
          /\ step' = [step EXCEPT ![w] = "check"]
          /\ UNCHANGED <<request, guest, known, found, tables, given, cache, history>>
      BY <1>2, <2>3 DEF Lookup, Found
    <3>3. cache[Sought(w)] \in Cart /\ cache[Sought(w)] \in SUBSET (Item \cup NewItem)
      BY <2>1, <2>3 DEF Cart
    <3> QED
      BY <2>1, <3>1, <3>2, <3>3 DEF history
  <2>4. CASE cache' = [cache EXCEPT ![Sought(w)] = Absent] /\ Goto(w, "read")
    BY <1>2, <2>1, <2>4 DEF Lookup, Goto, history
  <2> QED
    BY <1>2, <2>2, <2>3, <2>4 DEF Lookup
<1>3. ASSUME NEW w \in Workers, ReadRow(w) PROVE TypeOK'
  <2>1. Sought(w) \in Ids /\ step[w] = "read"
    BY <1>3, SoughtCart DEF ReadRow
  <2>2. CASE Leave(w)
    BY <1>3, <2>1, <2>2 DEF ReadRow, Leave, history
  <2>3. CASE /\ rows[Sought(w)] # Absent /\ copy' = [copy EXCEPT ![w] = rows[Sought(w)]]
             /\ step' = [step EXCEPT ![w] = "fill"]
             /\ UNCHANGED <<request, guest, known, found>>
    <3>1. rows[Sought(w)] \in Cart /\ rows[Sought(w)] \in SUBSET (Item \cup NewItem)
      BY <2>1, <2>3 DEF Cart
    <3> QED
      BY <1>3, <2>1, <2>3, <3>1 DEF ReadRow, history
  <2> QED
    BY <1>3, <2>2, <2>3 DEF ReadRow
<1>4. ASSUME NEW w \in Workers, Fill(w) PROVE TypeOK'
  <2>1. Sought(w) \in Ids /\ step[w] = "fill" /\ copy[w] \in Cart
    BY <1>4, SoughtCart DEF Fill
  <2>2. CASE OfGuest(w)
    BY <1>4, <2>1, <2>2 DEF Fill, Found, history
  <2>3. CASE ~OfGuest(w)
    <3>1. request[w].op = "Merge" => guest[w] # Absent
      BY <2>3 DEF OfGuest
    <3> QED
      BY <1>4, <2>1, <2>3, <3>1 DEF Fill, Found, history
  <2> QED
    BY <2>2, <2>3
<1>5. ASSUME NEW w \in Workers, Change(w) PROVE TypeOK'
  <2>1. PICK items \in Changed(w) :
          /\ copy' = [copy EXCEPT ![w] = items]
          /\ step' = [step EXCEPT ![w] = "load"]
          /\ UNCHANGED <<request, guest, known, found>>
          /\ WithinBounds(items)
    BY <1>5 DEF Change
  <2>2. items \in SUBSET Items /\ items \in SUBSET (Item \cup NewItem)
    BY <1>5, <2>1, ChangedItems DEF Change, Items
  <2> QED
    BY <1>5, <2>1, <2>2 DEF Change, history
<1>6. ASSUME NEW w \in Workers, Refuse(w) PROVE TypeOK'
  BY <1>6 DEF Refuse, Leave, history
<1>7. ASSUME NEW w \in Workers, Load(w) PROVE TypeOK'
  <2>1. PICK r \in Requests, x \in SUBSET Items :
          /\ step[w] = "load" /\ request[w].cart \in Ids
          /\ request' = [request EXCEPT ![w] = r] /\ r.op = request[w].op
          /\ r.op = "Merge" => r.guest = request[w].guest
          /\ made' \in SUBSET Ids /\ made \subseteq made' /\ r.cart \in made'
          /\ origin' \in [Ids -> Ids]
          /\ copy' = [copy EXCEPT ![w] = x]
          /\ known' = [known EXCEPT ![w] = rows[request[w].cart]]
          /\ found' = [found EXCEPT ![w] = IdsOf(x) \cap Stored]
          /\ step' = [step EXCEPT ![w] = "commit"]
          /\ UNCHANGED <<rows, loose, cache, given, guest, disturbed, troubles>>
    BY <1>7, LoadStep
  <2>2. IdsOf(x) \cap Stored \in SUBSET ItemIds
    BY StoredTyped
  <2> QED
    BY <2>1, <2>2 DEF Items
<1>8. ASSUME NEW w \in Workers, Commit(w) PROVE TypeOK'
  <2> DEFINE saved == Named(w)
  <2>1. /\ step[w] = "commit" /\ request[w].cart \in Ids
        /\ saved \in Cart /\ saved \in SUBSET (Item \cup NewItem)
        /\ UNCHANGED <<cache, made, origin, disturbed, troubles>>
        /\ \/ Leave(w) /\ UNCHANGED <<rows, loose, given>>
           \/ /\ rows' \in [Ids -> {Absent} \cup Cart]
              /\ loose' \in SUBSET ItemIds /\ given' \in SUBSET ItemIds
              /\ copy' = [copy EXCEPT ![w] = saved]
              /\ known' = [known EXCEPT ![w] = Absent]
              /\ found' = [found EXCEPT ![w] = {}]
              /\ step' = [step EXCEPT ![w] = AfterCommit(w)]
              /\ UNCHANGED <<request, guest>>
    BY <1>8, CommitStep DEF Items
  <2> HIDE DEF saved
  <2>2. CASE Leave(w) /\ UNCHANGED <<rows, loose, given>>
    BY <2>1, <2>2 DEF Leave
  <2>3. CASE ~(Leave(w) /\ UNCHANGED <<rows, loose, given>>)
    BY <2>1, <2>3 DEF AfterCommit
  <2> QED
    BY <2>2, <2>3
<1>9. ASSUME NEW w \in Workers, DeleteGuest(w) PROVE TypeOK'
  <2>1. CASE Leave(w)
    BY <1>9, <2>1 DEF DeleteGuest, Leave, history
  <2>2. CASE Goto(w, "evict")
    BY <1>9, <2>2 DEF DeleteGuest, Goto, history
  <2> QED
    BY <1>9, <2>1, <2>2 DEF DeleteGuest
<1>10. ASSUME NEW w \in Workers, EvictGuest(w) PROVE TypeOK'
  BY <1>10 DEF EvictGuest, Goto, history
<1>11. ASSUME NEW w \in Workers, Store(w) PROVE TypeOK'
  BY <1>11 DEF Store, CachedAnew, Leave, history
<1>12. ASSUME NEW w \in Workers, Interrupted(w) PROVE TypeOK'
  BY <1>12 DEF Interrupted, Leave, history
<1>13. CASE UNCHANGED vars
  BY <1>13 DEF vars, worker, history, tables
<1> QED
  BY NextIsStep, <1>1, <1>2, <1>3, <1>4, <1>5, <1>6, <1>7, <1>8, <1>9,
     <1>10, <1>11, <1>12, <1>13
  DEF Step

(* What the requests hold.                                                 *)
LEMMA InHandStep ==
  TypeOK /\ InHand /\ [Next]_vars => InHand'
<1> SUFFICES ASSUME TypeOK, InHand, [Next]_vars PROVE InHand'
  OBVIOUS
<1> USE CartsAssumption DEF TypeOK, InHand, Empty, Whole, tables
<1>1. ASSUME NEW w \in Workers, NEW r \in Requests, NEW s, Starts(w, r, s) PROVE InHand'
  BY <1>1 DEF Starts, Begin
<1>2. ASSUME NEW w \in Workers, Lookup(w) PROVE InHand'
  <2>1. Sought(w) \in Ids /\ step[w] = "lookup"
    BY <1>2, SoughtCart DEF Lookup
  <2>2. CASE /\ cache[Sought(w)] # Absent /\ cache' = cache
             /\ OfGuest(w) /\ Found(w, cache[Sought(w)])
    BY <1>2, <2>1, <2>2 DEF Lookup, Found, history
  <2>3. CASE /\ cache[Sought(w)] # Absent /\ cache' = cache
             /\ ~OfGuest(w) /\ Found(w, cache[Sought(w)])
    <3>1. request[w].op = "Merge" => guest[w] # Absent
      BY <2>3 DEF OfGuest
    <3>2. /\ copy' = [copy EXCEPT ![w] = cache[Sought(w)]]
          /\ step' = [step EXCEPT ![w] = "check"]
          /\ UNCHANGED <<request, guest, known, found, tables, given, cache, history>>
      BY <1>2, <2>3 DEF Lookup, Found
    <3>3. cache[Sought(w)] \in Cart /\ cache[Sought(w)] \in SUBSET (Item \cup NewItem)
      BY <2>1, <2>3 DEF Cart
    <3> QED
      BY <2>1, <3>1, <3>2, <3>3 DEF history
  <2>4. CASE cache' = [cache EXCEPT ![Sought(w)] = Absent] /\ Goto(w, "read")
    BY <1>2, <2>1, <2>4 DEF Lookup, Goto, history
  <2> QED
    BY <1>2, <2>2, <2>3, <2>4 DEF Lookup
<1>3. ASSUME NEW w \in Workers, ReadRow(w) PROVE InHand'
  <2>1. Sought(w) \in Ids /\ step[w] = "read"
    BY <1>3, SoughtCart DEF ReadRow
  <2>2. CASE Leave(w)
    BY <1>3, <2>1, <2>2 DEF ReadRow, Leave, history
  <2>3. CASE /\ rows[Sought(w)] # Absent /\ copy' = [copy EXCEPT ![w] = rows[Sought(w)]]
             /\ step' = [step EXCEPT ![w] = "fill"]
             /\ UNCHANGED <<request, guest, known, found>>
    <3>1. rows[Sought(w)] \in Cart /\ rows[Sought(w)] \in SUBSET (Item \cup NewItem)
      BY <2>1, <2>3 DEF Cart
    <3> QED
      BY <1>3, <2>1, <2>3, <3>1 DEF ReadRow, history
  <2> QED
    BY <1>3, <2>2, <2>3 DEF ReadRow
<1>4. ASSUME NEW w \in Workers, Fill(w) PROVE InHand'
  <2>1. Sought(w) \in Ids /\ step[w] = "fill" /\ copy[w] \in Cart
    BY <1>4, SoughtCart DEF Fill
  <2>2. CASE OfGuest(w)
    BY <1>4, <2>1, <2>2 DEF Fill, Found, history
  <2>3. CASE ~OfGuest(w)
    <3>1. request[w].op = "Merge" => guest[w] # Absent
      BY <2>3 DEF OfGuest
    <3> QED
      BY <1>4, <2>1, <2>3, <3>1 DEF Fill, Found, history
  <2> QED
    BY <2>2, <2>3
<1>5. ASSUME NEW w \in Workers, Change(w) PROVE InHand'
  <2>1. PICK items \in Changed(w) :
          /\ copy' = [copy EXCEPT ![w] = items]
          /\ step' = [step EXCEPT ![w] = "load"]
          /\ UNCHANGED <<request, guest, known, found>>
          /\ WithinBounds(items)
    BY <1>5 DEF Change
  <2>2. items \in SUBSET Items /\ items \in SUBSET (Item \cup NewItem)
    BY <1>5, <2>1, ChangedItems DEF Change, Items
  <2> QED
    BY <1>5, <2>1, <2>2 DEF Change, history
<1>6. ASSUME NEW w \in Workers, Refuse(w) PROVE InHand'
  BY <1>6 DEF Refuse, Leave, history
<1>7. ASSUME NEW w \in Workers, Load(w) PROVE InHand'
  <2>1. PICK r \in Requests, x \in SUBSET Items :
          /\ step[w] = "load" /\ request[w].cart \in Ids
          /\ request' = [request EXCEPT ![w] = r] /\ r.op = request[w].op
          /\ r.op = "Merge" => r.guest = request[w].guest
          /\ made' \in SUBSET Ids /\ made \subseteq made' /\ r.cart \in made'
          /\ origin' \in [Ids -> Ids]
          /\ copy' = [copy EXCEPT ![w] = x]
          /\ known' = [known EXCEPT ![w] = rows[request[w].cart]]
          /\ found' = [found EXCEPT ![w] = IdsOf(x) \cap Stored]
          /\ step' = [step EXCEPT ![w] = "commit"]
          /\ UNCHANGED <<rows, loose, cache, given, guest, disturbed, troubles>>
    BY <1>7, LoadStep
  <2>2. IdsOf(x) \cap Stored \in SUBSET ItemIds
    BY StoredTyped
  <2> QED
    BY <2>1, <2>2 DEF Items
<1>8. ASSUME NEW w \in Workers, Commit(w) PROVE InHand'
  <2> DEFINE saved == Named(w)
  <2>1. /\ step[w] = "commit" /\ request[w].cart \in Ids
        /\ saved \in Cart /\ saved \in SUBSET (Item \cup NewItem)
        /\ UNCHANGED <<cache, made, origin, disturbed, troubles>>
        /\ \/ Leave(w) /\ UNCHANGED <<rows, loose, given>>
           \/ /\ rows' \in [Ids -> {Absent} \cup Cart]
              /\ loose' \in SUBSET ItemIds /\ given' \in SUBSET ItemIds
              /\ copy' = [copy EXCEPT ![w] = saved]
              /\ known' = [known EXCEPT ![w] = Absent]
              /\ found' = [found EXCEPT ![w] = {}]
              /\ step' = [step EXCEPT ![w] = AfterCommit(w)]
              /\ UNCHANGED <<request, guest>>
    BY <1>8, CommitStep DEF Items
  <2> HIDE DEF saved
  <2>2. CASE Leave(w) /\ UNCHANGED <<rows, loose, given>>
    BY <2>1, <2>2 DEF Leave
  <2>3. CASE ~(Leave(w) /\ UNCHANGED <<rows, loose, given>>)
    BY <2>1, <2>3 DEF AfterCommit
  <2> QED
    BY <2>2, <2>3
<1>9. ASSUME NEW w \in Workers, DeleteGuest(w) PROVE InHand'
  BY <1>9 DEF DeleteGuest, Leave, Goto, history
<1>10. ASSUME NEW w \in Workers, EvictGuest(w) PROVE InHand'
  BY <1>10 DEF EvictGuest, Goto, history
<1>11. ASSUME NEW w \in Workers, Store(w) PROVE InHand'
  BY <1>11 DEF Store, CachedAnew, Leave, history
<1>12. ASSUME NEW w \in Workers, Interrupted(w) PROVE InHand'
  BY <1>12 DEF Interrupted, Leave, history
<1>13. CASE UNCHANGED vars
  BY <1>13 DEF vars, worker, history, tables
<1> QED
  BY NextIsStep, <1>1, <1>2, <1>3, <1>4, <1>5, <1>6, <1>7, <1>8, <1>9,
     <1>10, <1>11, <1>12, <1>13
  DEF Step

(* One step gives items to one cart at most: those that come with new ids, *)
(* or those of the cart in whose place one is put back.                    *)
Heir(c, i) == \E b \in Ids : Has(b, i) /\ c \in made' /\ origin'[c] = origin[b]
Gains(e) == \A c \in Ids, i \in ItemIds :
              Has(c, i)' => \/ Has(c, i)
                            \/ Heir(c, i)
                            \/ c = e /\ c \in made' /\ i \notin given /\ i \in given'
Spread == \E e : Gains(e)

LEMMA NoGains ==
  (\A c \in Ids, i \in ItemIds : Has(c, i)' => Has(c, i) \/ Heir(c, i)) => Spread
<1> SUFFICES ASSUME \A c \in Ids, i \in ItemIds : Has(c, i)' => Has(c, i) \/ Heir(c, i)
             PROVE  Spread
  OBVIOUS
<1>1. PICK x : x = New
  OBVIOUS
<1>2. Gains(x)
  BY DEF Gains
<1> QED
  BY ONLY <1>2 DEF Spread

(* Who has what after a step.                                              *)
LEMMA SpreadStep ==
  TypeOK /\ InHand /\ [Next]_vars => Spread
<1> SUFFICES ASSUME TypeOK, InHand, [Next]_vars PROVE Spread
  OBVIOUS
<1> USE CartsAssumption DEF TypeOK, InHand, Empty, Whole, Has, InRow, InEntry, InCopy,
     InLoaded, ItemsOf, Loaded, Full, Subject, Sought, OfGuest, tables
<1>1. ASSUME NEW w \in Workers, NEW r \in Requests, NEW s, Starts(w, r, s) PROVE Spread
  <2>1. ASSUME NEW c \in Ids, NEW i \in ItemIds, Has(c, i)' PROVE Has(c, i)
    BY <1>1, <2>1 DEF Starts, Begin, history
  <2> QED
    BY ONLY <2>1, NoGains
<1>2. ASSUME NEW w \in Workers, Lookup(w) PROVE Spread
  <2>1. ASSUME NEW c \in Ids, NEW i \in ItemIds, Has(c, i)' PROVE Has(c, i)
    BY <1>2, <2>1 DEF Lookup, Found, Goto, history
  <2> QED
    BY ONLY <2>1, NoGains
<1>3. ASSUME NEW w \in Workers, ReadRow(w) PROVE Spread
  <2>1. ASSUME NEW c \in Ids, NEW i \in ItemIds, Has(c, i)' PROVE Has(c, i)
    BY <1>3, <2>1 DEF ReadRow, Leave, history
  <2> QED
    BY ONLY <2>1, NoGains
<1>4. ASSUME NEW w \in Workers, Fill(w) PROVE Spread
  <2>1. ASSUME NEW c \in Ids, NEW i \in ItemIds, Has(c, i)' PROVE Has(c, i)
    BY <1>4, <2>1 DEF Fill, Found, history
  <2> QED
    BY ONLY <2>1, NoGains
<1>5. ASSUME NEW w \in Workers, Change(w) PROVE Spread
  <2>1. PICK items \in Changed(w) :
          /\ copy' = [copy EXCEPT ![w] = items]
          /\ step' = [step EXCEPT ![w] = "load"]
          /\ UNCHANGED <<request, guest, known, rows, cache>>
          /\ WithinBounds(items)
    BY <1>5 DEF Change
  <2>2. step[w] = "check" /\ IdsOf(items) \subseteq IdsOf(copy[w]) \cup {New}
    BY <1>5, <2>1, ChangedItems DEF Change
  <2>3. ASSUME NEW c \in Ids, NEW i \in ItemIds, NEW v \in Workers, InCopy(v, c, i)'
        PROVE  InCopy(v, c, i)
    <3>1. CASE v # w
      BY <2>1, <2>3, <3>1
    <3>2. CASE v = w
      BY <2>1, <2>2, <2>3, <3>2
    <3> QED
      BY <3>1, <3>2
  <2>4. \A c \in Ids, i \in ItemIds : Has(c, i)' => Has(c, i)
    BY <2>1, <2>3
  <2> QED
    BY ONLY <2>4, NoGains
<1>6. ASSUME NEW w \in Workers, Refuse(w) PROVE Spread
  <2>1. ASSUME NEW c \in Ids, NEW i \in ItemIds, Has(c, i)' PROVE Has(c, i)
    BY <1>6, <2>1 DEF Refuse, Leave, history
  <2> QED
    BY ONLY <2>1, NoGains
<1>7. ASSUME NEW w \in Workers, Load(w) PROVE Spread
  <2> DEFINE e == request[w].cart
  <2>1. PICK r \in Requests, x \in SUBSET Items :
          /\ step[w] = "load" /\ e \in Ids
          /\ request' = [request EXCEPT ![w] = r] /\ r.op = request[w].op
          /\ made' \in SUBSET Ids /\ r.cart \in made' /\ origin'[r.cart] = origin[e]
          /\ x = (IF request[w].op = "Create" THEN {} ELSE copy[w])
          /\ copy' = [copy EXCEPT ![w] = x]
          /\ known' = [known EXCEPT ![w] = rows[e]]
          /\ step' = [step EXCEPT ![w] = "commit"]
          /\ UNCHANGED <<rows, cache, guest>>
    BY <1>7, LoadStep
  <2>2. ASSUME NEW c \in Ids, NEW i \in ItemIds, NEW v \in Workers,
               InCopy(v, c, i)' \/ InLoaded(v, c, i)'
        PROVE  InCopy(v, c, i) \/ InLoaded(v, c, i) \/ Heir(c, i)
    <3>1. CASE v # w
      BY <2>1, <2>2, <3>1
    <3>2. CASE v = w
      <4>1. c = r.cart /\ (i \in IdsOf(x) \/ InRow(e, i))
        BY <2>1, <2>2, <3>2
      <4>2. Has(e, i)
        <5>1. CASE i \in IdsOf(x)
          <6>1. x = copy[w] /\ request[w].op # "Create"
            BY <2>1, <5>1 DEF IdsOf
          <6>2. InCopy(w, e, i)
            BY <2>1, <5>1, <6>1
          <6> QED
            BY <6>2
        <5>2. CASE InRow(e, i)
          BY <5>2
        <5> QED
          BY <4>1, <5>1, <5>2
      <4> QED
        BY ONLY <2>1, <4>1, <4>2 DEF Heir
    <3> QED
      BY <3>1, <3>2
  <2>3. ASSUME NEW c \in Ids, NEW i \in ItemIds, Has(c, i)' PROVE Has(c, i) \/ Heir(c, i)
    <3>1. CASE InRow(c, i)' \/ InEntry(c, i)'
      BY <2>1, <3>1
    <3>2. CASE ~(InRow(c, i)' \/ InEntry(c, i)')
      <4>1. PICK v \in Workers : InCopy(v, c, i)' \/ InLoaded(v, c, i)'
        BY ONLY <2>3, <3>2 DEF Has
      <4> QED
        BY ONLY <2>2, <4>1 DEF Has
    <3> QED
      BY <3>1, <3>2
  <2> QED
    BY ONLY <2>3, NoGains
<1>8. ASSUME NEW w \in Workers, Commit(w) PROVE Spread
  <2> DEFINE e == request[w].cart
             saved == Named(w)
  <2>1. /\ step[w] = "commit" /\ e \in Ids /\ e \in made /\ saved \in Cart
        /\ IdsOf(saved) \subseteq (IdsOf(copy[w]) \cap found[w]) \cup (ItemIds \ given)
        /\ UNCHANGED <<cache, made>>
    BY <1>8, CommitStep
  <2>2. CASE Leave(w) /\ UNCHANGED <<rows, loose, given>>
    <3>1. ASSUME NEW c \in Ids, NEW i \in ItemIds, Has(c, i)' PROVE Has(c, i)
      BY <2>1, <2>2, <3>1 DEF Leave
    <3> QED
      BY ONLY <3>1, NoGains
  <2>3. CASE ~(Leave(w) /\ UNCHANGED <<rows, loose, given>>)
    <3>1. /\ rows' = [c \in Ids |-> IF rows[c] = Absent /\ ~Inserted(w, c)
                                    THEN Absent ELSE RowAfterSave(w, saved, c)]
          /\ given' = given \cup IdsOf(saved)
          /\ copy' = [copy EXCEPT ![w] = saved]
          /\ known' = [known EXCEPT ![w] = Absent]
          /\ step' = [step EXCEPT ![w] = AfterCommit(w)]
          /\ UNCHANGED <<request, guest>>
      BY <1>8, <2>3, CommitStep
    <3>2. ASSUME NEW c \in Ids
          PROVE  IdsOf(RowAfterSave(w, saved, c)) \subseteq
                   IdsOf(ItemsOf(c)) \cup (IF c = e THEN IdsOf(saved) ELSE {})
      BY ONLY <2>1, <3>2, SavedItems, TypeOK
    <3>3. ASSUME NEW i \in ItemIds, i \in IdsOf(saved)
          PROVE  Has(e, i) \/ (e \in made' /\ i \notin given /\ i \in given')
      <4>1. CASE i \in given
        <5>1. i \in IdsOf(copy[w])
          BY <2>1, <3>3, <4>1
        <5>2. InCopy(w, e, i)
          BY <2>1, <5>1
        <5> QED
          BY <5>2
      <4>2. CASE i \notin given
        BY <2>1, <3>1, <3>3, <4>2
      <4> QED
        BY <4>1, <4>2
    <3>4. ASSUME NEW c \in Ids, NEW i \in ItemIds, InRow(c, i)'
          PROVE  InRow(c, i) \/ (c = e /\ i \in IdsOf(saved))
      <4>1. rows'[c] # Absent /\ i \in IdsOf(rows'[c])
        BY <3>4 DEF IdsOf
      <4>2. rows'[c] = RowAfterSave(w, saved, c)
        BY <3>1, <4>1
      <4> QED
        BY ONLY <3>2, <4>1, <4>2 DEF InRow
    <3>5. ASSUME NEW c \in Ids, NEW i \in ItemIds, NEW v \in Workers,
                 InCopy(v, c, i)' \/ InLoaded(v, c, i)'
          PROVE  InCopy(v, c, i) \/ InLoaded(v, c, i) \/ (c = e /\ i \in IdsOf(saved))
      <4> HIDE DEF saved
      <4>1. CASE v # w
        BY <3>1, <3>5, <4>1
      <4>2. CASE v = w
        BY <2>1, <3>1, <3>5, <4>2 DEF AfterCommit
      <4> QED
        BY <4>1, <4>2
    <3>6. ASSUME NEW c \in Ids, NEW i \in ItemIds PROVE InEntry(c, i)' => InEntry(c, i)
      BY <2>1
    <3>7. PICK x : x = e
      OBVIOUS
    <3>8. Gains(x)
      BY ONLY <3>3, <3>4, <3>5, <3>6, <3>7 DEF Gains, Has
    <3> QED
      BY ONLY <3>8 DEF Spread
  <2> QED
    BY <2>2, <2>3
<1>9. ASSUME NEW w \in Workers, DeleteGuest(w) PROVE Spread
  <2>1. ASSUME NEW c \in Ids, NEW i \in ItemIds, Has(c, i)' PROVE Has(c, i)
    BY <1>9, <2>1 DEF DeleteGuest, Leave, Goto, history, IdsOf
  <2> QED
    BY ONLY <2>1, NoGains
<1>10. ASSUME NEW w \in Workers, EvictGuest(w) PROVE Spread
  <2>1. ASSUME NEW c \in Ids, NEW i \in ItemIds, Has(c, i)' PROVE Has(c, i)
    BY <1>10, <2>1 DEF EvictGuest, Goto, history
  <2> QED
    BY ONLY <2>1, NoGains
<1>11. ASSUME NEW w \in Workers, Store(w) PROVE Spread
  <2>1. ASSUME NEW c \in Ids, NEW i \in ItemIds, Has(c, i)' PROVE Has(c, i)
    BY <1>11, <2>1 DEF Store, CachedAnew, Leave, history
  <2> QED
    BY ONLY <2>1, NoGains
<1>12. ASSUME NEW w \in Workers, Interrupted(w) PROVE Spread
  <2>1. ASSUME NEW c \in Ids, NEW i \in ItemIds, Has(c, i)' PROVE Has(c, i)
    BY <1>12, <2>1 DEF Interrupted, Leave, history
  <2> QED
    BY ONLY <2>1, NoGains
<1>13. CASE UNCHANGED vars
  <2>1. ASSUME NEW c \in Ids, NEW i \in ItemIds, Has(c, i)' PROVE Has(c, i)
    BY <1>13, <2>1 DEF vars, worker, history, tables
  <2> QED
    BY ONLY <2>1, NoGains
<1> QED
  BY NextIsStep, <1>1, <1>2, <1>3, <1>4, <1>5, <1>6, <1>7, <1>8, <1>9,
     <1>10, <1>11, <1>12, <1>13
  DEF Step

LEMMA GivenGrows ==
  TypeOK /\ InHand /\ [Next]_vars =>
    /\ given \subseteq given' /\ made \subseteq made'
    /\ \A c \in made : origin'[c] = origin[c]
<1> DEFINE Grows == /\ given \subseteq given' /\ made \subseteq made'
                    /\ \A c \in made : origin'[c] = origin[c]
<1> SUFFICES ASSUME TypeOK, InHand, [Next]_vars PROVE Grows
  OBVIOUS
<1>1. ASSUME NEW w \in Workers, NEW r \in Requests, NEW s, Starts(w, r, s) PROVE Grows
  BY <1>1 DEF Starts, Begin
<1>2. ASSUME NEW w \in Workers,
             Lookup(w) \/ ReadRow(w) \/ Fill(w) \/ Change(w) \/ Refuse(w)
      PROVE  Grows
  BY <1>2 DEF Lookup, ReadRow, Fill, Change, Refuse, history
<1>3. ASSUME NEW w \in Workers,
             DeleteGuest(w) \/ EvictGuest(w) \/ Store(w) \/ Interrupted(w)
      PROVE  Grows
  BY <1>3 DEF DeleteGuest, EvictGuest, Store, Interrupted, history
<1>4. ASSUME NEW w \in Workers, Load(w) PROVE Grows
  BY <1>4, LoadStep
<1>5. ASSUME NEW w \in Workers, Commit(w) PROVE Grows
  BY <1>5 DEF Commit, history
<1>6. CASE UNCHANGED vars
  BY <1>6 DEF vars, history
<1> QED
  BY NextIsStep, <1>1, <1>2, <1>3, <1>4, <1>5, <1>6 DEF Step

LEMMA OwnerStep ==
  TypeOK /\ InHand /\ OneOwner /\ AllGiven /\ [Next]_vars => OneOwner' /\ AllGiven'
<1> SUFFICES ASSUME TypeOK, InHand, OneOwner, AllGiven, [Next]_vars
             PROVE  OneOwner' /\ AllGiven'
  OBVIOUS
<1>1. PICK e : Gains(e)
  BY SpreadStep DEF Spread
<1>2. /\ given \subseteq given' /\ made \subseteq made'
      /\ \A c \in made : origin'[c] = origin[c]
  BY GivenGrows
<1>3. ASSUME NEW i \in ItemIds, NEW c \in Ids, Has(c, i)'
      PROVE  \/ Heir(c, i) /\ i \in given
             \/ c = e /\ c \in made' /\ i \notin given /\ i \in given'
  <2>1. CASE Has(c, i)
    <3>1. c \in made /\ i \in given
      BY <2>1 DEF AllGiven
    <3> QED
      BY <1>2, <2>1, <3>1 DEF Heir
  <2>2. CASE Heir(c, i)
    BY <2>2 DEF Heir, AllGiven
  <2> QED
    BY <1>1, <1>3, <2>1, <2>2 DEF Gains
<1>4. AllGiven'
  <2> SUFFICES ASSUME NEW i \in ItemIds, NEW c \in Ids, Has(c, i)'
               PROVE  i \in given' /\ c \in made'
    BY DEF AllGiven
  <2> QED
    BY <1>2, <1>3 DEF Heir
<1>5. ASSUME NEW i \in ItemIds, NEW c \in Ids, NEW d \in Ids, Has(c, i)', Has(d, i)'
      PROVE  origin'[c] = origin'[d]
  <2>1. CASE i \notin given
    BY <1>3, <1>5, <2>1
  <2>2. CASE i \in given
    <3>1. PICK b \in Ids : Has(b, i) /\ origin'[c] = origin[b]
      BY <1>3, <1>5, <2>2 DEF Heir
    <3>2. PICK a \in Ids : Has(a, i) /\ origin'[d] = origin[a]
      BY <1>3, <1>5, <2>2 DEF Heir
    <3> QED
      BY <3>1, <3>2 DEF OneOwner
  <2> QED
    BY <2>1, <2>2
<1>6. OneOwner'
  BY <1>5 DEF OneOwner
<1> QED
  BY <1>4, <1>6

(* The strengthening of the invariants below is one itself.                *)
THEOREM IInvAlways == Spec => []IInv
<1>1. IInv /\ [Next]_vars => IInv'
  BY TypeStep, InHandStep, OwnerStep DEF IInv
<1> QED
  BY InitInv, <1>1, PTL DEF Spec

(* A save of another cart leaves a cart as it is.                          *)
LEMMA RowsApart ==
  ASSUME IInv, NEW w \in Workers, Commit(w), NEW c \in Ids,
         origin[request[w].cart] # origin[c]
  PROVE  rows'[c] = rows[c]
<1> DEFINE e == request[w].cart
           saved == Named(w)
<1> USE DEF IInv
<1>1. /\ step[w] = "commit" /\ e \in Ids /\ e # c
      /\ IdsOf(saved) \subseteq (IdsOf(copy[w]) \cap found[w]) \cup (ItemIds \ given)
  BY CommitStep
<1>2. ASSUME NEW i \in ItemsOf(c)
      PROVE  i.id \notin IdsOf(saved) \cup IdsOf(Loaded(w))
  <2>1. i.id \in ItemIds /\ InRow(c, i.id)
    BY <1>2, RowTyped DEF InRow, IdsOf
  <2>2. Has(c, i.id) /\ i.id \in given
    BY <2>1 DEF Has, AllGiven
  <2>3. i.id \notin IdsOf(copy[w]) /\ i.id \notin IdsOf(Loaded(w))
    <3>1. ~Has(e, i.id)
      BY <1>1, <2>1, <2>2 DEF OneOwner
    <3> QED
      BY <1>1, <3>1 DEF Has, InCopy, InLoaded, Full, Subject, Empty
  <2> QED
    BY <1>1, <2>2, <2>3
<1>3. RowAfterSave(w, saved, c) = ItemsOf(c)
  <2>1. CutOff(w, saved) \cup IdsOf(Updated(w, saved)) \cup IdsOf(Attached(w, saved))
          \subseteq IdsOf(saved) \cup IdsOf(Loaded(w))
    BY DEF CutOff, Updated, Attached, IdsOf
  <2>2. {i \in Updated(w, saved) : i.id \in IdsOf(ItemsOf(c))} = {}
    BY <1>2 DEF Updated, IdsOf
  <2> QED
    BY <1>1, <1>2, <2>1, <2>2 DEF RowAfterSave
<1>4. CASE rows' = rows
  BY <1>4
<1>5. CASE rows' # rows
  <2>1. rows'[c] = IF rows[c] = Absent /\ ~Inserted(w, c)
                     THEN Absent ELSE RowAfterSave(w, saved, c)
    BY <1>5, CommitStep
  <2> QED
    BY <1>1, <1>3, <2>1 DEF Inserted, ItemsOf
<1> QED
  BY <1>4, <1>5

(* A cart's items change only when it is saved, or one that was put back   *)
(* in its place, or when it is merged away: whatever overlaps or dies, and *)
(* although a save writes items by id in whatever cart they are.           *)
THEOREM OthersAlwaysUntouched == Spec => OthersUntouched
<1> DEFINE Touches(w, c) ==
      \/ /\ step[w] = "commit" /\ step'[w] # "commit"
         /\ origin[request[w].cart] = origin[c]
      \/ /\ step[w] = "delete" /\ step'[w] # "delete"
         /\ request[w].guest = c
<1>1. ASSUME IInv, [Next]_vars, NEW c \in Ids, rows'[c] # rows[c]
      PROVE  \E w \in Workers : Touches(w, c)
  <2> USE DEF IInv
  <2>1. ASSUME NEW w \in Workers, Commit(w) PROVE Touches(w, c)
    <3>1. origin[request[w].cart] = origin[c]
      BY <1>1, <2>1, RowsApart
    <3>2. step[w] = "commit" /\ step'[w] # "commit"
      BY <1>1, <2>1, CommitStep DEF Leave, AfterCommit, TypeOK
    <3> QED
      BY <3>1, <3>2
  <2>2. ASSUME NEW w \in Workers, DeleteGuest(w) PROVE Touches(w, c)
    BY <1>1, <2>2 DEF DeleteGuest, Leave, Goto, TypeOK
  <2>3. ASSUME NEW w \in Workers,
               \/ Lookup(w) \/ ReadRow(w) \/ Fill(w) \/ Change(w) \/ Refuse(w)
               \/ Load(w) \/ EvictGuest(w) \/ Store(w) \/ Interrupted(w)
        PROVE  FALSE
    BY <1>1, <2>3 DEF Lookup, ReadRow, Fill, Change, Refuse, Load, EvictGuest, Store,
                      Interrupted, tables
  <2>4. ASSUME NEW w \in Workers, NEW r \in Requests, NEW s, Starts(w, r, s) PROVE FALSE
    BY <1>1, <2>4 DEF Starts, Begin, tables
  <2>5. ~UNCHANGED vars
    BY <1>1 DEF vars, tables
  <2> QED
    BY <1>1, NextIsStep, <2>1, <2>2, <2>3, <2>4, <2>5 DEF Step
<1>2. IInv /\ [Next]_vars =>
        \A c \in Ids : rows'[c] # rows[c] => \E w \in Workers : Touches(w, c)
  BY <1>1
<1> QED
  BY IInvAlways, <1>2, PTL DEF Spec, OthersUntouched

-----------------------------------------------------------------------------
(* Where nothing overlaps and nothing is interrupted: what the one request *)
(* there is has in its hands is the row, or the row as it is to be saved.  *)
Distinct(items) == \A i, j \in items : i.id = j.id /\ i.id # New => i = j
Untouched(w) == {i \in rows[request[w].cart] : i.product \notin About(request[w])}

Solo == \A v, w \in Workers : request[v] # Absent /\ request[w] # Absent => v = w
Keyed == \A c \in Ids : /\ rows[c] # Absent => c \in made /\ Distinct(rows[c])
                        /\ origin[c] = c
Ready(w) ==
  IF request[w].op = "Create"
    THEN rows[request[w].cart] = Absent /\ request[w].cart \in made
    ELSE /\ rows[request[w].cart] # Absent
         /\ Distinct(copy[w]) /\ Untouched(w) \subseteq copy[w]
         /\ IdsOf(copy[w]) \subseteq IdsOf(rows[request[w].cart]) \cup {New}
Closing == {"delete", "evict", "store"}
Current(w) ==
  /\ guest[w] # Absent =>
       /\ request[w] # Absent /\ request[w].op = "Merge"
       /\ step[w] \notin {"evict", "store"} => rows[request[w].guest] # Absent
  /\ request[w] # Absent /\ request[w].op = "Merge" => request[w].guest # request[w].cart
  /\ step[w] = "fill" => copy[w] = rows[Sought(w)]
  /\ step[w] = "check" => copy[w] = rows[request[w].cart]
  /\ step[w] \in {"load", "commit"} => Ready(w)
  /\ step[w] = "commit" => /\ known[w] = rows[request[w].cart]
                           /\ found[w] = IdsOf(copy[w]) \ {New}
                           /\ request[w].op = "Create" => copy[w] = {}
  /\ step[w] \in Closing => copy[w] = rows[request[w].cart]
  /\ step[w] = "delete" => guest[w] # Absent

(* The entry that a request which has saved is yet to set or to drop.      *)
Behind(w, c) == \/ step[w] \in Closing /\ c = request[w].cart
                \/ step[w] = "evict" /\ c = request[w].guest
Cached == \A c \in Ids : \/ cache[c] \in {Absent, rows[c]}
                         \/ \E w \in Workers : Behind(w, c)
Ordered == Solo /\ Keyed /\ (\A w \in Workers : Current(w)) /\ Cached
Calm == ~disturbed => Ordered

LEMMA MergedApart ==
  ASSUME NEW mine, NEW theirs, Shaped(mine), Distinct(mine)
  PROVE  Distinct(Merged(mine, theirs))
<1> DEFINE Grown(i) == IF i.product \in ProductsOf(theirs) /\ i = FirstOf(mine, i.product)
                         THEN [i EXCEPT !.qty = @ + Units(theirs, i.product)] ELSE i
<1>1. \A i \in mine : Grown(i).id = i.id
  <2>1. ASSUME NEW i \in mine, NEW q PROVE [i EXCEPT !.qty = q].id = i.id
    <3>1. i = [id |-> i.id, product |-> i.product, qty |-> i.qty]
      BY DEF Shaped
    <3> QED
      BY <3>1
  <2> QED
    BY <2>1
<1>2. ASSUME NEW k \in Merged(mine, theirs), k.id # New
      PROVE  \E i \in mine : k = Grown(i)
  BY <1>2 DEF Merged
<1> HIDE DEF Grown
<1>3. ASSUME NEW k \in Merged(mine, theirs), NEW l \in Merged(mine, theirs),
             k.id = l.id, k.id # New
      PROVE  k = l
  <2>1. PICK i \in mine : k = Grown(i)
    BY <1>2, <1>3
  <2>2. PICK j \in mine : l = Grown(j)
    BY <1>2, <1>3
  <2>3. i.id = j.id /\ i.id # New
    BY <1>1, <1>3, <2>1, <2>2
  <2> QED
    BY <2>1, <2>2, <2>3 DEF Distinct
<1> QED
  BY <1>3 DEF Distinct

LEMMA NamedApart ==
  ASSUME NEW w \in Workers, copy[w] \in SUBSET Items, Namings(w) # {},
         Distinct(copy[w]), found[w] = IdsOf(copy[w]) \ {New}, found[w] \subseteq given
  PROVE  /\ Distinct(Named(w))
         /\ \A i \in copy[w] : i.id # New => i \in Named(w)
<1> DEFINE fresh == CHOOSE f \in Namings(w) : TRUE
           fs == {i \in copy[w] : i.id \notin found[w]}
<1>1. /\ fresh \in [fs -> ItemIds \ given]
      /\ \A i, j \in fs : fresh[i] = fresh[j] => i = j
  <2>1. fresh \in Namings(w)
    OBVIOUS
  <2>2. fresh \in [fs -> ItemIds \ given] /\ IsInjective(fresh)
    BY <2>1 DEF Namings, Injection
  <2> QED
    BY <2>2 DEF IsInjective
<1>2. Named(w) = {IF i.id \in found[w] THEN i ELSE [i EXCEPT !.id = fresh[i]] : i \in copy[w]}
  BY DEF Named
<1> HIDE DEF fresh
<1>3. ASSUME NEW i \in copy[w], i.id \notin found[w]
      PROVE  [i EXCEPT !.id = fresh[i]].id \notin given /\ [i EXCEPT !.id = fresh[i]].id = fresh[i]
  <2>1. fresh[i] \in ItemIds \ given
    BY <1>1, <1>3
  <2>2. i \in Item \/ i \in NewItem
    BY DEF Items
  <2> QED
    BY <2>1, <2>2 DEF Item, NewItem
<1>4. ASSUME NEW k \in Named(w), NEW l \in Named(w), k.id = l.id PROVE k = l
  <2>1. PICK i \in copy[w] : k = IF i.id \in found[w] THEN i ELSE [i EXCEPT !.id = fresh[i]]
    BY <1>2
  <2>2. PICK j \in copy[w] : l = IF j.id \in found[w] THEN j ELSE [j EXCEPT !.id = fresh[j]]
    BY <1>2
  <2>3. CASE i.id \notin found[w] /\ j.id \notin found[w]
    <3>1. fresh[i] = fresh[j]
      BY <1>3, <1>4, <2>1, <2>2, <2>3
    <3>2. i = j
      BY <1>1, <2>3, <3>1
    <3> QED
      BY <2>1, <2>2, <3>2
  <2>4. CASE i.id \notin found[w] /\ j.id \in found[w]
    BY <1>3, <1>4, <2>1, <2>2, <2>4
  <2>5. CASE i.id \in found[w] /\ j.id \notin found[w]
    BY <1>3, <1>4, <2>1, <2>2, <2>5
  <2>6. CASE i.id \in found[w] /\ j.id \in found[w]
    BY <1>4, <2>1, <2>2, <2>6 DEF Distinct
  <2> QED
    BY <2>3, <2>4, <2>5, <2>6
<1>5. \A i \in copy[w] : i.id # New => i \in Named(w)
  BY <1>2 DEF IdsOf
<1> QED
  BY <1>4, <1>5 DEF Distinct

(* A save that has loaded the row as it still is leaves what was saved.    *)
LEMMA SavedWhole ==
  ASSUME NEW w \in Workers, NEW items \in Cart, known[w] = rows[request[w].cart],
         known[w] # Absent => known[w] \in Cart /\ Distinct(known[w]),
         Distinct(items), found[w] \subseteq IdsOf(Loaded(w))
  PROVE  RowAfterSave(w, items, request[w].cart) = items
<1> DEFINE old == Loaded(w)
           gone == CutOff(w, items) \cup IdsOf(Updated(w, items)) \cup IdsOf(Attached(w, items))
<1>1. old = ItemsOf(request[w].cart) /\ old \in Cart /\ Distinct(old)
  BY DEF Loaded, ItemsOf, Cart, Distinct
<1>2. /\ \A i, j \in items : i.id = j.id => i = j
      /\ \A i, j \in old : i.id = j.id => i = j
  <2>1. (\A i \in items : i.id # New) /\ \A i \in old : i.id # New
    BY <1>1, ItemsTyped DEF Cart
  <2> QED
    BY <1>1, <2>1 DEF Distinct
<1>3. Attached(w, items) = {i \in items : i.id \notin IdsOf(old)}
  BY DEF Attached
<1> HIDE DEF old
<1>4. RowAfterSave(w, items, request[w].cart) =
        {i \in old : i.id \notin gone} \cup {i \in Updated(w, items) : i.id \in IdsOf(old)}
          \cup Attached(w, items)
  BY <1>1 DEF RowAfterSave
<1>5. Updated(w, items) = {i \in items \ old : i.id \in IdsOf(old)}
      /\ CutOff(w, items) = IdsOf(old) \ IdsOf(items)
  BY DEF Updated, CutOff, old
<1>6. ASSUME NEW i \in old, i.id \notin gone PROVE i \in items
  <2>1. PICK j \in items : j.id = i.id
    BY <1>5, <1>6 DEF IdsOf
  <2>2. j \in old
    BY <1>5, <1>6, <2>1 DEF IdsOf
  <2> QED
    BY <1>2, <2>1, <2>2
<1>7. ASSUME NEW i \in items, i \in old PROVE i.id \notin gone
  <2>1. i.id \in IdsOf(items) /\ i.id \in IdsOf(old)
    BY <1>7 DEF IdsOf
  <2>2. \A j \in items : j.id = i.id => j = i
    BY <1>2
  <2> QED
    BY <1>3, <1>5, <1>7, <2>1, <2>2 DEF IdsOf
<1> HIDE DEF gone
<1> QED
  BY <1>3, <1>4, <1>5, <1>6, <1>7

(* The use cases change the products they are about, and no other.         *)
LEMMA ChangedKeeps ==
  ASSUME NEW w \in Workers, TypeOK, InHand, step[w] = "check",
         copy[w] = rows[request[w].cart], Distinct(copy[w]),
         NEW items \in Changed(w), WithinBounds(items)
  PROVE  Distinct(items) /\ Untouched(w) \subseteq items
<1> DEFINE r == request[w]
<1>1. r \in Requests /\ copy[w] \in Cart /\ copy[w] \in SUBSET Items
  BY DEF InHand, Whole, Items, Cart
<1>2. CASE r.op = "Add"
  <2> DEFINE one == {[id |-> New, product |-> r.product, qty |-> 1]}
  <2>1. r.product \in Products
    BY <1>1, <1>2 DEF Requests
  <2>2. one \in SUBSET Items
    BY <2>1, CartsAssumption DEF Items, NewItem
  <2>3. items = Merged(copy[w], one)
    BY <1>2 DEF Changed, WithOneMore
  <2>4. Untouched(w) = {i \in copy[w] : i.product # r.product}
    BY <1>2 DEF Untouched, About
  <2>5. ProductsOf(one) = {r.product}
    BY DEF ProductsOf
  <2> HIDE DEF one
  <2>6. ASSUME NEW i \in copy[w], i.product # r.product PROVE i \in items
    BY <2>3, <2>5, <2>6 DEF Merged
  <2> QED
    BY <1>1, <2>2, <2>3, <2>4, <2>6, MergedApart, ItemsShaped
<1>3. CASE r.op = "Update"
  <2>1. r.qty \in 1..MaxQty
    BY <1>1, <1>3 DEF Requests
  <2>2. items = WithQuantity(copy[w], r.item, r.qty) /\ r.item \in IdsOf(copy[w])
    BY <1>3 DEF Changed
  <2> DEFINE named == CHOOSE i \in copy[w] : i.id = r.item
             Put(i) == IF i = FirstOf(copy[w], named.product) THEN [i EXCEPT !.qty = r.qty] ELSE i
  <2>3. named \in copy[w] /\ named.id = r.item
    BY <2>2 DEF IdsOf
  <2>4. items = {Put(i) : i \in copy[w]}
    BY <2>2 DEF WithQuantity
  <2>5. FirstOf(copy[w], named.product).product = named.product
    BY <2>3 DEF FirstOf
  <2>6. named.product \in About(r)
    <3>1. \A i \in copy[w] : i.id = r.item => i.product \in About(r)
      BY <1>3 DEF About
    <3> QED
      BY ONLY <2>3, <3>1
  <2>7. \A i \in copy[w] : Put(i).id = i.id
    BY <1>1, <2>1, ItemsTyped
  <2>8. \A i \in Untouched(w) : i \in copy[w] /\ Put(i) = i
    BY <2>5, <2>6 DEF Untouched
  <2> HIDE DEF Put, named
  <2>9. Untouched(w) \subseteq items
    BY <2>4, <2>8
  <2>10. Distinct(items)
    BY <2>4, <2>7 DEF Distinct
  <2> QED
    BY <2>9, <2>10
<1>4. CASE r.op = "Remove"
  <2>1. items = Without(copy[w], r.item) /\ r.item \in IdsOf(copy[w])
    BY <1>4 DEF Changed
  <2>2. \A i \in copy[w] : i.id = r.item => i.product \in About(r)
    BY <1>4 DEF About
  <2> QED
    BY <2>1, <2>2 DEF Without, Distinct, Untouched
<1>5. CASE r.op \in {"Clear", "Merge"}
  <2>1. About(r) = Products
    BY <1>5 DEF About
  <2>2. Untouched(w) = {}
    BY <1>1, <2>1, ItemsTyped DEF Untouched, Items
  <2>3. CASE r.op = "Clear"
    BY <2>2, <2>3 DEF Changed, Distinct
  <2>4. CASE r.op = "Merge"
    <3>1. guest[w] \in SUBSET Items
      BY <2>4 DEF InHand, TypeOK, Cart, Items
    <3>2. Shaped(Merged(copy[w], guest[w])) /\ Distinct(Merged(copy[w], guest[w]))
      BY <1>1, <3>1, MergedItems, MergedApart, ItemsShaped
    <3>3. items = Merged(Merged(copy[w], guest[w]), guest[w])
      BY <2>4 DEF Changed
    <3> QED
      BY <2>2, <3>2, <3>3, MergedApart
  <2> QED
    BY <1>5, <2>3, <2>4
<1>6. CASE r.op = "Get"
  BY <1>6 DEF Changed
<1>7. r.op \in {"Add", "Update", "Remove", "Clear", "Merge", "Get"}
  BY <1>1 DEF InHand, Requests
<1> QED
  BY <1>2, <1>3, <1>4, <1>5, <1>6, <1>7

-----------------------------------------------------------------------------
(* While one request is on its way, nobody else is.                        *)
LEMMA Alone ==
  ASSUME IInv, Ordered, NEW w \in Workers, step[w] # "idle",
         NEW v \in Workers, v # w
  PROVE  request[v] = Absent /\ step[v] = "idle" /\ guest[v] = Absent
<1>1. request[w] # Absent
  BY CartsAssumption DEF IInv, InHand
<1>2. request[v] = Absent
  BY <1>1 DEF Ordered, Solo
<1> QED
  BY <1>2, CartsAssumption DEF IInv, InHand, Ordered, Current

(* Only what that request has saved may differ from its entry.             *)
LEMMA AloneBehind ==
  ASSUME IInv, Ordered, NEW w \in Workers, step[w] # "idle", NEW c \in Ids
  PROVE  cache[c] \in {Absent, rows[c]} \/ Behind(w, c)
<1>1. \A v \in Workers : v # w => step[v] = "idle"
  BY Alone
<1> QED
  BY <1>1 DEF Ordered, Cached, Behind, Closing

(* A step of the one request there is: what remains to be shown about it.  *)
LEMMA AloneStep ==
  ASSUME IInv, Ordered, NEW w \in Workers, step[w] # "idle",
         \A v \in Workers : v # w =>
           request'[v] = request[v] /\ step'[v] = step[v] /\ guest'[v] = guest[v]
  PROVE  /\ Solo'
         /\ Current(w)' => \A v \in Workers : Current(v)'
<1>1. \A v \in Workers : v # w => request[v] = Absent /\ step[v] = "idle" /\ guest[v] = Absent
  BY Alone
<1>2. Solo'
  BY <1>1 DEF Solo
<1>3. ASSUME NEW v \in Workers, v # w PROVE Current(v)'
  BY <1>1, <1>3 DEF Current, Closing
<1> QED
  BY <1>2, <1>3

(* The request is over: no copy is left to answer for.                     *)
LEMMA Left ==
  ASSUME IInv, Ordered, NEW w \in Workers, step[w] # "idle", Leave(w)
  PROVE  Solo' /\ \A v \in Workers : Current(v)' /\ step'[v] = "idle"
<1>1. \A v \in Workers : v # w => request[v] = Absent /\ step[v] = "idle" /\ guest[v] = Absent
  BY Alone
<1>2. /\ request'[w] = Absent /\ step'[w] = "idle" /\ guest'[w] = Absent
      /\ \A v \in Workers : v # w =>
           request'[v] = request[v] /\ step'[v] = step[v] /\ guest'[v] = guest[v]
  BY DEF Leave, IInv, TypeOK
<1>3. Current(w)'
  BY <1>2 DEF Current, Closing
<1> QED
  BY <1>1, <1>2, <1>3, AloneStep

LEMMA FoundStep ==
  ASSUME IInv, Ordered, NEW w \in Workers, step[w] \in {"lookup", "fill"},
         NEW x, x = rows[Sought(w)], x # Absent, Found(w, x), rows' = rows
  PROVE  /\ Solo' /\ \A v \in Workers : Current(v)' /\ step'[v] \notin Closing
<1> USE CartsAssumption DEF IInv
<1>1. request[w] # Absent /\ step[w] # "idle" /\ Sought(w) \in Ids
  BY SoughtCart DEF InHand
<1>2. \A v \in Workers : v # w => request[v] = Absent /\ step[v] = "idle" /\ guest[v] = Absent
  BY <1>1, Alone
<1>3. CASE OfGuest(w)
  <2>1. /\ guest' = [guest EXCEPT ![w] = x]
        /\ step' = [step EXCEPT ![w] = "lookup"]
        /\ UNCHANGED <<request, known, found>>
    BY <1>3 DEF Found
  <2>2. request[w].op = "Merge" /\ rows[request[w].guest] # Absent
    BY <1>3 DEF OfGuest, Sought
  <2>3. Current(w)'
    BY <1>1, <2>1, <2>2 DEF Ordered, Current, Closing, TypeOK
  <2> QED
    BY <1>1, <1>2, <2>1, <2>3, AloneStep DEF TypeOK, Closing
<1>4. CASE ~OfGuest(w)
  <2>1. /\ copy' = [copy EXCEPT ![w] = x]
        /\ step' = [step EXCEPT ![w] = "check"]
        /\ UNCHANGED <<request, guest, known, found>>
    BY <1>4 DEF Found
  <2>2. x = rows[request[w].cart]
    BY <1>4 DEF Sought
  <2>3. Current(w)'
    BY <1>1, <2>1, <2>2 DEF Ordered, Current, Closing, TypeOK
  <2> QED
    BY <1>1, <1>2, <2>1, <2>3, AloneStep DEF TypeOK, Closing
<1> QED
  BY <1>3, <1>4

(* The commit of the one request there is: the row is then the copy, and   *)
(* the items it already knew are in it.                                    *)
LEMMA CommitAlone ==
  ASSUME IInv, Ordered, NEW w \in Workers, Commit(w)
  PROVE  LET c == request[w].cart
             items == Named(w)
         IN  /\ step[w] = "commit" /\ c \in Ids /\ c \in made
             /\ items \in Cart /\ Distinct(items)
             /\ rows' = [rows EXCEPT ![c] = items]
             /\ copy' = [copy EXCEPT ![w] = items]
             /\ step' = [step EXCEPT ![w] = AfterCommit(w)]
             /\ UNCHANGED <<request, guest, cache, made, origin>>
             /\ rows[c] # Absent =>
                  \A i \in rows[c] : i.product \notin About(request[w]) => i \in items
<1> USE CartsAssumption DEF IInv
<1> DEFINE c == request[w].cart
           items == Named(w)
<1>1. /\ step[w] = "commit" /\ c \in Ids /\ c \in made /\ copy[w] \in SUBSET Items
      /\ Namings(w) # {} /\ items \in Cart
      /\ UNCHANGED <<cache, made, origin>>
  BY CommitStep DEF Commit, InHand
<1>2. /\ known[w] = rows[c] /\ Ready(w) /\ (request[w].op = "Create" => copy[w] = {})
      /\ found[w] = IdsOf(copy[w]) \ {New}
  BY <1>1 DEF Ordered, Current
<1>3. Distinct(copy[w]) /\ found[w] \subseteq IdsOf(Loaded(w))
  BY <1>2 DEF Ready, Distinct, Loaded, IdsOf
<1>4. found[w] \subseteq given
  <2>1. ASSUME NEW i \in found[w] PROVE i \in given
    <3>1. i \in ItemIds /\ i \in IdsOf(Loaded(w))
      BY <1>3 DEF TypeOK
    <3>2. Has(c, i)
      BY <1>1, <3>1 DEF Has, InLoaded
    <3> QED
      BY <1>1, <3>1, <3>2 DEF AllGiven
  <2> QED
    BY <2>1
<1>5. Distinct(items) /\ \A i \in copy[w] : i.id # New => i \in items
  BY <1>1, <1>2, <1>3, <1>4, NamedApart
<1>6. known[w] # Absent => known[w] \in Cart /\ Distinct(known[w])
  BY <1>1, <1>2 DEF Ordered, Keyed, TypeOK
<1>7. RowAfterSave(w, items, c) = items
  BY <1>1, <1>2, <1>3, <1>5, <1>6, SavedWhole
<1>8. ~Refused(w, items)
  BY <1>2 DEF Refused
<1>9. /\ rows' = [d \in Ids |-> IF rows[d] = Absent /\ ~Inserted(w, d)
                                THEN Absent ELSE RowAfterSave(w, items, d)]
      /\ copy' = [copy EXCEPT ![w] = items]
      /\ step' = [step EXCEPT ![w] = AfterCommit(w)]
      /\ UNCHANGED <<request, guest>>
  BY <1>8 DEF Commit
<1>10. rows' = [rows EXCEPT ![c] = items]
  <2>1. rows'[c] = items
    BY <1>1, <1>2, <1>7, <1>9 DEF Inserted
  <2>2. ASSUME NEW d \in Ids, d # c PROVE rows'[d] = rows[d]
    <3>1. origin[c] # origin[d]
      BY <1>1, <2>2 DEF Ordered, Keyed
    <3> QED
      BY <3>1, RowsApart
  <2>3. rows' = [d \in Ids |-> rows'[d]]
    BY <1>9
  <2> QED
    BY <2>1, <2>2, <2>3 DEF TypeOK
<1>11. ASSUME rows[c] # Absent, NEW i \in rows[c], i.product \notin About(request[w])
       PROVE  i \in items
  <2>1. i \in copy[w]
    BY <1>1, <1>2, <1>11 DEF Ready, Untouched, Ordered, Keyed
  <2>2. i.id # New
    BY <1>1, <1>11, ItemsTyped DEF TypeOK, Cart
  <2> QED
    BY <1>5, <2>1, <2>2
<1> QED
  BY <1>1, <1>5, <1>9, <1>10, <1>11

LEMMA OrderedStep ==
  ASSUME IInv, IInv', Ordered, [Next]_vars, ~disturbed'
  PROVE  Ordered'
<1> USE CartsAssumption DEF IInv
<1>1. ASSUME NEW w \in Workers, NEW r \in Requests, NEW s, Starts(w, r, s) PROVE Ordered'
  <2>1. /\ request' = [request EXCEPT ![w] = r] /\ step' = [step EXCEPT ![w] = s]
        /\ \A v \in Workers : request[v] = Absent
        /\ ~(r.op = "Merge" /\ r.guest = r.cart)
        /\ UNCHANGED <<rows, cache, given, copy, guest, known, origin>>
    BY <1>1 DEF Starts, Begin, tables
  <2>2. \A v \in Workers : step[v] = "idle" /\ guest[v] = Absent
    BY <2>1 DEF InHand, Ordered, Current
  <2>3. Solo'
    BY <2>1 DEF Solo
  <2>4. Keyed'
    BY <1>1, <2>1 DEF Starts, Ordered, Keyed, Distinct
  <2>5. s = "load" => r.op = "Create" /\ rows[r.cart] = Absent /\ r.cart \in made'
    <3>1. r.cart \in Ids
      BY DEF Requests
    <3> QED
      BY <1>1, <3>1 DEF Starts, Ordered, Keyed
  <2>6. s \in {"load", "lookup"}
    BY <1>1 DEF Starts
  <2>7. Current(w)'
    BY <2>1, <2>2, <2>5, <2>6 DEF Current, Closing, Ready, TypeOK
  <2>8. ASSUME NEW v \in Workers, v # w PROVE Current(v)'
    BY <2>1, <2>2, <2>8 DEF Current, Closing, TypeOK
  <2>9. Cached'
    BY <2>1, <2>2 DEF Ordered, Cached, Behind, Closing
  <2> QED
    BY <2>3, <2>4, <2>7, <2>8, <2>9 DEF Ordered
<1>2. ASSUME NEW w \in Workers, Lookup(w) PROVE Ordered'
  <2> DEFINE c == Sought(w)
  <2>1. c \in Ids /\ step[w] = "lookup" /\ UNCHANGED <<rows, made, origin>>
    BY <1>2, SoughtCart DEF Lookup, history, tables
  <2>2. Keyed'
    BY <2>1 DEF Ordered, Keyed, Distinct
  <2>3. CASE cache[c] # Absent /\ cache' = cache /\ Found(w, cache[c])
    <3>1. cache[c] = rows[c]
      BY <2>1, <2>3, AloneBehind DEF Behind, Closing
    <3>2. Solo' /\ \A v \in Workers : Current(v)'
      BY <2>1, <2>3, <3>1, FoundStep
    <3>3. Cached'
      BY <2>1, <2>3, AloneBehind DEF Cached, Behind, Closing
    <3> QED
      BY <2>2, <3>2, <3>3 DEF Ordered
  <2>4. CASE cache' = [cache EXCEPT ![c] = Absent] /\ Goto(w, "read")
    <3>1. /\ step' = [step EXCEPT ![w] = "read"] /\ UNCHANGED <<request, copy, guest, known, found>>
      BY <2>4 DEF Goto
    <3>2. Current(w)'
      BY <2>1, <3>1 DEF Ordered, Current, Closing, TypeOK
    <3>3. Cached'
      BY <2>1, <2>4, <3>1, AloneBehind DEF Cached, Behind, Closing, TypeOK
    <3> QED
      BY <2>1, <2>2, <3>1, <3>2, <3>3, AloneStep DEF Ordered, TypeOK
  <2> QED
    BY <1>2, <2>3, <2>4 DEF Lookup
<1>3. ASSUME NEW w \in Workers, ReadRow(w) PROVE Ordered'
  <2> DEFINE c == Sought(w)
  <2>1. c \in Ids /\ step[w] = "read" /\ UNCHANGED <<rows, cache, made, origin>>
    BY <1>3, SoughtCart DEF ReadRow, history, tables
  <2>2. Keyed'
    BY <2>1 DEF Ordered, Keyed, Distinct
  <2>3. \A d \in Ids : cache[d] \in {Absent, rows[d]}
    BY <2>1, AloneBehind DEF Behind, Closing
  <2>4. Cached'
    BY <2>1, <2>3 DEF Cached
  <2>5. CASE Leave(w)
    BY <2>1, <2>2, <2>4, <2>5, Left DEF Ordered
  <2>6. CASE /\ copy' = [copy EXCEPT ![w] = rows[c]]
             /\ step' = [step EXCEPT ![w] = "fill"]
             /\ UNCHANGED <<request, guest, known, found>>
    <3>1. Current(w)'
      BY <2>1, <2>6 DEF Ordered, Current, Closing, TypeOK, Sought, OfGuest
    <3> QED
      BY <2>1, <2>2, <2>4, <2>6, <3>1, AloneStep DEF Ordered, TypeOK
  <2> QED
    BY <1>3, <2>5, <2>6 DEF ReadRow
<1>4. ASSUME NEW w \in Workers, Fill(w) PROVE Ordered'
  <2> DEFINE c == Sought(w)
  <2>1. /\ c \in Ids /\ step[w] = "fill" /\ UNCHANGED <<rows, made, origin>>
        /\ cache' = [cache EXCEPT ![c] = copy[w]] /\ Found(w, copy[w])
    BY <1>4, SoughtCart DEF Fill, history, tables
  <2>2. Keyed'
    BY <2>1 DEF Ordered, Keyed, Distinct
  <2>3. copy[w] = rows[c] /\ copy[w] # Absent
    BY <2>1 DEF Ordered, Current, InHand, Whole
  <2>4. Solo' /\ \A v \in Workers : Current(v)'
    BY <2>1, <2>3, FoundStep
  <2>5. \A d \in Ids : cache[d] \in {Absent, rows[d]}
    BY <2>1, AloneBehind DEF Behind, Closing
  <2>6. Cached'
    BY <2>1, <2>3, <2>5 DEF Cached, TypeOK
  <2> QED
    BY <2>2, <2>4, <2>6 DEF Ordered
<1>5. ASSUME NEW w \in Workers, Change(w) PROVE Ordered'
  <2>1. PICK items \in Changed(w) :
          /\ copy' = [copy EXCEPT ![w] = items]
          /\ step' = [step EXCEPT ![w] = "load"]
          /\ UNCHANGED <<request, guest, known, rows, cache, made, origin>>
          /\ WithinBounds(items)
    BY <1>5 DEF Change, history, tables
  <2>2. /\ step[w] = "check" /\ request[w].cart \in Ids
        /\ copy[w] = rows[request[w].cart] /\ copy[w] # Absent
        /\ request[w].op # "Create"
    BY <1>5, SoughtCart DEF Change, Ordered, Current, InHand, Whole, Requests
  <2>3. /\ Distinct(items) /\ Untouched(w) \subseteq items
        /\ IdsOf(items) \subseteq IdsOf(rows[request[w].cart]) \cup {New}
    BY <2>1, <2>2, ChangedKeeps, ChangedItems DEF Ordered, Keyed
  <2>4. Keyed'
    BY <2>1 DEF Ordered, Keyed, Distinct
  <2>5. Untouched(w)' = Untouched(w)
    BY <2>1 DEF Untouched, About
  <2>6. Ready(w)'
    <3>1. Distinct(items)' /\ copy'[w] = items
      BY <2>1, <2>3 DEF Distinct, TypeOK
    <3> QED
      BY <2>1, <2>2, <2>3, <2>5, <3>1 DEF Ready, Distinct
  <2>7. Current(w)'
    BY <2>1, <2>2, <2>6 DEF Ordered, Current, Closing, TypeOK
  <2>8. Cached'
    BY <2>1, <2>2, AloneBehind DEF Cached, Behind, Closing, TypeOK
  <2> QED
    BY <2>1, <2>2, <2>4, <2>7, <2>8, AloneStep DEF Ordered, TypeOK
<1>6. ASSUME NEW w \in Workers, Refuse(w) PROVE Ordered'
  <2>1. step[w] = "check" /\ Leave(w) /\ UNCHANGED <<rows, cache, made, origin>>
    BY <1>6 DEF Refuse, history, tables
  <2>2. Keyed'
    BY <2>1 DEF Ordered, Keyed, Distinct
  <2>3. Cached'
    BY <2>1, AloneBehind DEF Cached, Behind, Closing, Leave, TypeOK
  <2> QED
    BY <2>1, <2>2, <2>3, Left DEF Ordered
<1>7. ASSUME NEW w \in Workers, Load(w) PROVE Ordered'
  <2> DEFINE c == request[w].cart
             x == IF request[w].op = "Create" THEN {} ELSE copy[w]
  <2>1. /\ step[w] = "load" /\ c \in Ids
        /\ known' = [known EXCEPT ![w] = rows[c]]
        /\ copy' = [copy EXCEPT ![w] = x]
        /\ found' = [found EXCEPT ![w] = IdsOf(x) \cap Stored]
        /\ step' = [step EXCEPT ![w] = "commit"]
        /\ UNCHANGED <<rows, cache, given, guest>>
    <3>1. PICK r \in Requests, y \in SUBSET Items :
            /\ step[w] = "load" /\ c \in Ids /\ y = x
            /\ known' = [known EXCEPT ![w] = rows[c]]
            /\ copy' = [copy EXCEPT ![w] = y]
            /\ found' = [found EXCEPT ![w] = IdsOf(y) \cap Stored]
            /\ step' = [step EXCEPT ![w] = "commit"]
            /\ UNCHANGED <<rows, cache, given, guest>>
      BY <1>7, LoadStep
    <3> QED
      BY <3>1
  <2>2. Ready(w)
    BY <2>1 DEF Ordered, Current
  <2>3. UNCHANGED <<request, made, origin>>
    BY <1>7, <2>2 DEF Load, Ready
  <2>4. Keyed'
    BY <2>1, <2>3 DEF Ordered, Keyed, Distinct
  <2>5. Untouched(w)' = Untouched(w)
    BY <2>1, <2>3 DEF Untouched, About
  <2>6. Ready(w)'
    BY <2>1, <2>2, <2>3, <2>5 DEF Ready, Distinct, TypeOK
  <2>7. IdsOf(x) \cap Stored = IdsOf(x) \ {New}
    <3>1. New \notin Stored
      BY StoredTyped
    <3>2. ASSUME NEW i \in IdsOf(x), i # New PROVE i \in Stored
      <4>1. rows[c] # Absent /\ i \in IdsOf(rows[c])
        BY <2>2, <3>2 DEF Ready, IdsOf
      <4> QED
        BY <2>1, <4>1 DEF Stored, ItemsOf
    <3> QED
      BY <3>1, <3>2
  <2>8. Current(w)'
    BY <2>1, <2>3, <2>6, <2>7 DEF Ordered, Current, Closing, TypeOK
  <2>9. Cached'
    BY <2>1, <2>3, AloneBehind DEF Cached, Behind, Closing, TypeOK
  <2> QED
    BY <2>1, <2>3, <2>4, <2>8, <2>9, AloneStep DEF Ordered, TypeOK
<1>8. ASSUME NEW w \in Workers, Commit(w) PROVE Ordered'
  <2> DEFINE c == request[w].cart
             items == Named(w)
  <2>1. /\ step[w] = "commit" /\ c \in Ids /\ c \in made /\ items \in Cart /\ Distinct(items)
        /\ rows' = [rows EXCEPT ![c] = items]
        /\ copy' = [copy EXCEPT ![w] = items]
        /\ step' = [step EXCEPT ![w] = AfterCommit(w)]
        /\ UNCHANGED <<request, guest, cache, made, origin>>
    BY <1>8, CommitAlone
  <2> HIDE DEF items
  <2>2. Keyed'
    BY <2>1 DEF Ordered, Keyed, Distinct, TypeOK
  <2>3. request[w].op = "Merge" => guest[w] # Absent
    BY <2>1 DEF InHand
  <2>4. /\ rows'[c] = items /\ copy'[w] = items /\ step'[w] = AfterCommit(w)
        /\ \A d : d # c => rows'[d] = rows[d]
    BY <2>1 DEF TypeOK
  <2>5. Current(w)'
    BY <2>1, <2>3, <2>4 DEF Ordered, Current, Closing, AfterCommit
  <2>6. Cached'
    <3>1. ASSUME NEW d \in Ids, d # c PROVE cache'[d] \in {Absent, rows'[d]}
      BY <2>1, <2>4, <3>1, AloneBehind DEF Behind, Closing
    <3>2. ASSUME NEW d \in Ids, d = c PROVE Behind(w, d)'
      BY <2>1, <2>4, <3>2 DEF Behind, Closing, AfterCommit
    <3> QED
      BY <3>1, <3>2 DEF Cached
  <2> QED
    BY <2>1, <2>2, <2>5, <2>6, AloneStep DEF Ordered, TypeOK
<1>9. ASSUME NEW w \in Workers, DeleteGuest(w) PROVE Ordered'
  <2> DEFINE c == request[w].cart
             g == request[w].guest
  <2>1. /\ step[w] = "delete" /\ c \in Ids /\ g \in Ids
        /\ rows' = [rows EXCEPT ![g] = Absent] /\ UNCHANGED <<cache, made, origin>>
    BY <1>9, SoughtCart DEF DeleteGuest, InHand, history, tables
  <2>2. /\ request[w] # Absent /\ request[w].op = "Merge" /\ guest[w] # Absent
        /\ g # c /\ rows[g] # Absent /\ copy[w] = rows[c]
    BY <2>1 DEF Ordered, Current, Closing
  <2>3. /\ step' = [step EXCEPT ![w] = "evict"]
        /\ UNCHANGED <<request, copy, guest, known, found>>
    BY <1>9, <2>2 DEF DeleteGuest, Goto
  <2>4. Keyed'
    BY <2>1 DEF Ordered, Keyed, Distinct, TypeOK
  <2>5. Current(w)'
    BY <2>1, <2>2, <2>3 DEF Current, Closing, TypeOK
  <2>6. Cached'
    <3>1. ASSUME NEW d \in Ids, d # c, d # g PROVE cache'[d] \in {Absent, rows'[d]}
      BY <2>1, <3>1, AloneBehind DEF Behind, Closing, TypeOK
    <3>2. ASSUME NEW d \in Ids, d = c \/ d = g PROVE Behind(w, d)'
      BY <2>3, <3>2 DEF Behind, Closing, TypeOK
    <3> QED
      BY <3>1, <3>2 DEF Cached
  <2> QED
    BY <2>1, <2>3, <2>4, <2>5, <2>6, AloneStep DEF Ordered, TypeOK
<1>10. ASSUME NEW w \in Workers, EvictGuest(w) PROVE Ordered'
  <2> DEFINE c == request[w].cart
             g == request[w].guest
  <2>1. /\ step[w] = "evict" /\ c \in Ids /\ g \in Ids /\ UNCHANGED <<rows, made, origin>>
        /\ cache' = [cache EXCEPT ![g] = Absent]
        /\ step' = [step EXCEPT ![w] = "store"]
        /\ UNCHANGED <<request, copy, guest, known, found>>
    BY <1>10, SoughtCart DEF EvictGuest, Goto, InHand, history, tables
  <2>2. Keyed'
    BY <2>1 DEF Ordered, Keyed, Distinct
  <2>3. Current(w)'
    BY <2>1 DEF Ordered, Current, Closing, TypeOK
  <2>4. Cached'
    <3>1. ASSUME NEW d \in Ids, d # c PROVE cache'[d] \in {Absent, rows'[d]}
      BY <2>1, <3>1, AloneBehind DEF Behind, Closing, TypeOK
    <3>2. ASSUME NEW d \in Ids, d = c PROVE Behind(w, d)'
      BY <2>1, <3>2 DEF Behind, Closing, TypeOK
    <3> QED
      BY <3>1, <3>2 DEF Cached
  <2> QED
    BY <2>1, <2>2, <2>3, <2>4, AloneStep DEF Ordered, TypeOK
<1>11. ASSUME NEW w \in Workers, Store(w) PROVE Ordered'
  <2> DEFINE c == request[w].cart
  <2>1. /\ step[w] = "store" /\ c \in Ids /\ Leave(w) /\ UNCHANGED <<rows, made, origin>>
        /\ cache' = [cache EXCEPT ![c] = copy[w]]
    BY <1>11, SoughtCart DEF Store, CachedAnew, history, tables
  <2>2. copy[w] = rows[c]
    BY <2>1 DEF Ordered, Current, Closing
  <2>3. Keyed'
    BY <2>1 DEF Ordered, Keyed, Distinct
  <2>4. Cached'
    BY <2>1, <2>2, AloneBehind DEF Cached, Behind, Closing, TypeOK
  <2> QED
    BY <2>1, <2>3, <2>4, Left DEF Ordered
<1>12. ASSUME NEW w \in Workers, Interrupted(w) PROVE Ordered'
  BY <1>12 DEF Interrupted
<1>13. CASE UNCHANGED vars
  <2>1. Solo' /\ Keyed' /\ Cached'
    BY <1>13 DEF vars, worker, history, tables, Ordered, Solo, Keyed, Distinct, Cached, Behind, Closing
  <2>2. ASSUME NEW w \in Workers PROVE Current(w)'
    <3>1. UNCHANGED <<rows, request, step, copy, guest, known, found, made>>
      BY <1>13 DEF vars, worker, history, tables
    <3>2. Ready(w)' = Ready(w)
      BY <3>1 DEF Ready, Distinct, Untouched, About, IdsOf
    <3>3. Sought(w)' = Sought(w)
      BY <3>1 DEF Sought, OfGuest
    <3>4. IdsOf(copy[w])' = IdsOf(copy[w])
      BY <3>1 DEF IdsOf
    <3>5. Current(w)
      BY DEF Ordered
    <3> QED
      BY <3>1, <3>2, <3>3, <3>4, <3>5 DEF Current, Closing
  <2> QED
    BY <2>1, <2>2 DEF Ordered
<1> QED
  BY NextIsStep, <1>1, <1>2, <1>3, <1>4, <1>5, <1>6, <1>7, <1>8, <1>9,
     <1>10, <1>11, <1>12, <1>13
  DEF Step

LEMMA InitCalm == Init => Calm
  BY CartsAssumption
  DEF Init, Calm, Ordered, Solo, Keyed, Current, Closing, Cached

(* What has happened has happened.                                         *)
LEMMA DisturbedStays == TypeOK /\ [Next]_vars /\ disturbed => disturbed'
<1> SUFFICES ASSUME TypeOK, [Next]_vars, disturbed PROVE disturbed'
  OBVIOUS
<1>1. ASSUME NEW w \in Workers, NEW r \in Requests, NEW s, Starts(w, r, s)
      PROVE  disturbed'
  BY <1>1 DEF Starts, Begin
<1>2. ASSUME NEW w \in Workers,
             \/ Lookup(w) \/ ReadRow(w) \/ Fill(w) \/ Change(w) \/ Refuse(w)
             \/ Load(w) \/ Commit(w) \/ DeleteGuest(w) \/ EvictGuest(w) \/ Store(w)
      PROVE  disturbed'
  BY <1>2 DEF Lookup, ReadRow, Fill, Change, Refuse, Load, Commit, DeleteGuest,
              EvictGuest, Store, history
<1>3. ASSUME NEW w \in Workers, Interrupted(w) PROVE disturbed'
  BY <1>3 DEF Interrupted
<1>4. CASE UNCHANGED vars
  BY <1>4 DEF vars, worker, history, tables
<1> QED
  BY NextIsStep, <1>1, <1>2, <1>3, <1>4 DEF Step

LEMMA CalmAlways == Spec => [](IInv /\ Calm)
<1>1. IInv /\ [Next]_vars => IInv'
  BY TypeStep, InHandStep, OwnerStep DEF IInv
<1>2. IInv /\ Calm /\ [Next]_vars => (IInv /\ Calm)'
  BY <1>1, OrderedStep, DisturbedStays DEF Calm, IInv
<1> QED
  BY InitInv, InitCalm, <1>2, PTL DEF Spec

(* Where no requests overlapped and none was interrupted, a cart at rest   *)
(* is cached as it is in its row.                                          *)
THEOREM CacheAlwaysAgrees == Spec => []CacheAgrees
<1>1. ASSUME IInv, Calm, ~disturbed, \A w \in Workers : request[w] = Absent,
             NEW c \in Ids
      PROVE  cache[c] \in {Absent, rows[c]}
  <2>1. \A w \in Workers : step[w] = "idle"
    BY <1>1, CartsAssumption DEF IInv, InHand
  <2> QED
    BY <1>1, <2>1 DEF Calm, Ordered, Cached, Behind, Closing
<1>2. IInv /\ Calm => CacheAgrees
  BY <1>1 DEF CacheAgrees
<1> QED
  BY CalmAlways, <1>2, PTL

(* Under the same condition a request about one product, or one item,      *)
(* leaves the other products as they are in the row.                       *)
THEOREM UntouchedAlwaysStay == Spec => UntouchedStay
<1> DEFINE Stays(w) ==
      ~disturbed /\ step[w] = "commit" /\ step'[w] = "store" =>
        \A c \in Ids : rows[c] # Absent /\ c = request[w].cart =>
          {i \in rows[c] : i.product \notin About(request[w])} \subseteq rows'[c]
<1>1. ASSUME IInv, Calm, [Next]_vars, NEW w \in Workers PROVE Stays(w)
  <2> SUFFICES ASSUME ~disturbed, step[w] = "commit", step'[w] = "store",
                      NEW c \in Ids, rows[c] # Absent, c = request[w].cart,
                      NEW i \in rows[c], i.product \notin About(request[w])
               PROVE  i \in rows'[c]
    OBVIOUS
  <2> USE CartsAssumption DEF IInv
  <2>1. Ordered /\ request[w] # Absent
    BY <1>1 DEF Calm, InHand
  <2>2. Commit(w)
    <3>1. \A v \in Workers : v # w => step[v] = "idle" /\ request[v] = Absent
      BY <1>1, <2>1, Alone
    <3>2. ASSUME NEW v \in Workers, NEW r \in Requests, NEW s, Starts(v, r, s)
          PROVE  FALSE
      <4>1. request[v] = Absent /\ step' = [step EXCEPT ![v] = s]
        BY <3>2 DEF Starts, Begin
      <4> QED
        BY <1>1, <2>1, <4>1 DEF TypeOK
    <3>3. ASSUME NEW v \in Workers,
                 \/ Lookup(v) \/ ReadRow(v) \/ Fill(v) \/ Change(v) \/ Refuse(v)
                 \/ Load(v) \/ DeleteGuest(v) \/ EvictGuest(v) \/ Store(v)
          PROVE  FALSE
      <4>1. step[v] # "idle" /\ step[v] # "commit"
        BY <3>3 DEF Lookup, ReadRow, Fill, Change, Refuse, Load, DeleteGuest,
                    EvictGuest, Store
      <4> QED
        BY <3>1, <4>1
    <3>4. ASSUME NEW v \in Workers, Interrupted(v) PROVE FALSE
      <4>1. v = w /\ step'[w] = "idle"
        BY <1>1, <3>1, <3>4 DEF Interrupted, Leave, TypeOK
      <4> QED
        BY <4>1
    <3>5. ~UNCHANGED vars
      BY DEF vars, worker, history, tables
    <3>6. Step
      BY <1>1, <3>5, NextIsStep
    <3>7. ASSUME NEW v \in Workers, Commit(v) PROVE Commit(w)
      BY <3>1, <3>7 DEF Commit
    <3> QED
      BY <3>2, <3>3, <3>4, <3>6, <3>7 DEF Step
  <2> QED
    BY <1>1, <2>1, <2>2, CommitAlone DEF TypeOK
<1>2. IInv /\ Calm /\ [Next]_vars => \A w \in Workers : Stays(w)
  BY <1>1
<1> QED
  BY CalmAlways, <1>2, PTL DEF Spec, UntouchedStay
=============================================================================
