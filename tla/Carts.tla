-------------------------------- MODULE Carts --------------------------------
(***************************************************************************)
(* The cart rows, their cache entries and the requests of the cart's API.  *)
(* Every use case takes a copy of a cart, through the cache or from the    *)
(* row, changes the copy and has it saved whole; a merge takes the copies  *)
(* of two carts.  Each call is an await.                                   *)
(***************************************************************************)
EXTENDS Integers, FiniteSets, FiniteSetsExt, Functions

CONSTANTS Ids,        \* carts
          Products,
          ItemIds,    \* the ids the table of items may give out
          Workers,    \* requests that may overlap
          MaxQty,     \* bound: no larger quantity is asked for or saved
          MaxTroubles,  \* bound: interrupted requests, and requests started
                        \* in a behaviour that is no longer calm
          New,        \* the id of an item that has no row yet
          Absent      \* no row, no cache entry, no copy, no request

Item == [id : ItemIds, product : Products, qty : 1..MaxQty]
NewItem == [id : {New}, product : Products, qty : 1..MaxQty]
Cart == SUBSET Item

Requests ==
  [op : {"Create", "Get", "Clear"}, cart : Ids]
  \cup [op : {"Add"}, cart : Ids, product : Products]
  \cup [op : {"Update"}, cart : Ids, item : ItemIds, qty : 1..MaxQty]
  \cup [op : {"Remove"}, cart : Ids, item : ItemIds]
  \cup [op : {"Merge"}, cart : Ids, guest : Ids]
Steps == {"idle", "lookup", "read", "fill", "check", "load", "commit",
          "delete", "evict", "store"}

ASSUME CartsAssumption == /\ MaxQty \in Nat \ {0}
                          /\ MaxTroubles \in Nat
                          /\ New \notin ItemIds
                          /\ Absent \notin Requests
                          /\ \A items \in Cart : items # Absent

VARIABLES rows,       \* the items in each cart's row, if it has one
          loose,      \* the ids of item rows that belong to no cart
          cache,      \* the entry cart:<id>
          given,      \* item ids given out: a sequence never goes back
          made,       \* cart ids given out
          request,    \* what each worker is asked for
          step,       \* where it is
          copy,       \* the cart in its hands, with items that have no row yet
          guest,      \* of a merge: the copy of the guest cart
          known,      \* the items of the cart its transaction has loaded
          found,      \* the ids in its copy of which it has found a row
          origin,     \* history: the cart in whose place one was put back
          disturbed,  \* history: requests overlapped, one was interrupted,
                      \* or a cart was merged into itself
          troubles    \* see MaxTroubles

tables == <<rows, loose>>
worker == <<request, step, copy, guest, known, found>>
history == <<made, origin, disturbed, troubles>>
vars == <<tables, cache, given, worker, history>>

TypeOK == /\ rows \in [Ids -> {Absent} \cup Cart]
          /\ loose \in SUBSET ItemIds
          /\ cache \in [Ids -> {Absent} \cup Cart]
          /\ given \in SUBSET ItemIds
          /\ made \in SUBSET Ids
          /\ request \in [Workers -> {Absent} \cup Requests]
          /\ step \in [Workers -> Steps]
          /\ copy \in [Workers -> {Absent} \cup SUBSET (Item \cup NewItem)]
          /\ guest \in [Workers -> {Absent} \cup Cart]
          /\ known \in [Workers -> {Absent} \cup Cart]
          /\ found \in [Workers -> SUBSET ItemIds]
          /\ origin \in [Ids -> Ids]
          /\ disturbed \in BOOLEAN
          /\ troubles \in Nat

Init == /\ rows = [c \in Ids |-> Absent]
        /\ loose = {}
        /\ cache = [c \in Ids |-> Absent]
        /\ given = {}
        /\ made = {}
        /\ request = [w \in Workers |-> Absent]
        /\ step = [w \in Workers |-> "idle"]
        /\ copy = [w \in Workers |-> Absent]
        /\ guest = [w \in Workers |-> Absent]
        /\ known = [w \in Workers |-> Absent]
        /\ found = [w \in Workers |-> {}]
        /\ origin = [c \in Ids |-> c]
        /\ disturbed = FALSE
        /\ troubles = 0

IdsOf(items) == {i.id : i \in items}
ProductsOf(items) == {i.product : i \in items}

-----------------------------------------------------------------------------
(* The entity.  A product that is there is found and its quantity grows,   *)
(* another becomes an item that has no row yet.                            *)
FirstOf(items, p) == CHOOSE i \in items : i.product = p
Units(items, p) == MapThenSumSet(LAMBDA i : i.qty, {i \in items : i.product = p})

MergedWithIds(mine, theirs) == mine \cup theirs    \* mutant: items keep their ids
Merged(mine, theirs) ==
  {IF i.product \in ProductsOf(theirs) /\ i = FirstOf(mine, i.product)
     THEN [i EXCEPT !.qty = @ + Units(theirs, i.product)] ELSE i : i \in mine}
  \cup {[id |-> New, product |-> p, qty |-> Units(theirs, p)] :
          p \in ProductsOf(theirs) \ ProductsOf(mine)}

WithOneMore(items, p) == Merged(items, {[id |-> New, product |-> p, qty |-> 1]})

(* The request names an item, the entity changes the first item of its     *)
(* product.                                                                *)
WithQuantity(items, id, q) ==
  LET named == CHOOSE i \in items : i.id = id
  IN  {IF i = FirstOf(items, named.product) THEN [i EXCEPT !.qty = q] ELSE i :
         i \in items}

Without(items, id) == {i \in items : i.id # id}

-----------------------------------------------------------------------------
Goto(w, s) == /\ step' = [step EXCEPT ![w] = s]
              /\ UNCHANGED <<request, copy, guest, known, found>>

Leave(w) == /\ request' = [request EXCEPT ![w] = Absent]
            /\ step' = [step EXCEPT ![w] = "idle"]
            /\ copy' = [copy EXCEPT ![w] = Absent]
            /\ guest' = [guest EXCEPT ![w] = Absent]
            /\ known' = [known EXCEPT ![w] = Absent]
            /\ found' = [found EXCEPT ![w] = {}]

Begin(w, r, s) ==
  /\ request[w] = Absent
  /\ request' = [request EXCEPT ![w] = r]
  /\ step' = [step EXCEPT ![w] = s]
  /\ disturbed' = \/ disturbed
                  \/ \E v \in Workers : request[v] # Absent
                  \/ r.op = "Merge" /\ r.guest = r.cart
  /\ disturbed' => troubles < MaxTroubles
  /\ troubles' = IF disturbed' THEN troubles + 1 ELSE troubles
  /\ UNCHANGED <<tables, cache, given, copy, guest, known, found, origin>>

(* A customer's cart or, with a session id, a guest's: one new empty row.  *)
CreateCart(w) ==
  \E c \in Ids \ made : /\ made' = made \cup {c}
                        /\ Begin(w, [op |-> "Create", cart |-> c], "load")
GetCart(w, c) ==
  Begin(w, [op |-> "Get", cart |-> c], "lookup") /\ UNCHANGED made
AddItem(w, c) ==
  /\ \E p \in Products :
       Begin(w, [op |-> "Add", cart |-> c, product |-> p], "lookup")
  /\ UNCHANGED made
UpdateItem(w, c) ==
  /\ \E i \in given, q \in 1..MaxQty :
       Begin(w, [op |-> "Update", cart |-> c, item |-> i, qty |-> q], "lookup")
  /\ UNCHANGED made
RemoveItem(w, c) ==
  /\ \E i \in given :
       Begin(w, [op |-> "Remove", cart |-> c, item |-> i], "lookup")
  /\ UNCHANGED made
ClearCart(w, c) ==    \* by its owner, or by the checkout's clear-cart job
  Begin(w, [op |-> "Clear", cart |-> c], "lookup") /\ UNCHANGED made
MergeCarts(w, c) ==
  /\ \E g \in made : Begin(w, [op |-> "Merge", cart |-> c, guest |-> g], "lookup")
  /\ UNCHANGED made

-----------------------------------------------------------------------------
(* CachedCartRepository.findById.  A merge finds the guest cart first.     *)
OfGuest(w) == request[w].op = "Merge" /\ guest[w] = Absent
Sought(w) == IF OfGuest(w) THEN request[w].guest ELSE request[w].cart

Found(w, c) ==
  \/ /\ OfGuest(w)
     /\ guest' = [guest EXCEPT ![w] = c]
     /\ copy' = [copy EXCEPT ![w] = Absent]
     /\ step' = [step EXCEPT ![w] = "lookup"]
     /\ UNCHANGED <<request, known, found>>
  \/ /\ ~OfGuest(w)
     /\ copy' = [copy EXCEPT ![w] = c]
     /\ step' = [step EXCEPT ![w] = "check"]
     /\ UNCHANGED <<request, guest, known, found>>

(* An entry that expires is gone at the latest when it is looked for.      *)
Lookup(w) ==
  /\ step[w] = "lookup"
  /\ \/ /\ cache[Sought(w)] # Absent
        /\ Found(w, cache[Sought(w)])
        /\ UNCHANGED cache
     \/ /\ cache' = [cache EXCEPT ![Sought(w)] = Absent]
        /\ Goto(w, "read")
  /\ UNCHANGED <<tables, given, history>>

ReadRow(w) ==
  /\ step[w] = "read"
  /\ IF rows[Sought(w)] = Absent
       THEN Leave(w)
       ELSE /\ copy' = [copy EXCEPT ![w] = rows[Sought(w)]]
            /\ step' = [step EXCEPT ![w] = "fill"]
            /\ UNCHANGED <<request, guest, known, found>>
  /\ UNCHANGED <<tables, cache, given, history>>

Fill(w) ==
  /\ step[w] = "fill"
  /\ cache' = [cache EXCEPT ![Sought(w)] = copy[w]]
  /\ Found(w, copy[w])
  /\ UNCHANGED <<tables, given, history>>

(* The owner, the product and the stock are asked; any of them may refuse, *)
(* and a request for an item the copy does not have is refused.  A merge   *)
(* is done twice over: by the use case and again by the repository.  No    *)
(* quantity falls to zero; that none exceeds MaxQty is the model's bound.  *)
WithinBounds(items) == \A i \in items : i.qty \in 1..MaxQty

Changed(w) ==
  LET r == request[w]
  IN  CASE r.op = "Add" -> {WithOneMore(copy[w], r.product)}
        [] r.op = "Update" -> {WithQuantity(copy[w], i, r.qty) :
                                 i \in {r.item} \cap IdsOf(copy[w])}
        [] r.op = "Remove" -> {Without(copy[w], i) :
                                 i \in {r.item} \cap IdsOf(copy[w])}
        [] r.op = "Clear" -> {{}}
        [] r.op = "Merge" -> {Merged(Merged(copy[w], guest[w]), guest[w])}
        [] r.op = "Get" -> {}

Change(w) ==
  /\ step[w] = "check"
  /\ \E items \in Changed(w) :
       /\ WithinBounds(items)
       /\ copy' = [copy EXCEPT ![w] = items]
       /\ step' = [step EXCEPT ![w] = "load"]
       /\ UNCHANGED <<request, guest, known, found>>
  /\ UNCHANGED <<tables, cache, given, history>>

Refuse(w) ==    \* or, for a GET, answer
  /\ step[w] = "check"
  /\ Leave(w)
  /\ UNCHANGED <<tables, cache, given, history>>

-----------------------------------------------------------------------------
(* PostgresCartRepository.create and update: one transaction of the ORM.   *)
(* It loads the cart's row and those of the copy's items, wherever they    *)
(* are.  A cart that has no row is put back under a new id.                *)
ItemsOf(c) == IF rows[c] = Absent THEN {} ELSE rows[c]
Stored == loose \cup UNION {IdsOf(ItemsOf(c)) : c \in Ids}

Load(w) ==
  /\ step[w] = "load"
  /\ IF rows[request[w].cart] # Absent \/ request[w].op = "Create"
       THEN UNCHANGED <<request, made, origin>>
       ELSE \E c \in Ids \ made :
              /\ made' = made \cup {c}
              /\ origin' = [origin EXCEPT ![c] = origin[request[w].cart]]
              /\ request' = [request EXCEPT ![w].cart = c]
  /\ known' = [known EXCEPT ![w] = rows[request[w].cart]]
  /\ copy' = [copy EXCEPT ![w] = IF request[w].op = "Create" THEN {} ELSE @]
  /\ found' = [found EXCEPT ![w] = IdsOf(copy'[w]) \cap Stored]
  /\ step' = [step EXCEPT ![w] = "commit"]
  /\ UNCHANGED <<tables, cache, given, guest, disturbed, troubles>>

(* The items that have no row, or none any more, get unused ids.           *)
Namings(w) == Injection({i \in copy[w] : i.id \notin found[w]}, ItemIds \ given)
Named(w) ==
  LET fresh == CHOOSE f \in Namings(w) : TRUE
  IN  {IF i.id \in found[w] THEN i ELSE [i EXCEPT !.id = fresh[i]] : i \in copy[w]}

(* A loaded item that the copy lacks is cut off, one that it changed is    *)
(* updated, another is inserted for the cart or taken over by it.  To      *)
(* update or to cut off what is gone changes nothing; what others have put *)
(* into the cart since the load stays.                                     *)
Loaded(w) == IF known[w] = Absent THEN {} ELSE known[w]
CutOff(w, items) == IdsOf(Loaded(w)) \ IdsOf(items)
Updated(w, items) == {i \in items \ Loaded(w) : i.id \in IdsOf(Loaded(w))}
Attached(w, items) == {i \in items : /\ i.id \notin IdsOf(Loaded(w))
                                     /\ i.id \in found[w] => i.id \in Stored}

RowAfterSave(w, items, c) ==
  {i \in ItemsOf(c) : i.id \notin CutOff(w, items) \cup IdsOf(Updated(w, items))
                                                 \cup IdsOf(Attached(w, items))}
  \cup {i \in Updated(w, items) : i.id \in IdsOf(ItemsOf(c))}
  \cup (IF c = request[w].cart THEN Attached(w, items) ELSE {})

(* An item cannot be attached to a cart that is gone.                      *)
Refused(w, items) == /\ known[w] # Absent
                     /\ rows[request[w].cart] = Absent
                     /\ Attached(w, items) # {}
Inserted(w, c) == known[w] = Absent /\ c = request[w].cart

AfterCommit(w) == IF request[w].op = "Merge" THEN "delete" ELSE "store"

Commit(w) ==
  /\ step[w] = "commit"
  /\ Namings(w) # {}
  /\ LET items == Named(w)
     IN  IF Refused(w, items)
           THEN Leave(w) /\ UNCHANGED <<tables, given>>
           ELSE /\ rows' = [c \in Ids |-> IF rows[c] = Absent /\ ~Inserted(w, c)
                                          THEN Absent ELSE RowAfterSave(w, items, c)]
                /\ loose' = (loose \cup (CutOff(w, items) \cap Stored))
                              \ IdsOf(Attached(w, items))
                /\ given' = given \cup IdsOf(items)
                /\ copy' = [copy EXCEPT ![w] = items]
                /\ known' = [known EXCEPT ![w] = Absent]
                /\ found' = [found EXCEPT ![w] = {}]
                /\ step' = [step EXCEPT ![w] = AfterCommit(w)]
                /\ UNCHANGED <<request, guest>>
  /\ UNCHANGED <<cache, history>>

(* A merge deletes the guest cart, with the items it still has; to find    *)
(* none is an error, and what was saved stays.  Then its entry goes and    *)
(* the user's is set.                                                      *)
DeleteGuest(w) ==
  /\ step[w] = "delete"
  /\ rows' = [rows EXCEPT ![request[w].guest] = Absent]
  /\ IF rows[request[w].guest] = Absent THEN Leave(w) ELSE Goto(w, "evict")
  /\ UNCHANGED <<loose, cache, given, history>>

EvictGuest(w) ==
  /\ step[w] = "evict"
  /\ cache' = [cache EXCEPT ![request[w].guest] = Absent]
  /\ Goto(w, "store")
  /\ UNCHANGED <<tables, given, history>>

NotCached(w) == cache    \* mutant: update leaves the entry as it is
CachedAnew(w) == [cache EXCEPT ![request[w].cart] = copy[w]]

Store(w) ==
  /\ step[w] = "store"
  /\ cache' = CachedAnew(w)
  /\ Leave(w)
  /\ UNCHANGED <<tables, given, history>>

-----------------------------------------------------------------------------
(* A call fails, or the process dies: nothing done so far is undone.       *)
Interrupted(w) ==
  /\ step[w] # "idle"
  /\ troubles < MaxTroubles
  /\ troubles' = troubles + 1
  /\ disturbed' = TRUE
  /\ Leave(w)
  /\ UNCHANGED <<tables, cache, given, made, origin>>

Next ==
  \/ \E w \in Workers : CreateCart(w)
  \/ \E w \in Workers, c \in made :
       \/ GetCart(w, c) \/ AddItem(w, c) \/ UpdateItem(w, c)
       \/ RemoveItem(w, c) \/ ClearCart(w, c) \/ MergeCarts(w, c)
  \/ \E w \in Workers :
       \/ Lookup(w) \/ ReadRow(w) \/ Fill(w) \/ Change(w) \/ Refuse(w)
       \/ Load(w) \/ Commit(w) \/ DeleteGuest(w) \/ EvictGuest(w) \/ Store(w)
       \/ Interrupted(w)

Spec == Init /\ [][Next]_vars

-----------------------------------------------------------------------------
(* A save writes item rows by their ids, in whatever cart they are, and    *)
(* copies may be stale, of a cart that is gone, or of two carts.  Still    *)
(* the items of a cart change only when that cart is saved, or one that    *)
(* such a save has put back in its place, or when it is merged away.       *)
OthersUntouched ==
  [][\A c \in Ids : rows'[c] # rows[c] =>
       \E w \in Workers :
         \/ /\ step[w] = "commit" /\ step'[w] # "commit"
            /\ origin[request[w].cart] = origin[c]
         \/ /\ step[w] = "delete" /\ step'[w] # "delete"
            /\ request[w].guest = c]_vars

(* Where no requests overlapped and none was interrupted, a cart at rest   *)
(* is cached as it is in its row: nobody is shown, or sold, another cart.  *)
CacheAgrees ==
  ~disturbed /\ (\A w \in Workers : request[w] = Absent) =>
    \A c \in Ids : cache[c] \in {Absent, rows[c]}

(* Under the same condition a request about one product, or one item,      *)
(* leaves the other products of the cart as they are in the row, although  *)
(* it saves the whole cart.                                                *)
About(r) == CASE r.op = "Add" -> {r.product}
              [] r.op \in {"Update", "Remove"} ->
                   {i.product : i \in {j \in rows[r.cart] : j.id = r.item}}
              [] r.op = "Get" -> {}
              [] OTHER -> Products
UntouchedStay ==
  [][\A w \in Workers :
       ~disturbed /\ step[w] = "commit" /\ step'[w] = "store" =>
         \A c \in Ids : rows[c] # Absent /\ c = request[w].cart =>
           {i \in rows[c] : i.product \notin About(request[w])}
             \subseteq rows'[c]]_vars

(* A merge adds what the guest chose to what the user chose.               *)
MergeAddsOnce ==
  [][\A w \in Workers :
       ~disturbed /\ step[w] = "commit" /\ step'[w] = "delete" =>
         \A i \in guest[w] :
           i.product \notin ProductsOf(rows[request[w].cart]) =>
             \E j \in rows'[request[w].cart] : j.product = i.product /\ j.qty = i.qty]_vars

=============================================================================
