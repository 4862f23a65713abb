---------------------------- MODULE AccountsProofs ----------------------------
(***************************************************************************)
(* Theorems about Accounts and Roles, for any number of users, sessions,   *)
(* roles, permissions and overlapping requests, and any MaxTroubles.       *)
(***************************************************************************)
EXTENDS Accounts, TLAPS

Requests == RoleRequests \cup AccountRequests
Finders == {"View", "Edit", "Activate", "Deactivate", "Seed", "Login", "List", "Refresh"}
Founders == {"Register", "Seed"}
Founding == {"credential", "wanted", "assign", "withdraw"}
Holding == Founding \cup {"fill", "update", "save", "store", "password", "role", "session"}

(* What a worker at step s was asked for, and what user x it holds.        *)
Doing(s, op, x) ==
  /\ s \in {"byCode", "insert role"} => op \in {"CreateRole", "StartRoles"}
  /\ s = "byId" => op \in {"UpdateRole", "DeleteRole"}
  /\ s = "clear" => op \in {"UpdateRole", "StartRoles"}
  /\ s = "permit" => op \in {"CreateRole", "UpdateRole", "StartRoles"}
  /\ s = "remove role" => op = "DeleteRole"
  /\ s \in {"lookup", "read", "fill"} => op \in Finders
  /\ s = "save" => op \in {"Activate", "Deactivate"}
  /\ s = "store" => op \in Founders \cup {"Activate", "Deactivate"}
  /\ s \in {"exists", "insert"} \cup Founding => op \in Founders
  /\ s \in {"evict", "delete"} => op \in Founders \cup {"Delete"}
  /\ s = "password" => op = "Login"
  /\ s \in {"role", "session"} => op \in {"Login", "Refresh"}
  /\ s \in {"find", "revoke"} => op \in {"Refresh", "Logout"}
  /\ s = "revoke all" => op = "LogoutAll"
  /\ s \in Holding => x \in User
  /\ s \in {"evict", "delete"} /\ op # "Delete" => x \in User

InHand == \A w \in Workers :
  /\ step[w] = "idle" <=> request[w] = Absent
  /\ step[w] # "idle" => Doing(step[w], request[w].op, user[w])
  /\ step[w] # "idle" /\ request[w].op \in {"Refresh", "Logout", "LogoutAll"} =>
       sessions[request[w].session] # Absent

(* While nothing overlaps and nothing is cut off, one request runs at a    *)
(* time, every entry has its row, and a user who is not whole is being     *)
(* registered or taken back.                                               *)
Whole(u) == u \in credentials /\ assigned[u] # Absent
Registering(w, u) ==
  /\ step[w] \in Founding \cup {"store", "evict", "delete"}
  /\ request[w].op \in Founders /\ user[w].id = u
Handles(w) ==
  /\ step[w] \in {"fill", "save", "store"} => rows[user[w].id] # Absent
  /\ step[w] = "delete" => cache[Deleted(w)] = Absent
  /\ step[w] \in {"wanted", "assign"} => user[w].id \in credentials

Alone == \A v, w \in Workers : step[v] # "idle" /\ step[w] # "idle" => v = w
Entries == \A u \in Users : cache[u] # Absent => rows[u] # Absent

Calm == ~disturbed =>
  /\ Alone /\ Entries
  /\ \A w \in Workers : Handles(w)
  /\ \A u \in Users : rows[u] # Absent =>
       Whole(u) \/ \E w \in Workers : Registering(w, u)

(* While nothing fails either, the entries and the copies are as the rows  *)
(* say, and a role is as it was asked for, or is being given its           *)
(* permissions.                                                            *)
Untroubled == troubles = 0 => ~disturbed

Copies(w) ==
  /\ step[w] \in {"fill", "store", "password", "role", "session"} =>
       user[w].status = rows[user[w].id]
  /\ step[w] \in {"password", "role", "session"} /\ request[w].op = "Login" =>
       user[w].status = "active"
Fresh == troubles = 0 =>
  /\ \A u \in Users : \/ cache[u] \in {Absent, rows[u]}
                      \/ \E w \in Workers : step[w] = "store" /\ user[w].id = u
  /\ \A w \in Workers : Copies(w)

Granting(w) ==
  step[w] = "permit" => /\ roles[Code(w)] = {}
                        /\ asked[Code(w)] = request[w].permissions \cap known
Granted == troubles = 0 =>
  /\ \A c \in Codes : roles[c] # Absent =>
       roles[c] = asked[c] \/ \E w \in Workers : step[w] = "permit" /\ Code(w) = c
  /\ \A w \in Workers : Granting(w)

IInv == TypeOK /\ InHand /\ Calm /\ Untroubled /\ Fresh /\ Granted

-----------------------------------------------------------------------------
(* What each request carries.                                              *)
LEMMA RequestShape ==
  ASSUME NEW r \in Requests
  PROVE  /\ r # Absent
         /\ r.op \in {"CreateRole", "UpdateRole", "StartRoles"} =>
              r.code \in Codes /\ r.permissions \in SUBSET Permissions
         /\ r.op \in {"DeleteRole", "Seed"} => r.code \in Codes
         /\ r.op \in {"View", "Edit", "Activate", "Deactivate", "Delete"} => r.id \in Users
         /\ r.op \in {"Refresh", "Logout", "LogoutAll"} => r.session \in Sessions
<1>1. r # Absent
  BY AccountsAssumption DEF Requests
<1>2. \/ r \in [op : {"CreateRole", "UpdateRole", "StartRoles"}, code : Codes,
                permissions : SUBSET Permissions]
      \/ r \in [op : {"DeleteRole"}, code : Codes] \cup [op : {"StartPermissions"}]
      \/ r \in [op : {"Register", "Login", "List"}] \cup [op : {"Seed"}, code : Codes]
      \/ r \in [op : {"View", "Edit", "Activate", "Deactivate", "Delete"}, id : Users]
      \/ r \in [op : {"Refresh", "Logout", "LogoutAll"}, session : Sessions]
  BY DEF Requests, RoleRequests, AccountRequests
<1> QED
  BY <1>1, <1>2

(* A request starts with nothing in its hands.                             *)
Asks(w, r, s) ==
  /\ Begin(w, r, s) /\ UNCHANGED <<accountVars, user>>
  /\ r \in Requests
  /\ \/ r.op \in {"CreateRole", "StartRoles"} /\ s = "byCode"
     \/ r.op \in {"UpdateRole", "DeleteRole"} /\ s = "byId"
     \/ r.op = "StartPermissions" /\ s = "list"
     \/ r.op = "Register" /\ s = "exists"
     \/ r.op \in Finders \ {"Refresh"} /\ s = "lookup"
     \/ r.op = "Delete" /\ s = "evict"
     \/ /\ r.op \in {"Refresh", "Logout"} /\ s = "find"
        /\ sessions[r.session] # Absent
     \/ r.op = "LogoutAll" /\ s = "revoke all" /\ sessions[r.session] # Absent

RoleStep(w) ==
  \/ FindByCode(w) \/ FindById(w) \/ InsertRole(w) \/ ClearPermissions(w)
  \/ InsertPermissions(w) \/ RemoveRole(w) \/ ListPermissions(w) \/ SavePermissions(w)
AccountStep(w) ==
  \/ Lookup(w) \/ ReadRow(w) \/ Fill(w) \/ UpdateRow(w)
  \/ ExistsByEmail(w) \/ InsertUser(w) \/ SaveUser(w) \/ StoreUser(w)
  \/ SaveCredential(w) \/ FindWanted(w) \/ Assign(w) \/ WithdrawCredential(w)
  \/ EvictUser(w) \/ DeleteRow(w) \/ CheckPassword(w) \/ FindRoleOfUser(w)
  \/ SaveSession(w) \/ FindSession(w) \/ SaveRevoked(w) \/ RevokeAllForUser(w)
  \/ CacheFails(w) \/ CallFails(w) \/ Interrupted(w)

Step == \E w \in Workers : \/ \E r, s : Asks(w, r, s)
                           \/ RoleStep(w) /\ UNCHANGED <<accountVars, user>>
                           \/ AccountStep(w)

LEMMA NextIsStep == TypeOK /\ Next => Step
<1> SUFFICES ASSUME TypeOK, Next PROVE Step
  OBVIOUS
<1> USE DEF Asks, Ask, Requests, RoleRequests, AccountRequests, Finders
<1>1. ASSUME RolesNext, UNCHANGED <<accountVars, user>> PROVE Step
  <2>1. ASSUME NEW w \in Workers, NEW c \in Codes, NEW granted \in SUBSET Permissions,
               NEW op \in {"CreateRole", "UpdateRole", "StartRoles"},
               Begin(w, Writes(op, c, granted),
                     IF op = "UpdateRole" THEN "byId" ELSE "byCode")
        PROVE  Step
    <3>1. Writes(op, c, granted) \in Requests /\ Writes(op, c, granted).op = op
      BY DEF Writes
    <3>2. Asks(w, Writes(op, c, granted), IF op = "UpdateRole" THEN "byId" ELSE "byCode")
      BY <1>1, <2>1, <3>1
    <3> QED
      BY <3>2 DEF Step
  <2>2. ASSUME NEW w \in Workers, NEW c \in Codes,
               \/ CreateRole(w, c) \/ UpdateRole(w, c) \/ StartRoles(w, c)
        PROVE  Step
    <3>1. Permissions \in SUBSET Permissions
      OBVIOUS
    <3> QED
      BY <2>1, <2>2, <3>1 DEF CreateRole, UpdateRole, StartRoles
  <2>3. ASSUME NEW w \in Workers, NEW c \in Codes, DeleteRole(w, c) PROVE Step
    <3>1. Asks(w, [op |-> "DeleteRole", code |-> c], "byId")
      BY <1>1, <2>3 DEF DeleteRole
    <3> QED
      BY <3>1 DEF Step
  <2>4. ASSUME NEW w \in Workers, StartPermissions(w) PROVE Step
    <3>1. Asks(w, [op |-> "StartPermissions"], "list")
      BY <1>1, <2>4 DEF StartPermissions
    <3> QED
      BY <3>1 DEF Step
  <2>5. ASSUME NEW w \in Workers, RoleStep(w) PROVE Step
    BY <1>1, <2>5 DEF Step
  <2> QED
    BY <1>1, <2>2, <2>3, <2>4, <2>5 DEF RolesNext, RoleStep
<1>2. ASSUME NEW w \in Workers, RegisterUser(w) \/ LoginUser(w) \/ ListUsers(w) PROVE Step
  <2>1. CASE RegisterUser(w)
    <3>1. Asks(w, [op |-> "Register"], "exists")
      BY <2>1 DEF RegisterUser
    <3> QED
      BY <3>1 DEF Step
  <2>2. CASE LoginUser(w)
    <3>1. Asks(w, [op |-> "Login"], "lookup")
      BY <2>2 DEF LoginUser
    <3> QED
      BY <3>1 DEF Step
  <2>3. CASE ListUsers(w)
    <3>1. Asks(w, [op |-> "List"], "lookup")
      BY <2>3 DEF ListUsers
    <3> QED
      BY <3>1 DEF Step
  <2> QED
    BY <1>2, <2>1, <2>2, <2>3
<1>3. ASSUME NEW w \in Workers, NEW c \in Codes, SeedUser(w, c) PROVE Step
  <2>1. Asks(w, [op |-> "Seed", code |-> c], "lookup")
    BY <1>3 DEF SeedUser
  <2> QED
    BY <2>1 DEF Step
<1>4. ASSUME NEW w \in Workers, NEW u \in Users,
             NEW op \in {"View", "Edit", "Activate", "Deactivate"},
             Ask(w, About(op, u), "lookup")
      PROVE  Step
  <2>1. Asks(w, About(op, u), "lookup")
    BY <1>4 DEF About
  <2> QED
    BY <2>1 DEF Step
<1>5. ASSUME NEW w \in Workers, NEW u \in Users, DeleteUser(w, u) PROVE Step
  <2>1. Asks(w, About("Delete", u), "evict")
    BY <1>5 DEF About, DeleteUser
  <2> QED
    BY <2>1 DEF Step
<1>6. ASSUME NEW w \in Workers, NEW u \in Users,
             \/ GetUser(w, u) \/ ActivateUser(w, u) \/ DeactivateUser(w, u)
             \/ DeleteUser(w, u) \/ UpdateUser(w, u) \/ AddAddress(w, u)
             \/ UpdateAddress(w, u) \/ DeleteAddress(w, u) \/ SetDefaultAddress(w, u)
      PROVE  Step
  <2> HIDE DEF Asks, Ask
  <2> QED
    BY <1>4, <1>5, <1>6 DEF GetUser, ActivateUser, DeactivateUser, UpdateUser, AddAddress,
                            UpdateAddress, DeleteAddress, SetDefaultAddress
<1>7. ASSUME NEW w \in Workers, NEW s \in Opened,
             RefreshToken(w, s) \/ Logout(w, s) \/ LogoutAll(w, s)
      PROVE  Step
  <2>1. s \in Sessions /\ sessions[s] # Absent
    BY DEF Opened
  <2>2. CASE RefreshToken(w, s)
    <3>1. Asks(w, With("Refresh", s), "find")
      BY <2>1, <2>2 DEF RefreshToken, With
    <3> QED
      BY <3>1 DEF Step
  <2>3. CASE Logout(w, s)
    <3>1. Asks(w, With("Logout", s), "find")
      BY <2>1, <2>3 DEF Logout, With
    <3> QED
      BY <3>1 DEF Step
  <2>4. CASE LogoutAll(w, s)
    <3>1. Asks(w, With("LogoutAll", s), "revoke all")
      BY <2>1, <2>4 DEF LogoutAll, With
    <3> QED
      BY <3>1 DEF Step
  <2> QED
    BY <1>7, <2>2, <2>3, <2>4
<1>8. ASSUME NEW w \in Workers, AccountStep(w) PROVE Step
  BY <1>8 DEF Step
<1> HIDE DEF Asks, Ask
<1> QED
  BY <1>1, <1>2, <1>3, <1>6, <1>7, <1>8 DEF Next, AccountStep, TypeOK

(* What a use case makes of the user it found.                             *)
FoundAs(w, st, n, s) ==
  \/ n = st /\ s = "update" /\ request[w].op = "Edit"
  \/ n = "active" /\ s = "save" /\ request[w].op = "Activate"
  \/ n = "inactive" /\ s = "save" /\ request[w].op = "Deactivate"
  \/ n = st /\ s = "password" /\ st # "inactive" /\ request[w].op = "Login"
  \/ n = st /\ s = "role" /\ request[w].op = "Refresh"

LEMMA FoundCases ==
  ASSUME NEW w, NEW u, NEW st, Found(w, u, st)
  PROVE  End(w) \/ \E n, s : Hold(w, u, n, s) /\ FoundAs(w, st, n, s)
<1> HIDE DEF End, Hold
<1>1. CASE request[w].op = "Edit" /\ Hold(w, u, st, "update")
  BY <1>1 DEF FoundAs
<1>2. CASE request[w].op = "Activate" /\ Hold(w, u, "active", "save")
  BY <1>2 DEF FoundAs
<1>3. CASE request[w].op = "Deactivate" /\ Hold(w, u, Deactivated, "save")
  BY <1>3 DEF FoundAs, Deactivated
<1>4. CASE request[w].op = "Login" /\ st # "inactive" /\ Hold(w, u, st, "password")
  BY <1>4 DEF FoundAs
<1>5. CASE request[w].op = "Refresh" /\ Hold(w, u, st, "role")
  BY <1>5 DEF FoundAs
<1> QED
  BY <1>1, <1>2, <1>3, <1>4, <1>5 DEF Found

LEMMA SoughtAreUsers ==
  ASSUME TypeOK, InHand, NEW w \in Workers, step[w] \in {"lookup", "read"}
  PROVE  Sought(w) \subseteq Users
<1>1. request[w] \in Requests /\ request[w].op \in Finders
  BY DEF TypeOK, InHand, Doing, Requests
<1>2. request[w].op = "Refresh" =>
        /\ request[w].session \in Sessions
        /\ sessions[request[w].session] # Absent
  BY <1>1, RequestShape DEF InHand, Doing
<1>3. request[w].op = "Refresh" => sessions[request[w].session].user \in Users
  BY <1>1, <1>2 DEF TypeOK, Session
<1> QED
  BY <1>1, <1>3, RequestShape DEF Sought, ByEmail, Finders

(* The steps that look for a user's entry, and that write it.              *)
LEMMA LookupCases ==
  ASSUME TypeOK, InHand, NEW w \in Workers, Lookup(w)
  PROVE  /\ step[w] = "lookup"
         /\ UNCHANGED <<roleVars, history, rows, given, credentials, sessions>>
         /\ \/ \E u \in Users, st \in Status :
                 Found(w, u, st) /\ cache[u] = st /\ UNCHANGED cache
            \/ /\ Move(w, "read")
               /\ cache' = [u \in Users |-> IF u \in Sought(w) THEN Absent ELSE cache[u]]
<1>1. step[w] = "lookup" /\ Sought(w) \subseteq Users
  BY SoughtAreUsers DEF Lookup
<1>2. ASSUME NEW u \in Sought(w), cache[u] # Absent
      PROVE  u \in Users /\ cache[u] \in Status
  BY <1>1, <1>2 DEF TypeOK
<1> QED
  BY <1>1, <1>2 DEF Lookup

LEMMA FillCases ==
  ASSUME TypeOK, InHand, NEW w \in Workers, Fill(w)
  PROVE  /\ UNCHANGED <<roleVars, history, rows, given, credentials, sessions>>
         /\ step[w] = "fill" /\ user[w] \in User
         /\ user[w].id \in Users /\ user[w].status \in Status
         /\ cache' = [cache EXCEPT ![user[w].id] = user[w].status]
         /\ Found(w, user[w].id, user[w].status)
BY DEF Fill, InHand, Doing, Holding, User

LEMMA ReadCases ==
  ASSUME TypeOK, InHand, NEW w \in Workers, ReadRow(w)
  PROVE  /\ step[w] = "read" /\ UNCHANGED <<roleVars, history, accountVars>>
         /\ \/ \E u \in Users : /\ rows[u] \in Status /\ Hold(w, u, rows[u], "fill")
            \/ request[w].op = "Seed" /\ Move(w, "insert")
            \/ End(w)
<1>1. step[w] = "read" /\ Sought(w) \subseteq Users
  BY SoughtAreUsers DEF ReadRow
<1>2. ASSUME NEW u \in Sought(w) \cap Known PROVE u \in Users /\ rows[u] \in Status
  BY <1>1, <1>2 DEF TypeOK, Known
<1> QED
  BY <1>1, <1>2 DEF ReadRow

LEMMA HistoryType ==
  TypeOK /\ [Next]_vars => disturbed' \in BOOLEAN /\ troubles' \in Nat
<1> SUFFICES ASSUME TypeOK, [Next]_vars PROVE disturbed' \in BOOLEAN /\ troubles' \in Nat
  OBVIOUS
<1>1. disturbed \in BOOLEAN /\ troubles \in Nat
  BY DEF TypeOK, RolesTypeOK
<1>2. ASSUME NEW w \in Workers, NEW r, NEW s, Asks(w, r, s)
      PROVE  disturbed' \in BOOLEAN /\ troubles' \in Nat
  <2>1. disturbed' \in BOOLEAN
    BY <1>1, <1>2 DEF Asks, Begin, AtRest
  <2>2. troubles' = troubles \/ troubles' = troubles + 1
    BY <1>2 DEF Asks, Begin
  <2> QED
    BY <1>1, <2>1, <2>2
<1>3. ASSUME UNCHANGED history PROVE disturbed' \in BOOLEAN /\ troubles' \in Nat
  BY <1>1, <1>3 DEF history
<1>4. ASSUME NEW w \in Workers, CacheFails(w) \/ CallFails(w) \/ Interrupted(w)
      PROVE  disturbed' \in BOOLEAN /\ troubles' \in Nat
  <2>1. troubles' = troubles + 1
    BY <1>4 DEF CacheFails, CallFails, Interrupted, Trouble
  <2>2. disturbed' \in BOOLEAN
    BY <1>1, <1>4 DEF CacheFails, CallFails, Interrupted
  <2> QED
    BY <1>1, <2>1, <2>2
<1>5. ASSUME NEW w \in Workers, RoleStep(w) PROVE UNCHANGED history
  BY <1>5 DEF RoleStep, FindByCode, FindById, InsertRole, ClearPermissions,
              InsertPermissions, RemoveRole, ListPermissions, SavePermissions, history
<1>6. ASSUME NEW w \in Workers, AccountStep(w),
             ~(CacheFails(w) \/ CallFails(w) \/ Interrupted(w))
      PROVE  UNCHANGED history
  BY <1>6 DEF AccountStep, Lookup, ReadRow, Fill, UpdateRow, ExistsByEmail, InsertUser,
              SaveUser, StoreUser, SaveCredential, FindWanted, Assign,
              WithdrawCredential, EvictUser, DeleteRow, CheckPassword, FindRoleOfUser,
              SaveSession, FindSession, SaveRevoked, RevokeAllForUser
<1>7. CASE UNCHANGED vars
  BY <1>3, <1>7 DEF vars
<1> QED
  BY NextIsStep, <1>2, <1>3, <1>4, <1>5, <1>6, <1>7 DEF Step

LEMMA FoundType ==
  ASSUME TypeOK, NEW w \in Workers, NEW u \in Users, NEW st \in Status, Found(w, u, st),
         UNCHANGED <<rows, given, credentials, sessions, roleVars>>,
         disturbed' \in BOOLEAN, troubles' \in Nat, cache' \in [Users -> {Absent} \cup Status]
  PROVE  TypeOK'
<1> USE DEF TypeOK, RolesTypeOK, Assignments, Credentials, roleVars
<1>1. CASE End(w)
  BY <1>1 DEF End, Leave, AccountSteps
<1>2. ASSUME NEW n, NEW s, Hold(w, u, n, s), FoundAs(w, st, n, s) PROVE TypeOK'
  BY <1>2 DEF FoundAs, Hold, Goto, AccountSteps, User, Status
<1> QED
  BY <1>1, <1>2, FoundCases

(* Types.                                                                  *)
LEMMA TypeStep ==
  TypeOK /\ InHand /\ [Next]_vars => TypeOK'
<1> SUFFICES ASSUME TypeOK, InHand, [Next]_vars PROVE TypeOK'
  OBVIOUS
<1>0. disturbed' \in BOOLEAN /\ troubles' \in Nat
  BY HistoryType
<1> USE <1>0 DEF TypeOK, RolesTypeOK, Assignments, Credentials, RoleSteps, AccountSteps,
     Requests
<1>1. ASSUME NEW w \in Workers, NEW r, NEW s, Asks(w, r, s) PROVE TypeOK'
  BY <1>1 DEF Asks, Begin, roleVars, accountVars
<1>2. ASSUME NEW w \in Workers, FindByCode(w), UNCHANGED <<accountVars, user>>
      PROVE  TypeOK'
  BY <1>2 DEF FindByCode, roleVars, history, Goto, Leave, accountVars
<1>3. ASSUME NEW w \in Workers, FindById(w), UNCHANGED <<accountVars, user>>
      PROVE  TypeOK'
  BY <1>3 DEF FindById, roleVars, history, Goto, Leave, accountVars, IsSystem
<1>4. ASSUME NEW w \in Workers, InsertRole(w), UNCHANGED <<accountVars, user>>
      PROVE  TypeOK'
  <2>1. /\ request[w] \in Requests /\ Code(w) \in Codes
        /\ request[w].permissions \in SUBSET Permissions
    BY <1>4, RequestShape DEF InsertRole, Code, InHand, Doing
  <2>2. /\ AsAsked(w) \in [Codes -> SUBSET Permissions]
        /\ [roles EXCEPT ![Code(w)] = {}] \in [Codes -> {Absent} \cup SUBSET Permissions]
    BY <2>1 DEF AsAsked
  <2> QED
    BY <1>4, <2>2 DEF InsertRole, Goto, Leave, accountVars
<1>5. ASSUME NEW w \in Workers, ClearPermissions(w), UNCHANGED <<accountVars, user>>
      PROVE  TypeOK'
  <2>1. /\ request[w] \in Requests /\ Code(w) \in Codes
        /\ request[w].permissions \in SUBSET Permissions
    BY <1>5, RequestShape DEF ClearPermissions, Code, InHand, Doing
  <2>2. /\ AsAsked(w) \in [Codes -> SUBSET Permissions]
        /\ [roles EXCEPT ![Code(w)] = {}] \in [Codes -> {Absent} \cup SUBSET Permissions]
    BY <2>1 DEF AsAsked
  <2> QED
    BY <1>5, <2>2 DEF ClearPermissions, Cleared, Goto, Leave, accountVars
<1>6. ASSUME NEW w \in Workers, InsertPermissions(w), UNCHANGED <<accountVars, user>>
      PROVE  TypeOK'
  <2>1. request[w] \in Requests /\ Code(w) \in Codes /\ request[w].permissions \in SUBSET Permissions
    BY <1>6, RequestShape DEF InsertPermissions, Code, InHand, Doing, Holding, Founders,
       Founding, Requests
  <2> QED
    BY <1>6, <2>1 DEF InsertPermissions, roleVars, history, Goto, Leave, accountVars, Code
<1>7. ASSUME NEW w \in Workers, RemoveRole(w), UNCHANGED <<accountVars, user>>
      PROVE  TypeOK'
  <2>1. Code(w) \in Codes
    BY <1>7, RequestShape DEF RemoveRole, Code, InHand, Doing, Holding, Founders,
       Founding, Requests
  <2> QED
    BY <1>7, <2>1 DEF RemoveRole, roleVars, history, Goto, Leave, accountVars, Code
<1>8. ASSUME NEW w \in Workers, ListPermissions(w), UNCHANGED <<accountVars, user>>
      PROVE  TypeOK'
  BY <1>8 DEF ListPermissions, roleVars, history, Goto, Leave, accountVars
<1>9. ASSUME NEW w \in Workers, SavePermissions(w), UNCHANGED <<accountVars, user>>
      PROVE  TypeOK'
  BY <1>9 DEF SavePermissions, roleVars, history, Goto, Leave, accountVars
<1>10. ASSUME NEW w \in Workers, Lookup(w) PROVE TypeOK'
  <2>1. /\ step[w] = "lookup"
        /\ UNCHANGED <<roleVars, history, rows, given, credentials, sessions>>
    BY <1>10, LookupCases
  <2>2. CASE Move(w, "read") /\ cache' = [u \in Users |-> IF u \in Sought(w) THEN Absent ELSE cache[u]]
    BY <2>1, <2>2 DEF Move, Goto, roleVars, history
  <2>3. ASSUME NEW u \in Users, NEW st \in Status, Found(w, u, st), UNCHANGED cache
        PROVE  TypeOK'
    BY <2>1, <2>3, FoundType
  <2> QED
    BY <1>10, LookupCases, <2>2, <2>3
<1>11. ASSUME NEW w \in Workers, ReadRow(w) PROVE TypeOK'
  <2>1. UNCHANGED <<roleVars, history, accountVars>>
    BY <1>11, ReadCases
  <2>2. ASSUME NEW u \in Users, rows[u] \in Status, Hold(w, u, rows[u], "fill") PROVE TypeOK'
    BY <2>1, <2>2 DEF Hold, Goto, roleVars, history, accountVars, User
  <2>3. CASE Move(w, "insert")
    BY <2>1, <2>3 DEF Move, Goto, roleVars, history, accountVars
  <2>4. CASE End(w)
    BY <2>1, <2>4 DEF End, Leave, roleVars, history, accountVars
  <2> QED
    BY <1>11, ReadCases, <2>2, <2>3, <2>4
<1>12. ASSUME NEW w \in Workers, Fill(w) PROVE TypeOK'
  <2>1. /\ UNCHANGED <<roleVars, history, rows, given, credentials, sessions>>
        /\ user[w].id \in Users /\ user[w].status \in Status
        /\ cache' = [cache EXCEPT ![user[w].id] = user[w].status]
        /\ Found(w, user[w].id, user[w].status)
    BY <1>12, FillCases
  <2>2. cache' \in [Users -> {Absent} \cup Status]
    BY <2>1
  <2> QED
    BY <2>1, <2>2, FoundType
<1>13. ASSUME NEW w \in Workers, UpdateRow(w) PROVE TypeOK'
  BY <1>13 DEF UpdateRow, roleVars, history, Goto, Leave, accountVars, Move, End
<1>14. ASSUME NEW w \in Workers, ExistsByEmail(w) PROVE TypeOK'
  BY <1>14 DEF ExistsByEmail, roleVars, history, Goto, Leave, accountVars, Move, End,
    Known
<1>a. ASSUME NEW w \in Workers, NEW st \in Status, InsertRow(w, st),
             UNCHANGED <<roleVars, history, cache, credentials, sessions>>
      PROVE  TypeOK'
  <2>1. CASE End(w) /\ UNCHANGED <<rows, given>>
    BY <1>a, <2>1 DEF End, Leave, roleVars
  <2>2. ASSUME NEW u \in Users, rows' = [rows EXCEPT ![u] = st],
               given' = given \cup {u}, Hold(w, u, st, "store")
        PROVE  TypeOK'
    <3>1. [id |-> u, status |-> st] \in User
      BY DEF User
    <3> QED
      BY <1>a, <2>2, <3>1 DEF Hold, Goto, roleVars
  <2> QED
    BY <1>a, <2>1, <2>2 DEF InsertRow
<1>15. ASSUME NEW w \in Workers, InsertUser(w) PROVE TypeOK'
  BY <1>15, <1>a DEF InsertUser, Status
<1>16. ASSUME NEW w \in Workers, SaveUser(w) PROVE TypeOK'
  <2>1. user[w] \in User /\ user[w].id \in Users /\ user[w].status \in Status
    BY <1>16 DEF SaveUser, User, InHand, Doing, Holding, Founders, Founding, Requests
  <2>2. CASE /\ rows' = [rows EXCEPT ![user[w].id] = user[w].status]
             /\ Move(w, "store") /\ UNCHANGED given
    BY <1>16, <2>1, <2>2 DEF SaveUser, Move, Goto, roleVars, history
  <2>3. CASE InsertRow(w, user[w].status)
    BY <1>16, <1>a, <2>1, <2>3 DEF SaveUser
  <2> QED
    BY <1>16, <2>2, <2>3 DEF SaveUser
<1>17. ASSUME NEW w \in Workers, StoreUser(w) PROVE TypeOK'
  <2>1. user[w] \in User /\ user[w].id \in Users /\ user[w].status \in Status
    BY <1>17 DEF StoreUser, User, InHand, Doing, Holding, Founders, Founding, Requests
  <2> QED
    BY <1>17, <2>1 DEF StoreUser, roleVars, history, Goto, Leave, accountVars, Move, End,
       Stored, AfterStore, HandleUserDeactivated
<1>18. ASSUME NEW w \in Workers, SaveCredential(w) PROVE TypeOK'
  <2>1. user[w] \in User /\ user[w].id \in Users /\ user[w].status \in Status
    BY <1>18 DEF SaveCredential, User, InHand, Doing, Holding, Founders, Founding,
         Requests
  <2> QED
    BY <1>18, <2>1 DEF SaveCredential, roleVars, history, Goto, Leave, accountVars, Move,
       End
<1>19. ASSUME NEW w \in Workers, FindWanted(w) PROVE TypeOK'
  BY <1>19 DEF FindWanted, roleVars, history, Goto, Leave, accountVars, Move, End
<1>20. ASSUME NEW w \in Workers, Assign(w) PROVE TypeOK'
  <2>1. user[w].id \in Users /\ Wanted(w) \in Codes
    BY <1>20, RequestShape, AccountsAssumption DEF Assign, Wanted, Code, User, InHand,
       Doing, Holding, Founders, Founding, Requests
  <2> QED
    BY <1>20, <2>1 DEF Assign, roleVars, history, Goto, Leave, accountVars, Move, End,
       RoleGiven
<1>21. ASSUME NEW w \in Workers, WithdrawCredential(w) PROVE TypeOK'
  <2>1. user[w] \in User /\ user[w].id \in Users /\ user[w].status \in Status
    BY <1>21 DEF WithdrawCredential, User, InHand, Doing, Holding, Founders, Founding,
       Requests
  <2> QED
    BY <1>21, <2>1 DEF WithdrawCredential, roleVars, history, Goto, Leave, accountVars,
       Move, End
<1>22. ASSUME NEW w \in Workers, EvictUser(w) PROVE TypeOK'
  <2>1. Deleted(w) \in Users
    BY <1>22, RequestShape DEF EvictUser, Deleted, User, InHand, Doing, Holding, Founders,
       Founding, Requests
  <2> QED
    BY <1>22, <2>1 DEF EvictUser, roleVars, history, Goto, Leave, accountVars, Move, End
<1>23. ASSUME NEW w \in Workers, DeleteRow(w) PROVE TypeOK'
  <2>1. Deleted(w) \in Users
    BY <1>23, RequestShape DEF DeleteRow, Deleted, User, InHand, Doing, Holding, Founders,
       Founding, Requests
  <2> QED
    BY <1>23, <2>1 DEF DeleteRow, roleVars, history, Goto, Leave, accountVars, Move, End
<1>24. ASSUME NEW w \in Workers, CheckPassword(w) PROVE TypeOK'
  BY <1>24 DEF CheckPassword, roleVars, history, Goto, Leave, accountVars, Move, End
<1>25. ASSUME NEW w \in Workers, FindRoleOfUser(w) PROVE TypeOK'
  BY <1>25 DEF FindRoleOfUser, roleVars, history, Goto, Leave, accountVars, Move, End
<1>26. ASSUME NEW w \in Workers, SaveSession(w) PROVE TypeOK'
  <2>1. user[w].id \in Users
    BY <1>26 DEF SaveSession, User, InHand, Doing, Holding
  <2>2. PICK s \in Sessions :
          sessions' = [sessions EXCEPT ![s] = [user |-> user[w].id, revoked |-> FALSE]]
    BY <1>26 DEF SaveSession, Opened
  <2>3. sessions' \in [Sessions -> {Absent} \cup Session]
    BY <2>1, <2>2 DEF Session
  <2> QED
    BY <1>26, <2>3 DEF SaveSession, End, Leave, roleVars
<1>27. ASSUME NEW w \in Workers, FindSession(w) PROVE TypeOK'
  BY <1>27 DEF FindSession, roleVars, history, Goto, Leave, accountVars, Move, End
<1>28. ASSUME NEW w \in Workers, SaveRevoked(w) PROVE TypeOK'
  <2>1. /\ request[w].session \in Sessions
        /\ sessions[request[w].session] \in Session
    BY <1>28, RequestShape DEF SaveRevoked, InHand, Doing, Holding, Founders, Founding,
       Requests
  <2> QED
    BY <1>28, <2>1 DEF SaveRevoked, roleVars, history, Goto, Leave, accountVars, Move,
       End, AfterRevoke, Revoked, Session
<1>29. ASSUME NEW w \in Workers, RevokeAllForUser(w) PROVE TypeOK'
  <2>1. \A s \in Opened : [sessions[s] EXCEPT !.revoked = TRUE] \in Session
    BY DEF Opened, Session
  <2>2. sessions' = [s \in Sessions |->
                       IF s \in Opened
                            /\ sessions[s].user = sessions[request[w].session].user
                         THEN [sessions[s] EXCEPT !.revoked = TRUE] ELSE sessions[s]]
    BY <1>29 DEF RevokeAllForUser
  <2>3. sessions' \in [Sessions -> {Absent} \cup Session]
    BY <2>1, <2>2
  <2> QED
    BY <1>29, <2>3 DEF RevokeAllForUser, End, Leave, roleVars
<1>30. ASSUME NEW w \in Workers, CacheFails(w) PROVE TypeOK'
  <2>1. /\ UNCHANGED <<roleVars, rows, cache, given, credentials>>
    BY <1>30 DEF CacheFails
  <2>2. CASE (Move(w, "read") \/ Move(w, "delete")) /\ UNCHANGED sessions
    BY <2>1, <2>2 DEF Move, Goto, roleVars
  <2>3. CASE step[w] = "fill" /\ Found(w, user[w].id, user[w].status) /\ UNCHANGED sessions
    <3>1. user[w].id \in Users /\ user[w].status \in Status
      BY <2>3 DEF InHand, Doing, Holding, User
    <3> QED
      BY <2>1, <2>3, <3>1, FoundType
  <2>4. CASE AfterStore(w)
    BY <2>1, <2>4 DEF AfterStore, HandleUserDeactivated, Move, End, Goto, Leave, roleVars
  <2> QED
    BY <1>30, <2>2, <2>3, <2>4 DEF CacheFails
<1>31. ASSUME NEW w \in Workers, CallFails(w) PROVE TypeOK'
  BY <1>31 DEF CallFails, roleVars, history, Goto, Leave, accountVars, Move, End,
    AfterFailure
<1>32. ASSUME NEW w \in Workers, Interrupted(w) PROVE TypeOK'
  BY <1>32 DEF Interrupted, roleVars, history, Goto, Leave, accountVars, Move, End
<1>33. CASE UNCHANGED vars
  BY <1>33 DEF vars, roleVars, accountVars, history
<1> QED
  BY NextIsStep, <1>1, <1>2, <1>3, <1>4, <1>5, <1>6, <1>7, <1>8, <1>9, <1>10, <1>11,
     <1>12, <1>13, <1>14, <1>15, <1>16, <1>17, <1>18, <1>19, <1>20, <1>21, <1>22,
     <1>23, <1>24, <1>25, <1>26, <1>27, <1>28, <1>29, <1>30, <1>31, <1>32, <1>33 DEF
     Step, AccountStep, RoleStep

(* A request that ends, and one that goes on to step s with user x.        *)
Lasting == \A s \in Sessions : sessions[s] # Absent => sessions'[s] # Absent
Goes(w, s, x) ==
  /\ step[w] # "idle" /\ s # "idle" /\ step' = [step EXCEPT ![w] = s]
  /\ UNCHANGED request /\ user' = [user EXCEPT ![w] = x]

LEMMA Ended ==
  ASSUME TypeOK, InHand, NEW w \in Workers, Leave(w),
         \A v \in Workers : v # w => user'[v] = user[v], Lasting
  PROVE  InHand'
<1>1. ASSUME NEW v \in Workers, step'[v] # "idle"
      PROVE  v # w /\ step'[v] = step[v] /\ request'[v] = request[v] /\ user'[v] = user[v]
  BY <1>1 DEF Leave, TypeOK
<1>2. ASSUME NEW v \in Workers, step[v] # "idle", request[v].op \in {"Refresh", "Logout", "LogoutAll"}
      PROVE  sessions'[request[v].session] # Absent
  <2>1. request[v] \in Requests
    BY <1>2 DEF TypeOK, InHand, Requests
  <2> QED
    BY <1>2, <2>1, RequestShape DEF InHand, Lasting
<1>3. \A v \in Workers : step'[v] = "idle" <=> request'[v] = Absent
  BY DEF Leave, TypeOK, InHand
<1> QED
  BY <1>1, <1>2, <1>3 DEF InHand

LEMMA Gone ==
  ASSUME TypeOK, InHand, NEW w \in Workers, NEW s, NEW x, Goes(w, s, x), Lasting,
         Doing(s, request[w].op, x)
  PROVE  InHand'
<1>1. /\ step'[w] = s /\ user'[w] = x /\ UNCHANGED request
      /\ \A v \in Workers : v # w => step'[v] = step[v] /\ user'[v] = user[v]
  BY DEF Goes, TypeOK
<1>2. ASSUME NEW v \in Workers, step[v] # "idle", request[v].op \in {"Refresh", "Logout", "LogoutAll"}
      PROVE  sessions'[request[v].session] # Absent
  <2>1. request[v] \in Requests
    BY <1>2 DEF TypeOK, InHand, Requests
  <2> QED
    BY <1>2, <2>1, RequestShape DEF InHand, Lasting
<1>3. \A v \in Workers : step'[v] = "idle" <=> request'[v] = Absent
  BY <1>1 DEF Goes, InHand
<1>4. ASSUME NEW v \in Workers, step'[v] # "idle"
      PROVE  /\ step[v] # "idle"
             /\ Doing(step'[v], request'[v].op, user'[v])
  BY <1>1, <1>4 DEF InHand, Goes
<1> QED
  BY <1>1, <1>2, <1>3, <1>4 DEF InHand

LEMMA Continued ==
  ASSUME TypeOK, InHand, NEW w \in Workers, NEW s, s # "idle", step[w] # "idle"
  PROVE  /\ Goto(w, s) /\ UNCHANGED user => Goes(w, s, user[w])
         /\ Move(w, s) => Goes(w, s, user[w])
         /\ \A u, st : Hold(w, u, st, s) => Goes(w, s, [id |-> u, status |-> st])
  BY DEF Goes, Goto, Move, Hold, TypeOK

(* What is in a worker's hands.                                            *)
LEMMA InHandStep ==
  TypeOK /\ InHand /\ [Next]_vars => InHand'
<1> SUFFICES ASSUME TypeOK, InHand, [Next]_vars PROVE InHand'
  OBVIOUS
<1>a. ASSUME NEW w \in Workers, End(w) \/ (Leave(w) /\ UNCHANGED user), Lasting
      PROVE  InHand'
  BY <1>a, Ended DEF End, TypeOK
<1>b. ASSUME NEW w \in Workers, NEW s, Move(w, s) \/ (Goto(w, s) /\ UNCHANGED user),
             step[w] # "idle", s # "idle", Lasting, Doing(s, request[w].op, user[w])
      PROVE  InHand'
  BY <1>b, Gone, Continued
<1>c. ASSUME NEW w \in Workers, NEW s, NEW u, NEW st, Hold(w, u, st, s),
             step[w] # "idle", s # "idle", Lasting,
             Doing(s, request[w].op, [id |-> u, status |-> st])
      PROVE  InHand'
  BY <1>c, Gone, Continued
<1>d. ASSUME NEW w \in Workers, NEW u \in Users, NEW st \in Status, Found(w, u, st),
             step[w] # "idle", UNCHANGED sessions
      PROVE  InHand'
  <2>1. Lasting
    BY <1>d DEF Lasting
  <2>2. ASSUME NEW n, NEW s, Hold(w, u, n, s), FoundAs(w, st, n, s) PROVE InHand'
    <3>1. [id |-> u, status |-> n] \in User
      BY <2>2 DEF FoundAs, User, Status
    <3>2. s # "idle" /\ Doing(s, request[w].op, [id |-> u, status |-> n])
      BY <2>2, <3>1 DEF FoundAs, Doing, Holding, Founders, Founding
    <3> QED
      BY <1>d, <2>1, <2>2, <3>2, <1>c
  <2> QED
    BY <1>d, <2>1, <2>2, <1>a, FoundCases
<1>1. ASSUME NEW w \in Workers, NEW r, NEW s, Asks(w, r, s) PROVE InHand'
  <2>1. /\ r \in Requests /\ r # Absent /\ s # "idle" /\ Doing(s, r.op, user[w])
        /\ r.op \in {"Refresh", "Logout", "LogoutAll"} => sessions[r.session] # Absent
        /\ request' = [request EXCEPT ![w] = r] /\ step' = [step EXCEPT ![w] = s]
        /\ UNCHANGED <<user, sessions>>
    BY <1>1, RequestShape DEF Asks, Begin, Doing, Holding, Founders, Founding, Finders,
       accountVars
  <2>2. ASSUME NEW v \in Workers, v # w
        PROVE  /\ step'[v] = step[v] /\ request'[v] = request[v]
               /\ user'[v] = user[v] /\ UNCHANGED sessions
    BY <2>1, <2>2 DEF TypeOK
  <2>3. step'[w] = s /\ request'[w] = r /\ user'[w] = user[w]
    BY <2>1 DEF TypeOK
  <2> QED
    BY <2>1, <2>2, <2>3 DEF InHand
<1>2. ASSUME NEW w \in Workers, FindByCode(w), UNCHANGED <<accountVars, user>>
      PROVE  InHand'
  <2>1. step[w] = "byCode" /\ Doing("byCode", request[w].op, user[w])
    BY <1>2 DEF FindByCode, InHand
  <2>2. Lasting
    BY <1>2 DEF FindByCode, Lasting, accountVars
  <2>3. Doing("insert role", request[w].op, user[w])
    BY <2>1 DEF Doing, Holding, Founders, Founding, Finders
  <2>4. request[w].op = "StartRoles" => Doing("clear", request[w].op, user[w])
    BY <2>1 DEF Doing, Holding, Founders, Founding, Finders
  <2> QED
    BY <1>2, <1>a, <1>b, <2>1, <2>2, <2>3, <2>4 DEF FindByCode
<1>3. ASSUME NEW w \in Workers, FindById(w), UNCHANGED <<accountVars, user>>
      PROVE  InHand'
  <2>1. step[w] = "byId" /\ Doing("byId", request[w].op, user[w])
    BY <1>3 DEF FindById, InHand
  <2>2. Lasting
    BY <1>3 DEF FindById, Lasting, accountVars
  <2>3. request[w].op = "DeleteRole" => Doing("remove role", request[w].op, user[w])
    BY <2>1 DEF Doing, Holding, Founders, Founding, Finders
  <2>4. request[w].op = "UpdateRole" => Doing("clear", request[w].op, user[w])
    BY <2>1 DEF Doing, Holding, Founders, Founding, Finders
  <2>5. request[w].op \in {"UpdateRole", "DeleteRole"}
    BY <2>1 DEF Doing
  <2> QED
    BY <1>3, <1>a, <1>b, <2>1, <2>2, <2>3, <2>4, <2>5 DEF FindById, IsSystem
<1>4. ASSUME NEW w \in Workers, InsertRole(w), UNCHANGED <<accountVars, user>>
      PROVE  InHand'
  <2>1. step[w] = "insert role" /\ Doing("insert role", request[w].op, user[w])
    BY <1>4 DEF InsertRole, InHand
  <2>2. Lasting
    BY <1>4 DEF InsertRole, Lasting, accountVars
  <2>3. Doing("permit", request[w].op, user[w])
    BY <2>1 DEF Doing, Holding, Founders, Founding, Finders
  <2> QED
    BY <1>4, <1>a, <1>b, <2>1, <2>2, <2>3 DEF InsertRole
<1>5. ASSUME NEW w \in Workers, ClearPermissions(w), UNCHANGED <<accountVars, user>>
      PROVE  InHand'
  <2>1. step[w] = "clear" /\ Doing("clear", request[w].op, user[w])
    BY <1>5 DEF ClearPermissions, InHand
  <2>2. Lasting
    BY <1>5 DEF ClearPermissions, Lasting, accountVars
  <2>3. Doing("permit", request[w].op, user[w])
    BY <2>1 DEF Doing, Holding, Founders, Founding, Finders
  <2> QED
    BY <1>5, <1>a, <1>b, <2>1, <2>2, <2>3 DEF ClearPermissions
<1>6. ASSUME NEW w \in Workers, InsertPermissions(w), UNCHANGED <<accountVars, user>>
      PROVE  InHand'
  <2>1. step[w] = "permit" /\ Doing("permit", request[w].op, user[w])
    BY <1>6 DEF InsertPermissions, InHand
  <2>2. Lasting
    BY <1>6 DEF InsertPermissions, Lasting, accountVars
  <2> QED
    BY <1>6, <1>a, <2>1, <2>2 DEF InsertPermissions
<1>7. ASSUME NEW w \in Workers, RemoveRole(w), UNCHANGED <<accountVars, user>>
      PROVE  InHand'
  <2>1. step[w] = "remove role" /\ Doing("remove role", request[w].op, user[w])
    BY <1>7 DEF RemoveRole, InHand
  <2>2. Lasting
    BY <1>7 DEF RemoveRole, Lasting, accountVars
  <2> QED
    BY <1>7, <1>a, <2>1, <2>2 DEF RemoveRole
<1>8. ASSUME NEW w \in Workers, ListPermissions(w), UNCHANGED <<accountVars, user>>
      PROVE  InHand'
  <2>1. step[w] = "list" /\ Doing("list", request[w].op, user[w])
    BY <1>8 DEF ListPermissions, InHand
  <2>2. Lasting
    BY <1>8 DEF ListPermissions, Lasting, accountVars
  <2>3. Doing("save permissions", request[w].op, user[w])
    BY <2>1 DEF Doing, Holding, Founders, Founding, Finders
  <2> QED
    BY <1>8, <1>a, <1>b, <2>1, <2>2, <2>3 DEF ListPermissions
<1>9. ASSUME NEW w \in Workers, SavePermissions(w), UNCHANGED <<accountVars, user>>
      PROVE  InHand'
  <2>1. step[w] = "save permissions" /\ Doing("save permissions", request[w].op, user[w])
    BY <1>9 DEF SavePermissions, InHand
  <2>2. Lasting
    BY <1>9 DEF SavePermissions, Lasting, accountVars
  <2> QED
    BY <1>9, <1>a, <2>1, <2>2 DEF SavePermissions
<1>10. ASSUME NEW w \in Workers, Lookup(w) PROVE InHand'
  <2>1. /\ step[w] = "lookup" /\ Doing("lookup", request[w].op, user[w])
        /\ UNCHANGED sessions
    BY <1>10 DEF Lookup, InHand
  <2>2. Lasting /\ Doing("read", request[w].op, user[w])
    BY <2>1 DEF Lasting, Doing, Holding, Founders, Founding
  <2>3. CASE Move(w, "read")
    BY <2>1, <2>2, <2>3, <1>b
  <2>4. ASSUME NEW u \in Users, NEW st \in Status, Found(w, u, st) PROVE InHand'
    BY <2>1, <2>4, <1>d
  <2> QED
    BY <1>10, <2>3, <2>4, LookupCases
<1>11. ASSUME NEW w \in Workers, ReadRow(w) PROVE InHand'
  <2>1. step[w] = "read" /\ Doing("read", request[w].op, user[w]) /\ UNCHANGED sessions
    BY <1>11 DEF ReadRow, InHand, accountVars
  <2>2. Lasting
    BY <2>1 DEF Lasting
  <2>3. ASSUME NEW u \in Users, rows[u] \in Status, Hold(w, u, rows[u], "fill") PROVE InHand'
    <3>1. [id |-> u, status |-> rows[u]] \in User
      BY <2>3 DEF User
    <3>2. Doing("fill", request[w].op, [id |-> u, status |-> rows[u]])
      BY <2>1, <3>1 DEF Doing, Holding, Founders, Founding
    <3> QED
      BY <2>1, <2>2, <2>3, <3>2, <1>c
  <2>4. request[w].op = "Seed" => Doing("insert", request[w].op, user[w])
    BY DEF Doing, Holding, Founders, Founding
  <2>5. CASE request[w].op = "Seed" /\ Move(w, "insert")
    BY <2>1, <2>2, <2>4, <2>5, <1>b
  <2>6. CASE End(w)
    BY <2>2, <2>6, <1>a
  <2> QED
    BY <1>11, <2>3, <2>5, <2>6, ReadCases
<1>12. ASSUME NEW w \in Workers, Fill(w) PROVE InHand'
  <2>1. /\ step[w] = "fill" /\ UNCHANGED sessions
        /\ user[w].id \in Users /\ user[w].status \in Status
        /\ Found(w, user[w].id, user[w].status)
    BY <1>12, FillCases
  <2> QED
    BY <2>1, <1>d
<1>13. ASSUME NEW w \in Workers, UpdateRow(w) PROVE InHand'
  <2>1. step[w] = "update" /\ Doing("update", request[w].op, user[w])
    BY <1>13 DEF UpdateRow, InHand
  <2>2. Lasting
    BY <1>13 DEF UpdateRow, Lasting, accountVars
  <2> QED
    BY <1>13, <1>a, <2>1, <2>2 DEF UpdateRow
<1>14. ASSUME NEW w \in Workers, ExistsByEmail(w) PROVE InHand'
  <2>1. step[w] = "exists" /\ Doing("exists", request[w].op, user[w])
    BY <1>14 DEF ExistsByEmail, InHand
  <2>2. Lasting
    BY <1>14 DEF ExistsByEmail, Lasting, accountVars
  <2>3. Doing("insert", request[w].op, user[w])
    BY <2>1 DEF Doing, Holding, Founders, Founding, Finders
  <2> QED
    BY <1>14, <1>a, <1>b, <2>1, <2>2, <2>3 DEF ExistsByEmail
<1>e. ASSUME NEW w \in Workers, NEW st \in Status, InsertRow(w, st), step[w] # "idle",
             UNCHANGED sessions, request[w].op \in Founders \cup {"Activate", "Deactivate"}
      PROVE  InHand'
  <2>1. Lasting
    BY <1>e DEF Lasting
  <2>2. ASSUME NEW u \in Users, Hold(w, u, st, "store") PROVE InHand'
    <3>1. [id |-> u, status |-> st] \in User
      BY DEF User
    <3>2. Doing("store", request[w].op, [id |-> u, status |-> st])
      BY <1>e, <3>1 DEF Doing, Holding, Founders, Founding
    <3> QED
      BY <1>e, <2>1, <2>2, <3>2, <1>c
  <2>3. CASE End(w)
    BY <2>1, <2>3, <1>a
  <2> QED
    BY <1>e, <2>2, <2>3 DEF InsertRow
<1>15. ASSUME NEW w \in Workers, InsertUser(w) PROVE InHand'
  <2>1. step[w] = "insert" /\ Doing("insert", request[w].op, user[w])
    BY <1>15 DEF InsertUser, InHand
  <2>2. request[w].op \in Founders
    BY <2>1 DEF Doing, Founding
  <2> QED
    BY <1>15, <1>e, <2>1, <2>2 DEF InsertUser, Status
<1>16. ASSUME NEW w \in Workers, SaveUser(w) PROVE InHand'
  <2>1. step[w] = "save" /\ Doing("save", request[w].op, user[w])
    BY <1>16 DEF SaveUser, InHand
  <2>2. /\ user[w].status \in Status /\ request[w].op \in {"Activate", "Deactivate"}
        /\ Doing("store", request[w].op, user[w])
    BY <2>1 DEF Doing, Holding, Founders, Founding, Finders, User
  <2>3. CASE Move(w, "store")
    <3>1. Lasting
      BY <1>16 DEF SaveUser, Lasting
    <3> QED
      BY <1>b, <2>1, <2>2, <2>3, <3>1
  <2>4. CASE InsertRow(w, user[w].status)
    BY <1>16, <1>e, <2>1, <2>2, <2>4 DEF SaveUser
  <2> QED
    BY <1>16, <2>3, <2>4 DEF SaveUser
<1>17. ASSUME NEW w \in Workers, StoreUser(w) PROVE InHand'
  <2>1. step[w] = "store" /\ Doing("store", request[w].op, user[w])
    BY <1>17 DEF StoreUser, InHand
  <2>2. Lasting
    BY <1>17 DEF StoreUser, Lasting, AfterStore, HandleUserDeactivated
  <2>3. request[w].op \in Founders => Doing("credential", request[w].op, user[w])
    BY <2>1 DEF Doing, Holding, Founders, Founding, Finders
  <2> QED
    BY <1>17, <1>a, <1>b, <2>1, <2>2, <2>3 DEF StoreUser, AfterStore, Founders
<1>18. ASSUME NEW w \in Workers, SaveCredential(w) PROVE InHand'
  <2>1. step[w] = "credential" /\ Doing("credential", request[w].op, user[w])
    BY <1>18 DEF SaveCredential, InHand
  <2>2. Lasting
    BY <1>18 DEF SaveCredential, Lasting, accountVars
  <2>3. Doing("wanted", request[w].op, user[w])
    BY <2>1 DEF Doing, Holding, Founders, Founding, Finders
  <2> QED
    BY <1>18, <1>a, <1>b, <2>1, <2>2, <2>3 DEF SaveCredential
<1>19. ASSUME NEW w \in Workers, FindWanted(w) PROVE InHand'
  <2>1. step[w] = "wanted" /\ Doing("wanted", request[w].op, user[w])
    BY <1>19 DEF FindWanted, InHand
  <2>2. Lasting
    BY <1>19 DEF FindWanted, Lasting, accountVars
  <2>3. Doing("withdraw", request[w].op, user[w])
    BY <2>1 DEF Doing, Holding, Founders, Founding, Finders
  <2>4. Doing("assign", request[w].op, user[w])
    BY <2>1 DEF Doing, Holding, Founders, Founding, Finders
  <2> QED
    BY <1>19, <1>a, <1>b, <2>1, <2>2, <2>3, <2>4 DEF FindWanted
<1>20. ASSUME NEW w \in Workers, Assign(w) PROVE InHand'
  <2>1. step[w] = "assign" /\ Doing("assign", request[w].op, user[w])
    BY <1>20 DEF Assign, InHand
  <2>2. Lasting
    BY <1>20 DEF Assign, Lasting, accountVars
  <2>3. Doing("withdraw", request[w].op, user[w])
    BY <2>1 DEF Doing, Holding, Founders, Founding, Finders
  <2> QED
    BY <1>20, <1>a, <1>b, <2>1, <2>2, <2>3 DEF Assign
<1>21. ASSUME NEW w \in Workers, WithdrawCredential(w) PROVE InHand'
  <2>1. step[w] = "withdraw" /\ Doing("withdraw", request[w].op, user[w])
    BY <1>21 DEF WithdrawCredential, InHand
  <2>2. Lasting
    BY <1>21 DEF WithdrawCredential, Lasting, accountVars
  <2>3. Doing("evict", request[w].op, user[w])
    BY <2>1 DEF Doing, Holding, Founders, Founding, Finders
  <2> QED
    BY <1>21, <1>a, <1>b, <2>1, <2>2, <2>3 DEF WithdrawCredential
<1>22. ASSUME NEW w \in Workers, EvictUser(w) PROVE InHand'
  <2>1. step[w] = "evict" /\ Doing("evict", request[w].op, user[w])
    BY <1>22 DEF EvictUser, InHand
  <2>2. Lasting
    BY <1>22 DEF EvictUser, Lasting, accountVars
  <2>3. Doing("delete", request[w].op, user[w])
    BY <2>1 DEF Doing, Holding, Founders, Founding, Finders
  <2> QED
    BY <1>22, <1>a, <1>b, <2>1, <2>2, <2>3 DEF EvictUser
<1>23. ASSUME NEW w \in Workers, DeleteRow(w) PROVE InHand'
  <2>1. step[w] = "delete" /\ Doing("delete", request[w].op, user[w])
    BY <1>23 DEF DeleteRow, InHand
  <2>2. Lasting
    BY <1>23 DEF DeleteRow, Lasting, accountVars
  <2> QED
    BY <1>23, <1>a, <2>1, <2>2 DEF DeleteRow
<1>24. ASSUME NEW w \in Workers, CheckPassword(w) PROVE InHand'
  <2>1. step[w] = "password" /\ Doing("password", request[w].op, user[w])
    BY <1>24 DEF CheckPassword, InHand
  <2>2. Lasting
    BY <1>24 DEF CheckPassword, Lasting, accountVars
  <2>3. Doing("role", request[w].op, user[w])
    BY <2>1 DEF Doing, Holding, Founders, Founding, Finders
  <2> QED
    BY <1>24, <1>a, <1>b, <2>1, <2>2, <2>3 DEF CheckPassword
<1>25. ASSUME NEW w \in Workers, FindRoleOfUser(w) PROVE InHand'
  <2>1. step[w] = "role" /\ Doing("role", request[w].op, user[w])
    BY <1>25 DEF FindRoleOfUser, InHand
  <2>2. Lasting
    BY <1>25 DEF FindRoleOfUser, Lasting, accountVars
  <2>3. Doing("session", request[w].op, user[w])
    BY <2>1 DEF Doing, Holding, Founders, Founding, Finders
  <2> QED
    BY <1>25, <1>a, <1>b, <2>1, <2>2, <2>3 DEF FindRoleOfUser
<1>26. ASSUME NEW w \in Workers, SaveSession(w) PROVE InHand'
  <2>1. step[w] = "session" /\ Doing("session", request[w].op, user[w])
    BY <1>26 DEF SaveSession, InHand
  <2>2. Lasting
    <3>1. PICK s \in Sessions \ Opened :
            sessions' = [sessions EXCEPT ![s] = [user |-> user[w].id, revoked |-> FALSE]]
      BY <1>26 DEF SaveSession
    <3> QED
      BY <3>1 DEF TypeOK, Lasting, Opened
  <2> QED
    BY <1>26, <1>a, <2>1, <2>2 DEF SaveSession
<1>27. ASSUME NEW w \in Workers, FindSession(w) PROVE InHand'
  <2>1. step[w] = "find" /\ Doing("find", request[w].op, user[w])
    BY <1>27 DEF FindSession, InHand
  <2>2. Lasting
    BY <1>27 DEF FindSession, Lasting, accountVars
  <2>3. Doing("revoke", request[w].op, user[w])
    BY <2>1 DEF Doing, Holding, Founders, Founding, Finders
  <2> QED
    BY <1>27, <1>a, <1>b, <2>1, <2>2, <2>3 DEF FindSession
<1>28. ASSUME NEW w \in Workers, SaveRevoked(w) PROVE InHand'
  <2>1. step[w] = "revoke" /\ Doing("revoke", request[w].op, user[w])
    BY <1>28 DEF SaveRevoked, InHand
  <2>2. Lasting
    <3>1. sessions' = [sessions EXCEPT ![request[w].session].revoked = TRUE]
      BY <1>28 DEF SaveRevoked, Revoked
    <3>2. ASSUME NEW s \in Sessions, sessions[s] # Absent
          PROVE  [sessions[s] EXCEPT !.revoked = TRUE] \in Session
      BY <3>2 DEF TypeOK, Session
    <3> QED
      BY <3>1, <3>2, AccountsAssumption DEF Lasting, TypeOK
  <2>3. request[w].op = "Refresh" => Doing("lookup", request[w].op, user[w])
    BY <2>1 DEF Doing, Holding, Founders, Founding, Finders
  <2> QED
    BY <1>28, <1>a, <1>b, <2>1, <2>2, <2>3 DEF SaveRevoked, AfterRevoke
<1>29. ASSUME NEW w \in Workers, RevokeAllForUser(w) PROVE InHand'
  <2>1. step[w] = "revoke all" /\ Doing("revoke all", request[w].op, user[w])
    BY <1>29 DEF RevokeAllForUser, InHand
  <2>2. Lasting
    <3>1. ASSUME NEW s \in Opened PROVE [sessions[s] EXCEPT !.revoked = TRUE] \in Session
      BY <3>1 DEF Opened, TypeOK, Session
    <3> QED
      BY <1>29, <3>1, AccountsAssumption DEF RevokeAllForUser, Lasting
  <2> QED
    BY <1>29, <1>a, <2>1, <2>2 DEF RevokeAllForUser
<1>30. ASSUME NEW w \in Workers, CacheFails(w) PROVE InHand'
  <2>1. CASE step[w] = "lookup" /\ Move(w, "read") /\ UNCHANGED sessions
    <3>1. Doing("lookup", request[w].op, user[w])
      BY <2>1 DEF InHand
    <3>2. Lasting /\ Doing("read", request[w].op, user[w])
      BY <2>1, <3>1 DEF Lasting, Doing, Holding, Founders, Founding
    <3> QED
      BY <2>1, <3>2, <1>b
  <2>2. CASE step[w] = "fill" /\ Found(w, user[w].id, user[w].status) /\ UNCHANGED sessions
    <3>1. user[w].id \in Users /\ user[w].status \in Status
      BY <2>2 DEF InHand, Doing, Holding, User
    <3> QED
      BY <2>2, <3>1, <1>d
  <2>3. CASE step[w] = "store" /\ AfterStore(w)
    <3>1. Doing("store", request[w].op, user[w])
      BY <2>3 DEF InHand
    <3>2. /\ Lasting
          /\ request[w].op \in Founders => Doing("credential", request[w].op, user[w])
      BY <2>3, <3>1 DEF Lasting, Doing, Holding, Founders, Founding, AfterStore,
                        HandleUserDeactivated
    <3> QED
      BY <2>3, <3>2, <1>a, <1>b DEF AfterStore, Founders
  <2>4. CASE step[w] = "evict" /\ Move(w, "delete") /\ UNCHANGED sessions
    <3>1. Doing("evict", request[w].op, user[w])
      BY <2>4 DEF InHand
    <3>2. Lasting /\ Doing("delete", request[w].op, user[w])
      BY <2>4, <3>1 DEF Lasting, Doing, Holding, Founders, Founding
    <3> QED
      BY <2>4, <3>2, <1>b
  <2> QED
    BY <1>30, <2>1, <2>2, <2>3, <2>4 DEF CacheFails
<1>31. ASSUME NEW w \in Workers, CallFails(w) PROVE InHand'
  <2>1. /\ step[w] # "idle" /\ Doing(step[w], request[w].op, user[w])
        /\ UNCHANGED sessions
    BY <1>31 DEF CallFails, InHand, accountVars
  <2>2. Lasting
    BY <2>1 DEF Lasting
  <2>3. AfterFailure(w) # "idle" => Doing(AfterFailure(w), request[w].op, user[w])
    BY <2>1 DEF AfterFailure, Doing, Holding, Founders, Founding, Finders
  <2> HIDE DEF AfterFailure
  <2> QED
    BY <1>31, <2>1, <2>2, <2>3, <1>a, <1>b DEF CallFails
<1>32. ASSUME NEW w \in Workers, Interrupted(w) PROVE InHand'
  <2>1. Lasting
    BY <1>32 DEF Interrupted, accountVars, Lasting
  <2> QED
    BY <1>32, <2>1, <1>a DEF Interrupted
<1>33. CASE UNCHANGED vars
  BY <1>33 DEF vars, accountVars, InHand
<1> QED
  BY NextIsStep, <1>1, <1>2, <1>3, <1>4, <1>5, <1>6, <1>7, <1>8, <1>9, <1>10, <1>11,
     <1>12, <1>13, <1>14, <1>15, <1>16, <1>17, <1>18, <1>19, <1>20, <1>21, <1>22,
     <1>23, <1>24, <1>25, <1>26, <1>27, <1>28, <1>29, <1>30, <1>31, <1>32, <1>33 DEF
     Step, AccountStep, RoleStep

(* A step of the roles leaves the users and what was cut off as they are.  *)
LEMMA RoleMoves ==
  ASSUME TypeOK, InHand, NEW w \in Workers, RoleStep(w)
  PROVE  /\ UNCHANGED <<assigned, history>> /\ step[w] \in RoleSteps
         /\ \/ Leave(w)
            \/ \E s \in RoleSteps : Goto(w, s)
<1> USE DEF RoleSteps
<1>1. CASE FindByCode(w) \/ FindById(w)
  BY <1>1 DEF FindByCode, FindById, roleVars
<1>2. CASE InsertRole(w) \/ ClearPermissions(w)
  BY <1>2 DEF InsertRole, ClearPermissions
<1>3. CASE InsertPermissions(w) \/ RemoveRole(w)
  BY <1>3 DEF InsertPermissions, RemoveRole
<1>4. CASE ListPermissions(w) \/ SavePermissions(w)
  BY <1>4 DEF ListPermissions, SavePermissions, roleVars
<1> QED
  BY <1>1, <1>2, <1>3, <1>4 DEF RoleStep

(* What was cut off stays so, and what starts beside another is.           *)
LEMMA DisturbedStays ==
  ASSUME TypeOK, InHand, [Next]_vars, ~disturbed'
  PROVE  ~disturbed
<1> SUFFICES ASSUME disturbed PROVE FALSE
  BY DEF TypeOK, RolesTypeOK
<1>1. ASSUME NEW w \in Workers, NEW r, NEW s, Asks(w, r, s) PROVE FALSE
  BY <1>1 DEF Asks, Begin
<1>2. ASSUME NEW w \in Workers, RoleStep(w) PROVE FALSE
  BY <1>2, RoleMoves DEF history
<1>3. ASSUME NEW w \in Workers, AccountStep(w) PROVE FALSE
  BY <1>3 DEF AccountStep, Lookup, ReadRow, Fill, UpdateRow, ExistsByEmail, InsertUser,
              SaveUser, StoreUser, SaveCredential, FindWanted, Assign,
              WithdrawCredential, EvictUser, DeleteRow, CheckPassword, FindRoleOfUser,
              SaveSession, FindSession, SaveRevoked, RevokeAllForUser, CacheFails,
              CallFails, Interrupted, history
<1>4. CASE UNCHANGED vars
  BY <1>4 DEF vars, history
<1> QED
  BY NextIsStep, <1>1, <1>2, <1>3, <1>4 DEF Step

(* Of a calm state, what the one worker w that is busy has to see to.      *)
CalmFor(w) ==
  /\ Entries /\ Handles(w)
  /\ \A u \in Users : rows[u] # Absent => Whole(u) \/ Registering(w, u)
Resting(w) == \A v \in Workers : v # w => step[v] = "idle"

LEMMA CalmBefore ==
  ASSUME Calm, ~disturbed, NEW w \in Workers, step[w] # "idle"
  PROVE  CalmFor(w) /\ Resting(w)
BY DEF Calm, CalmFor, Resting, Alone, Registering, Founding

LEMMA CalmAfter ==
  ASSUME TypeOK, NEW w \in Workers, Resting(w), step' = [step EXCEPT ![w] = step'[w]],
         CalmFor(w)'
  PROVE  Calm'
<1>1. \A v \in Workers : v # w => step'[v] = "idle"
  BY DEF Resting, TypeOK
<1>2. Alone' /\ \A v \in Workers : Handles(v)'
  BY <1>1 DEF Alone, Handles, CalmFor
<1> QED
  BY <1>2 DEF Calm, CalmFor

(* While nothing overlaps, a user in hand to be saved has a row.           *)
LEMMA SavesRow ==
  ASSUME TypeOK, InHand, Calm, ~disturbed, NEW w \in Workers, SaveUser(w)
  PROVE  /\ rows' = [rows EXCEPT ![user[w].id] = user[w].status]
         /\ Move(w, "store") /\ rows[user[w].id] # Absent
<1>1. step[w] = "save" /\ Doing("save", request[w].op, user[w]) /\ Handles(w)
  BY DEF SaveUser, InHand, Calm
<1>2. user[w].id \in Known
  BY <1>1 DEF Doing, Holding, User, Handles, Known
<1> QED
  BY <1>1, <1>2 DEF SaveUser, Handles

(* A step that cuts nothing off keeps the state calm.                      *)
LEMMA CalmStep ==
  TypeOK /\ InHand /\ Calm /\ [Next]_vars => Calm'
<1> SUFFICES ASSUME TypeOK, InHand, Calm, [Next]_vars PROVE Calm'
  OBVIOUS
<1>0. SUFFICES ASSUME ~disturbed, ~disturbed' PROVE Calm'
  BY DisturbedStays DEF Calm
<1>a. ASSUME NEW w \in Workers, NEW u \in Users, NEW st \in Status, Found(w, u, st),
             step[w] \in {"lookup", "fill"}, CalmFor(w), Resting(w), rows[u] # Absent,
             UNCHANGED <<roleVars, rows, credentials>>, Entries'
      PROVE  Calm'
  <2>1. CASE End(w)
    <3>1. step' = [step EXCEPT ![w] = step'[w]] /\ step'[w] = "idle"
      BY <2>1 DEF End, Leave, TypeOK
    <3>2. CalmFor(w)'
      BY <1>a, <3>1 DEF CalmFor, Handles, Whole, Registering, Founding, roleVars
    <3> QED
      BY <1>a, <3>1, <3>2, CalmAfter
  <2>2. ASSUME NEW n, NEW s, Hold(w, u, n, s), FoundAs(w, st, n, s) PROVE Calm'
    <3>1. /\ step' = [step EXCEPT ![w] = step'[w]]
          /\ step'[w] \in {"update", "save", "password", "role"} /\ user'[w].id = u
      BY <2>2 DEF Hold, Goto, TypeOK, FoundAs
    <3>2. CalmFor(w)'
      BY <1>a, <3>1 DEF CalmFor, Handles, Whole, Registering, Founding, roleVars
    <3> QED
      BY <1>a, <3>1, <3>2, CalmAfter
  <2> QED
    BY <1>a, <2>1, <2>2, FoundCases
<1>1. ASSUME NEW w \in Workers, NEW r, NEW s, Asks(w, r, s) PROVE Calm'
  <2>1. /\ \A v \in Workers : step[v] = "idle"
        /\ step' = [step EXCEPT ![w] = s] /\ UNCHANGED <<assigned, accountVars, user>>
        /\ s \notin {"fill", "save", "store", "wanted", "assign", "delete"}
    BY <1>0, <1>1 DEF Asks, Begin, AtRest, InHand, roleVars
  <2>2. Entries /\ \A u \in Users : rows[u] # Absent => Whole(u)
    BY <1>0, <2>1 DEF Calm, Registering, Founding
  <2>3. CalmFor(w)' /\ step' = [step EXCEPT ![w] = step'[w]]
    BY <2>1, <2>2 DEF CalmFor, Entries, Handles, Whole, accountVars, TypeOK
  <2> QED
    BY <2>1, <2>3, CalmAfter DEF Resting
<1>2. ASSUME NEW w \in Workers, RoleStep(w), UNCHANGED <<accountVars, user>>
      PROVE  Calm'
  <2>1. /\ UNCHANGED <<assigned, accountVars, user>> /\ step[w] \in RoleSteps
        /\ step' = [step EXCEPT ![w] = step'[w]] /\ step'[w] \in RoleSteps \cup {"idle"}
    BY <1>2, RoleMoves DEF Leave, Goto, TypeOK
  <2>2. CalmFor(w) /\ Resting(w)
    BY <1>0, <2>1, CalmBefore DEF RoleSteps
  <2>3. CalmFor(w)'
    BY <2>1, <2>2 DEF CalmFor, Entries, Handles, Whole, Registering, Founding,
         accountVars,
                      RoleSteps
  <2> QED
    BY <2>1, <2>2, <2>3, CalmAfter
<1>3. ASSUME NEW w \in Workers, Lookup(w) PROVE Calm'
  <2>1. /\ step[w] = "lookup" /\ CalmFor(w) /\ Resting(w)
        /\ UNCHANGED <<roleVars, rows, credentials>>
    BY <1>0, <1>3, CalmBefore DEF Lookup
  <2>2. CASE /\ Move(w, "read")
             /\ cache' = [u \in Users |-> IF u \in Sought(w) THEN Absent ELSE cache[u]]
    <3>1. step' = [step EXCEPT ![w] = step'[w]] /\ step'[w] = "read"
      BY <2>2 DEF Move, Goto, TypeOK
    <3>2. CalmFor(w)'
      BY <2>1, <2>2, <3>1 DEF CalmFor, Entries, Handles, Whole, Registering, Founding,
         roleVars
    <3> QED
      BY <2>1, <3>1, <3>2, CalmAfter
  <2>3. ASSUME NEW u \in Users, NEW st \in Status, Found(w, u, st), cache[u] = st,
               UNCHANGED cache
        PROVE  Calm'
    <3>1. rows[u] # Absent /\ Entries'
      BY <2>1, <2>3, AccountsAssumption DEF CalmFor, Entries
    <3> QED
      BY <2>1, <2>3, <3>1, <1>a
  <2> QED
    BY <1>3, <2>2, <2>3, LookupCases
<1>4. ASSUME NEW w \in Workers, ReadRow(w) PROVE Calm'
  <2>1. /\ step[w] = "read" /\ CalmFor(w) /\ Resting(w)
        /\ UNCHANGED <<roleVars, rows, cache, credentials>>
    BY <1>0, <1>4, CalmBefore DEF ReadRow, accountVars
  <2>2. /\ step' = [step EXCEPT ![w] = step'[w]]
        /\ \/ step'[w] = "fill" /\ rows[user'[w].id] # Absent
           \/ step'[w] \in {"insert", "idle"}
    BY <1>4, ReadCases, AccountsAssumption DEF Hold, Move, End, Goto, Leave, TypeOK
  <2>3. CalmFor(w)'
    BY <2>1, <2>2 DEF CalmFor, Entries, Handles, Whole, Registering, Founding, roleVars
  <2> QED
    BY <2>1, <2>2, <2>3, CalmAfter
<1>5. ASSUME NEW w \in Workers, Fill(w) PROVE Calm'
  <2>1. /\ step[w] = "fill" /\ UNCHANGED <<roleVars, rows, credentials>>
        /\ user[w].id \in Users /\ user[w].status \in Status
        /\ cache' = [cache EXCEPT ![user[w].id] = user[w].status]
        /\ Found(w, user[w].id, user[w].status)
    BY <1>5, FillCases
  <2>2. CalmFor(w) /\ Resting(w)
    BY <1>0, <2>1, CalmBefore
  <2>3. rows[user[w].id] # Absent /\ Entries'
    BY <2>1, <2>2 DEF CalmFor, Entries, Handles, TypeOK
  <2> QED
    BY <2>1, <2>2, <2>3, <1>a
<1>6. ASSUME NEW w \in Workers, UpdateRow(w) PROVE Calm'
  <2>1. /\ step[w] = "update" /\ CalmFor(w) /\ Resting(w)
        /\ Doing("update", request[w].op, user[w])
    BY <1>0, <1>6, CalmBefore DEF UpdateRow, InHand
  <2>2. step' = [step EXCEPT ![w] = step'[w]]
    BY <1>6 DEF UpdateRow, TypeOK, Move, Goto, End, Leave
  <2>3. CalmFor(w)'
    BY <1>6, <2>1, <2>2 DEF UpdateRow, TypeOK, Move, Goto, End, Leave, roleVars,
       accountVars, CalmFor, Entries, Handles, Whole, Registering, Founding, Founders,
       Doing
  <2> QED
    BY <2>1, <2>2, <2>3, CalmAfter
<1>7. ASSUME NEW w \in Workers, ExistsByEmail(w) PROVE Calm'
  <2>1. /\ step[w] = "exists" /\ CalmFor(w) /\ Resting(w)
        /\ Doing("exists", request[w].op, user[w])
    BY <1>0, <1>7, CalmBefore DEF ExistsByEmail, InHand
  <2>2. step' = [step EXCEPT ![w] = step'[w]]
    BY <1>7 DEF ExistsByEmail, TypeOK, Move, Goto, End, Leave
  <2>3. CalmFor(w)'
    BY <1>7, <2>1, <2>2 DEF ExistsByEmail, TypeOK, Move, Goto, End, Leave, roleVars,
       accountVars, CalmFor, Entries, Handles, Whole, Registering, Founding, Founders,
       Doing
  <2> QED
    BY <2>1, <2>2, <2>3, CalmAfter
<1>8. ASSUME NEW w \in Workers, InsertUser(w) PROVE Calm'
  <2>1. /\ step[w] = "insert" /\ CalmFor(w) /\ Resting(w)
        /\ Doing("insert", request[w].op, user[w])
        /\ UNCHANGED <<roleVars, cache, credentials>>
    BY <1>0, <1>8, CalmBefore DEF InsertUser, InHand
  <2>2. CASE End(w) /\ UNCHANGED rows
    <3>1. step' = [step EXCEPT ![w] = step'[w]] /\ step'[w] = "idle"
      BY <2>2 DEF End, Leave, TypeOK
    <3>2. CalmFor(w)'
      BY <2>1, <2>2, <3>1 DEF CalmFor, Entries, Handles, Whole, Registering, Founding,
         roleVars
    <3> QED
      BY <2>1, <3>1, <3>2, CalmAfter
  <2>3. ASSUME NEW u \in Users, rows' = [rows EXCEPT ![u] = "active"], Known = {},
               Hold(w, u, "active", "store")
        PROVE  Calm'
    <3>1. /\ step' = [step EXCEPT ![w] = step'[w]] /\ step'[w] = "store"
          /\ user'[w].id = u /\ UNCHANGED request /\ request[w].op \in Founders
      BY <2>1, <2>3 DEF Hold, Goto, TypeOK, Doing, Founding
    <3>2. rows'[u] # Absent /\ \A v \in Users : v # u => rows'[v] = Absent
      BY <2>3, AccountsAssumption DEF Known, TypeOK, Status
    <3>3. \A v \in Users : cache[v] = Absent
      BY <2>1, <2>3 DEF CalmFor, Entries, Known
    <3>4. CalmFor(w)'
      BY <2>1, <3>1, <3>2, <3>3 DEF CalmFor, Entries, Handles, Whole, Registering,
           roleVars
    <3> QED
      BY <2>1, <3>1, <3>4, CalmAfter
  <2> QED
    BY <1>8, <2>2, <2>3 DEF InsertUser, InsertRow
<1>9. ASSUME NEW w \in Workers, SaveUser(w) PROVE Calm'
  <2>1. /\ step[w] = "save" /\ CalmFor(w) /\ Resting(w)
        /\ Doing("save", request[w].op, user[w])
    BY <1>0, <1>9, CalmBefore DEF SaveUser, InHand
  <2>2. user[w].id \in Users /\ user[w].status # Absent
    BY <2>1, AccountsAssumption DEF Doing, Holding, User
  <2>3. step' = [step EXCEPT ![w] = step'[w]]
    BY <1>0, <1>9, SavesRow DEF TypeOK, Move, Goto
  <2>4. CalmFor(w)'
    BY <1>0, <1>9, <2>1, <2>2, <2>3, SavesRow DEF SaveUser, TypeOK, Move, Goto, roleVars,
       CalmFor, Entries, Handles, Whole, Registering, Founding, Founders, Doing
  <2> QED
    BY <2>1, <2>3, <2>4, CalmAfter
<1>10. ASSUME NEW w \in Workers, StoreUser(w) PROVE Calm'
  <2>1. /\ step[w] = "store" /\ CalmFor(w) /\ Resting(w)
        /\ Doing("store", request[w].op, user[w])
    BY <1>0, <1>10, CalmBefore DEF StoreUser, InHand
  <2>2. step' = [step EXCEPT ![w] = step'[w]]
    BY <1>10 DEF StoreUser, TypeOK, Move, Goto, End, Leave, AfterStore
  <2>3. CalmFor(w)'
    BY <1>10, <2>1, <2>2 DEF StoreUser, TypeOK, Move, Goto, End, Leave, roleVars,
       accountVars, Stored, AfterStore, CalmFor, Entries, Handles, Whole, Registering,
       Founding, Founders, Doing
  <2> QED
    BY <2>1, <2>2, <2>3, CalmAfter
<1>11. ASSUME NEW w \in Workers, SaveCredential(w) PROVE Calm'
  <2>1. /\ step[w] = "credential" /\ CalmFor(w) /\ Resting(w)
        /\ Doing("credential", request[w].op, user[w])
    BY <1>0, <1>11, CalmBefore DEF SaveCredential, InHand
  <2>2. step' = [step EXCEPT ![w] = step'[w]]
    BY <1>11 DEF SaveCredential, TypeOK, Move, Goto, End, Leave
  <2>3. CalmFor(w)'
    BY <1>11, <2>1, <2>2 DEF SaveCredential, TypeOK, Move, Goto, End, Leave, roleVars,
       accountVars, CalmFor, Entries, Handles, Whole, Registering, Founding, Founders,
       Doing
  <2> QED
    BY <2>1, <2>2, <2>3, CalmAfter
<1>12. ASSUME NEW w \in Workers, FindWanted(w) PROVE Calm'
  <2>1. /\ step[w] = "wanted" /\ CalmFor(w) /\ Resting(w)
        /\ Doing("wanted", request[w].op, user[w])
    BY <1>0, <1>12, CalmBefore DEF FindWanted, InHand
  <2>2. step' = [step EXCEPT ![w] = step'[w]]
    BY <1>12 DEF FindWanted, TypeOK, Move, Goto, End, Leave
  <2>3. CalmFor(w)'
    BY <1>12, <2>1, <2>2 DEF FindWanted, TypeOK, Move, Goto, End, Leave, roleVars,
       accountVars, CalmFor, Entries, Handles, Whole, Registering, Founding, Founders,
       Doing
  <2> QED
    BY <2>1, <2>2, <2>3, CalmAfter
<1>13. ASSUME NEW w \in Workers, Assign(w) PROVE Calm'
  <2>1. /\ step[w] = "assign" /\ CalmFor(w) /\ Resting(w)
        /\ Doing("assign", request[w].op, user[w])
    BY <1>0, <1>13, CalmBefore DEF Assign, InHand
  <2>2. user[w].id \in Users /\ Wanted(w) # Absent
    <3>1. /\ request[w] \in Requests /\ request[w].op \in Founders
          /\ user[w] \in User
      BY <2>1 DEF Doing, Holding, Founding, Requests, TypeOK, InHand
    <3>2. Wanted(w) \in Codes
      BY <3>1, RequestShape, AccountsAssumption DEF Wanted, Code, Founders
    <3> QED
      BY <3>1, <3>2, AccountsAssumption DEF User
  <2>3. step' = [step EXCEPT ![w] = step'[w]]
    BY <1>13 DEF Assign, TypeOK, Move, Goto, End, Leave
  <2>4. CalmFor(w)'
    BY <1>13, <2>1, <2>2, <2>3 DEF Assign, TypeOK, Move, Goto, End, Leave, roleVars,
       accountVars, RoleGiven, RolesTypeOK, Assignments, CalmFor, Entries, Handles,
       Whole, Registering, Founding, Founders, Doing
  <2> QED
    BY <2>1, <2>3, <2>4, CalmAfter
<1>14. ASSUME NEW w \in Workers, WithdrawCredential(w) PROVE Calm'
  <2>1. /\ step[w] = "withdraw" /\ CalmFor(w) /\ Resting(w)
        /\ Doing("withdraw", request[w].op, user[w])
    BY <1>0, <1>14, CalmBefore DEF WithdrawCredential, InHand
  <2>2. step' = [step EXCEPT ![w] = step'[w]]
    BY <1>14 DEF WithdrawCredential, TypeOK, Move, Goto, End, Leave
  <2>3. CalmFor(w)'
    BY <1>14, <2>1, <2>2 DEF WithdrawCredential, TypeOK, Move, Goto, End, Leave,
       roleVars, accountVars, CalmFor, Entries, Handles, Whole, Registering, Founding,
       Founders, Doing
  <2> QED
    BY <2>1, <2>2, <2>3, CalmAfter
<1>15. ASSUME NEW w \in Workers, EvictUser(w) PROVE Calm'
  <2>1. /\ step[w] = "evict" /\ CalmFor(w) /\ Resting(w)
        /\ Doing("evict", request[w].op, user[w])
    BY <1>0, <1>15, CalmBefore DEF EvictUser, InHand
  <2>2. Deleted(w) \in Users /\ UNCHANGED <<request, user>>
    BY <1>15, <2>1, RequestShape DEF EvictUser, Move, Goto, Doing, User, Founders,
         Deleted,
       Requests, TypeOK, InHand
  <2>3. step' = [step EXCEPT ![w] = step'[w]]
    BY <1>15 DEF EvictUser, TypeOK, Move, Goto, End, Leave
  <2>4. CalmFor(w)'
    BY <1>15, <2>1, <2>2, <2>3 DEF EvictUser, TypeOK, Move, Goto, End, Leave, roleVars,
       accountVars, Deleted, CalmFor, Entries, Handles, Whole, Registering, Founding,
       Founders, Doing
  <2> QED
    BY <2>1, <2>3, <2>4, CalmAfter
<1>16. ASSUME NEW w \in Workers, DeleteRow(w) PROVE Calm'
  <2>1. /\ step[w] = "delete" /\ CalmFor(w) /\ Resting(w)
        /\ Doing("delete", request[w].op, user[w])
    BY <1>0, <1>16, CalmBefore DEF DeleteRow, InHand
  <2>2. step' = [step EXCEPT ![w] = step'[w]]
    BY <1>16 DEF DeleteRow, TypeOK, Move, Goto, End, Leave
  <2>3. CalmFor(w)'
    BY <1>16, <2>1, <2>2 DEF DeleteRow, TypeOK, Move, Goto, End, Leave, roleVars,
       accountVars, Deleted, CalmFor, Entries, Handles, Whole, Registering, Founding,
       Founders, Doing
  <2> QED
    BY <2>1, <2>2, <2>3, CalmAfter
<1>17. ASSUME NEW w \in Workers, CheckPassword(w) PROVE Calm'
  <2>1. /\ step[w] = "password" /\ CalmFor(w) /\ Resting(w)
        /\ Doing("password", request[w].op, user[w])
    BY <1>0, <1>17, CalmBefore DEF CheckPassword, InHand
  <2>2. step' = [step EXCEPT ![w] = step'[w]]
    BY <1>17 DEF CheckPassword, TypeOK, Move, Goto, End, Leave
  <2>3. CalmFor(w)'
    BY <1>17, <2>1, <2>2 DEF CheckPassword, TypeOK, Move, Goto, End, Leave, roleVars,
       accountVars, CalmFor, Entries, Handles, Whole, Registering, Founding, Founders,
       Doing
  <2> QED
    BY <2>1, <2>2, <2>3, CalmAfter
<1>18. ASSUME NEW w \in Workers, FindRoleOfUser(w) PROVE Calm'
  <2>1. /\ step[w] = "role" /\ CalmFor(w) /\ Resting(w)
        /\ Doing("role", request[w].op, user[w])
    BY <1>0, <1>18, CalmBefore DEF FindRoleOfUser, InHand
  <2>2. step' = [step EXCEPT ![w] = step'[w]]
    BY <1>18 DEF FindRoleOfUser, TypeOK, Move, Goto, End, Leave
  <2>3. CalmFor(w)'
    BY <1>18, <2>1, <2>2 DEF FindRoleOfUser, TypeOK, Move, Goto, End, Leave, roleVars,
       accountVars, CalmFor, Entries, Handles, Whole, Registering, Founding, Founders,
       Doing
  <2> QED
    BY <2>1, <2>2, <2>3, CalmAfter
<1>19. ASSUME NEW w \in Workers, SaveSession(w) PROVE Calm'
  <2>1. /\ step[w] = "session" /\ CalmFor(w) /\ Resting(w)
        /\ Doing("session", request[w].op, user[w])
    BY <1>0, <1>19, CalmBefore DEF SaveSession, InHand
  <2>2. step' = [step EXCEPT ![w] = step'[w]]
    BY <1>19 DEF SaveSession, TypeOK, Move, Goto, End, Leave
  <2>3. CalmFor(w)'
    BY <1>19, <2>1, <2>2 DEF SaveSession, TypeOK, Move, Goto, End, Leave, roleVars,
       accountVars, CalmFor, Entries, Handles, Whole, Registering, Founding, Founders,
       Doing
  <2> QED
    BY <2>1, <2>2, <2>3, CalmAfter
<1>20. ASSUME NEW w \in Workers, FindSession(w) PROVE Calm'
  <2>1. /\ step[w] = "find" /\ CalmFor(w) /\ Resting(w)
        /\ Doing("find", request[w].op, user[w])
    BY <1>0, <1>20, CalmBefore DEF FindSession, InHand
  <2>2. step' = [step EXCEPT ![w] = step'[w]]
    BY <1>20 DEF FindSession, TypeOK, Move, Goto, End, Leave
  <2>3. CalmFor(w)'
    BY <1>20, <2>1, <2>2 DEF FindSession, TypeOK, Move, Goto, End, Leave, roleVars,
       accountVars, CalmFor, Entries, Handles, Whole, Registering, Founding, Founders,
       Doing
  <2> QED
    BY <2>1, <2>2, <2>3, CalmAfter
<1>21. ASSUME NEW w \in Workers, SaveRevoked(w) PROVE Calm'
  <2>1. /\ step[w] = "revoke" /\ CalmFor(w) /\ Resting(w)
        /\ Doing("revoke", request[w].op, user[w])
    BY <1>0, <1>21, CalmBefore DEF SaveRevoked, InHand
  <2>2. step' = [step EXCEPT ![w] = step'[w]]
    BY <1>21 DEF SaveRevoked, TypeOK, Move, Goto, End, Leave, AfterRevoke
  <2>3. CalmFor(w)'
    BY <1>21, <2>1, <2>2 DEF SaveRevoked, TypeOK, Move, Goto, End, Leave, roleVars,
       accountVars, AfterRevoke, CalmFor, Entries, Handles, Whole, Registering,
       Founding, Founders, Doing
  <2> QED
    BY <2>1, <2>2, <2>3, CalmAfter
<1>22. ASSUME NEW w \in Workers, RevokeAllForUser(w) PROVE Calm'
  <2>1. /\ step[w] = "revoke all" /\ CalmFor(w) /\ Resting(w)
        /\ Doing("revoke all", request[w].op, user[w])
    BY <1>0, <1>22, CalmBefore DEF RevokeAllForUser, InHand
  <2>2. step' = [step EXCEPT ![w] = step'[w]]
    BY <1>22 DEF RevokeAllForUser, TypeOK, Move, Goto, End, Leave
  <2>3. CalmFor(w)'
    BY <1>22, <2>1, <2>2 DEF RevokeAllForUser, TypeOK, Move, Goto, End, Leave,
       roleVars, accountVars, CalmFor, Entries, Handles, Whole, Registering, Founding,
       Founders, Doing
  <2> QED
    BY <2>1, <2>2, <2>3, CalmAfter
<1>23. ASSUME NEW w \in Workers, CacheFails(w) PROVE Calm'
  <2>1. step[w] \in {"lookup", "fill", "store"}
    BY <1>0, <1>23 DEF CacheFails
  <2>2. CalmFor(w) /\ Resting(w) /\ UNCHANGED <<roleVars, rows, cache, credentials>>
    BY <1>0, <1>23, <2>1, CalmBefore DEF CacheFails
  <2>3. CASE step[w] = "fill" /\ Found(w, user[w].id, user[w].status)
    <3>1. user[w].id \in Users /\ user[w].status \in Status
      BY <2>3 DEF InHand, Doing, Holding, User
    <3>2. rows[user[w].id] # Absent /\ Entries'
      BY <2>2, <2>3 DEF CalmFor, Entries, Handles
    <3> QED
      BY <2>2, <2>3, <3>1, <3>2, <1>a
  <2>4. CASE step[w] = "lookup" /\ Move(w, "read")
    <3>1. step' = [step EXCEPT ![w] = step'[w]] /\ step'[w] = "read"
      BY <2>4 DEF Move, Goto, TypeOK
    <3>2. CalmFor(w)'
      BY <2>2, <2>4, <3>1 DEF CalmFor, Entries, Handles, Whole, Registering, Founding,
         roleVars
    <3> QED
      BY <2>2, <3>1, <3>2, CalmAfter
  <2>5. CASE step[w] = "store" /\ AfterStore(w)
    <3>1. step' = [step EXCEPT ![w] = step'[w]]
      BY <2>5 DEF AfterStore, Move, End, Goto, Leave, TypeOK
    <3>2. CalmFor(w)'
      BY <2>2, <2>5, <3>1 DEF CalmFor, Entries, Handles, Whole, Registering, Founding,
         Founders,
                              roleVars, AfterStore, Move, End, Goto, Leave, TypeOK
    <3> QED
      BY <2>2, <3>1, <3>2, CalmAfter
  <2> QED
    BY <1>23, <2>1, <2>3, <2>4, <2>5 DEF CacheFails
<1>24. ASSUME NEW w \in Workers, CallFails(w) PROVE Calm'
  <2>1. /\ step[w] \notin {"idle", "lookup", "fill", "store", "evict"}
        /\ CalmFor(w) /\ Resting(w) /\ UNCHANGED <<roleVars, rows, cache, credentials>>
        /\ Doing(step[w], request[w].op, user[w]) /\ ~Compensates(w)
    BY <1>0, <1>24, CalmBefore DEF CallFails, accountVars, InHand
  <2>2. /\ step' = [step EXCEPT ![w] = step'[w]] /\ step'[w] = AfterFailure(w)
        /\ AfterFailure(w) # "idle" => UNCHANGED <<request, user>>
    BY <1>24 DEF CallFails, Move, End, Goto, Leave, TypeOK
  <2>3. AfterFailure(w) \in {"idle", "evict", "withdraw", "lookup"}
    BY DEF AfterFailure
  <2>4. \A u \in Users : Registering(w, u) => AfterFailure(w) \in {"evict", "withdraw"}
    BY <2>1 DEF Registering, Founding, Founders, AfterFailure, Compensates
  <2>5. CalmFor(w)'
    BY <2>1, <2>2, <2>3, <2>4 DEF CalmFor, Entries, Handles, Whole, Registering, Founding,
                                  roleVars
  <2> QED
    BY <2>1, <2>2, <2>5, CalmAfter
<1>25. ASSUME NEW w \in Workers, Interrupted(w) PROVE Calm'
  BY <1>0, <1>25 DEF Interrupted
<1>26. CASE UNCHANGED vars
  BY <1>26 DEF vars, roleVars, accountVars, history, Calm, Alone, Entries, Handles,
              Whole, Registering, Deleted
<1> QED
  BY NextIsStep, <1>1, <1>2, <1>3, <1>4, <1>5, <1>6, <1>7, <1>8, <1>9, <1>10, <1>11,
     <1>12, <1>13, <1>14, <1>15, <1>16, <1>17, <1>18, <1>19, <1>20, <1>21, <1>22,
     <1>23, <1>24, <1>25, <1>26 DEF Step, AccountStep

(* A step that follows no trouble: troubles are only ever counted up.      *)
LEMMA TroublesStay ==
  ASSUME TypeOK, InHand, Untroubled, [Next]_vars
  PROVE  Untroubled' /\ (troubles' = 0 => troubles = 0 /\ ~disturbed /\ ~disturbed')
<1>1. troubles \in Nat
  BY DEF TypeOK, RolesTypeOK
<1>2. ASSUME NEW w \in Workers, NEW r, NEW s, Asks(w, r, s)
      PROVE  troubles' = 0 => troubles = 0 /\ ~disturbed'
  <2>1. troubles' = IF disturbed' THEN troubles + 1 ELSE troubles
    BY <1>2 DEF Asks, Begin
  <2> QED
    BY <1>1, <2>1
<1>3. ASSUME NEW w \in Workers, CacheFails(w) \/ CallFails(w) \/ Interrupted(w)
      PROVE  troubles' # 0
  <2>1. troubles' = troubles + 1
    BY <1>3 DEF CacheFails, CallFails, Interrupted, Trouble
  <2> QED
    BY <1>1, <2>1
<1>4. ASSUME UNCHANGED history PROVE troubles' = 0 => troubles = 0 /\ ~disturbed'
  BY <1>4 DEF history, Untroubled
<1>5. ASSUME NEW w \in Workers, RoleStep(w) PROVE UNCHANGED history
  BY <1>5, RoleMoves
<1>6. ASSUME NEW w \in Workers, AccountStep(w),
             ~(CacheFails(w) \/ CallFails(w) \/ Interrupted(w))
      PROVE  UNCHANGED history
  BY <1>6 DEF AccountStep, Lookup, ReadRow, Fill, UpdateRow, ExistsByEmail, InsertUser,
              SaveUser, StoreUser, SaveCredential, FindWanted, Assign,
              WithdrawCredential, EvictUser, DeleteRow, CheckPassword, FindRoleOfUser,
              SaveSession, FindSession, SaveRevoked, RevokeAllForUser
<1>7. ASSUME UNCHANGED vars PROVE troubles' = 0 => troubles = 0 /\ ~disturbed'
  <2>1. UNCHANGED history
    BY <1>7 DEF vars
  <2> QED
    BY <1>4, <2>1
<1>8. troubles' = 0 => troubles = 0 /\ ~disturbed'
  BY NextIsStep, <1>2, <1>3, <1>4, <1>5, <1>6, <1>7 DEF Step
<1> QED
  BY <1>8, DisturbedStays DEF Untroubled

(* Of such a state, what the one worker w that is busy has to see to.      *)
FreshFor(w) ==
  /\ \A u \in Users : \/ cache[u] \in {Absent, rows[u]}
                      \/ step[w] = "store" /\ user[w].id = u
  /\ Copies(w)

LEMMA FreshBefore ==
  ASSUME Calm, Fresh, troubles = 0, ~disturbed, NEW w \in Workers, step[w] # "idle"
  PROVE  FreshFor(w) /\ Resting(w)
<1>1. Resting(w)
  BY CalmBefore
<1> QED
  BY <1>1 DEF Fresh, FreshFor, Resting

LEMMA FreshAfter ==
  ASSUME TypeOK, NEW w \in Workers, Resting(w), step' = [step EXCEPT ![w] = step'[w]],
         FreshFor(w)'
  PROVE  Fresh'
<1>1. \A v \in Workers : v # w => step'[v] = "idle"
  BY DEF Resting, TypeOK
<1>2. \A v \in Workers : Copies(v)'
  BY <1>1 DEF Copies, FreshFor
<1> QED
  BY <1>2 DEF Fresh, FreshFor

(* A step without trouble keeps entries and copies as the rows are.        *)
LEMMA FreshStep ==
  TypeOK /\ InHand /\ Calm /\ Untroubled /\ Fresh /\ [Next]_vars => Fresh'
<1> SUFFICES ASSUME TypeOK, InHand, Calm, Untroubled, Fresh, [Next]_vars PROVE Fresh'
  OBVIOUS
<1>0. SUFFICES ASSUME troubles = 0, troubles' = 0, ~disturbed, ~disturbed' PROVE Fresh'
  BY TroublesStay DEF Fresh
<1>a. ASSUME NEW w \in Workers, NEW u \in Users, NEW st \in Status, Found(w, u, st),
             step[w] \in {"lookup", "fill"}, Resting(w), rows[u] = st, UNCHANGED rows,
             \A v \in Users : cache'[v] \in {Absent, rows'[v]}
      PROVE  Fresh'
  <2>1. CASE End(w)
    <3>1. step' = [step EXCEPT ![w] = step'[w]] /\ step'[w] = "idle"
      BY <2>1 DEF End, Leave, TypeOK
    <3>2. FreshFor(w)'
      BY <1>a, <3>1 DEF FreshFor, Copies
    <3> QED
      BY <1>a, <3>1, <3>2, FreshAfter
  <2>2. ASSUME NEW n, NEW s, Hold(w, u, n, s), FoundAs(w, st, n, s) PROVE Fresh'
    <3>1. /\ step' = [step EXCEPT ![w] = step'[w]] /\ step'[w] = s
          /\ user'[w].id = u /\ user'[w].status = n /\ UNCHANGED request
      BY <2>2 DEF Hold, Goto, TypeOK
    <3>2. /\ s \in {"update", "save", "password", "role"}
          /\ s \in {"password", "role"} => n = st
          /\ s = "password" => st = "active"
          /\ s = "role" => request[w].op = "Refresh"
      BY <2>2 DEF FoundAs, Status
    <3>3. FreshFor(w)'
      BY <1>a, <3>1, <3>2 DEF FreshFor, Copies
    <3> QED
      BY <1>a, <3>1, <3>3, FreshAfter
  <2> QED
    BY <1>a, <2>1, <2>2, FoundCases
<1>1. ASSUME NEW w \in Workers, NEW r, NEW s, Asks(w, r, s) PROVE Fresh'
  <2>1. /\ \A v \in Workers : step[v] = "idle"
        /\ step' = [step EXCEPT ![w] = s] /\ UNCHANGED accountVars
        /\ s \notin {"fill", "store", "password", "role", "session"}
    BY <1>0, <1>1 DEF Asks, Begin, AtRest, InHand
  <2>2. \A u \in Users : cache[u] \in {Absent, rows[u]}
    BY <1>0, <2>1 DEF Fresh
  <2>3. FreshFor(w)' /\ step' = [step EXCEPT ![w] = step'[w]]
    BY <2>1, <2>2 DEF FreshFor, Copies, accountVars, TypeOK
  <2> QED
    BY <2>1, <2>3, FreshAfter DEF Resting
<1>2. ASSUME NEW w \in Workers, RoleStep(w), UNCHANGED <<accountVars, user>>
      PROVE  Fresh'
  <2>1. /\ UNCHANGED <<accountVars, user>> /\ step[w] \in RoleSteps
        /\ step' = [step EXCEPT ![w] = step'[w]] /\ step'[w] \in RoleSteps \cup {"idle"}
    BY <1>2, RoleMoves DEF Leave, Goto, TypeOK
  <2>2. FreshFor(w) /\ Resting(w)
    BY <1>0, <2>1, FreshBefore DEF RoleSteps
  <2>3. FreshFor(w)'
    BY <2>1, <2>2 DEF FreshFor, Copies, accountVars, RoleSteps
  <2> QED
    BY <2>1, <2>2, <2>3, FreshAfter
<1>3. ASSUME NEW w \in Workers, Lookup(w) PROVE Fresh'
  <2>1. step[w] = "lookup" /\ FreshFor(w) /\ Resting(w) /\ UNCHANGED rows
    BY <1>0, <1>3, FreshBefore DEF Lookup
  <2>2. CASE /\ Move(w, "read")
             /\ cache' = [u \in Users |-> IF u \in Sought(w) THEN Absent ELSE cache[u]]
    <3>1. step' = [step EXCEPT ![w] = step'[w]] /\ step'[w] = "read"
      BY <2>2 DEF Move, Goto, TypeOK
    <3>2. FreshFor(w)'
      BY <2>1, <2>2, <3>1 DEF FreshFor, Copies
    <3> QED
      BY <2>1, <3>1, <3>2, FreshAfter
  <2>3. ASSUME NEW u \in Users, NEW st \in Status, Found(w, u, st), cache[u] = st,
               UNCHANGED cache
        PROVE  Fresh'
    <3>1. rows[u] = st /\ \A v \in Users : cache'[v] \in {Absent, rows'[v]}
      BY <2>1, <2>3, AccountsAssumption DEF FreshFor
    <3> QED
      BY <2>1, <2>3, <3>1, <1>a
  <2> QED
    BY <1>3, <2>2, <2>3, LookupCases
<1>4. ASSUME NEW w \in Workers, ReadRow(w) PROVE Fresh'
  <2>1. step[w] = "read" /\ FreshFor(w) /\ Resting(w) /\ UNCHANGED <<rows, cache>>
    BY <1>0, <1>4, FreshBefore DEF ReadRow, accountVars
  <2>2. /\ step' = [step EXCEPT ![w] = step'[w]]
        /\ \/ step'[w] = "fill" /\ user'[w].status = rows[user'[w].id]
           \/ step'[w] \in {"insert", "idle"}
    BY <1>4, ReadCases DEF Hold, Move, End, Goto, Leave, TypeOK
  <2>3. FreshFor(w)'
    BY <2>1, <2>2 DEF FreshFor, Copies
  <2> QED
    BY <2>1, <2>2, <2>3, FreshAfter
<1>5. ASSUME NEW w \in Workers, Fill(w) PROVE Fresh'
  <2>1. /\ step[w] = "fill" /\ UNCHANGED rows
        /\ user[w].id \in Users /\ user[w].status \in Status
        /\ cache' = [cache EXCEPT ![user[w].id] = user[w].status]
        /\ Found(w, user[w].id, user[w].status)
    BY <1>5, FillCases
  <2>2. FreshFor(w) /\ Resting(w)
    BY <1>0, <2>1, FreshBefore
  <2>3. /\ rows[user[w].id] = user[w].status
        /\ \A v \in Users : cache'[v] \in {Absent, rows'[v]}
    BY <2>1, <2>2 DEF FreshFor, Copies, TypeOK
  <2> QED
    BY <2>1, <2>2, <2>3, <1>a
<1>6. ASSUME NEW w \in Workers, UpdateRow(w) PROVE Fresh'
  <2>1. /\ step[w] = "update" /\ FreshFor(w) /\ Resting(w)
        /\ Doing("update", request[w].op, user[w])
    BY <1>0, <1>6, FreshBefore DEF UpdateRow, InHand
  <2>2. step' = [step EXCEPT ![w] = step'[w]]
    BY <1>6 DEF UpdateRow, TypeOK, Move, Goto, End, Leave
  <2>3. FreshFor(w)'
    BY <1>6, <2>1, <2>2 DEF UpdateRow, TypeOK, Move, Goto, End, Leave, accountVars,
       FreshFor, Copies, Doing
  <2> QED
    BY <2>1, <2>2, <2>3, FreshAfter
<1>7. ASSUME NEW w \in Workers, ExistsByEmail(w) PROVE Fresh'
  <2>1. /\ step[w] = "exists" /\ FreshFor(w) /\ Resting(w)
        /\ Doing("exists", request[w].op, user[w])
    BY <1>0, <1>7, FreshBefore DEF ExistsByEmail, InHand
  <2>2. step' = [step EXCEPT ![w] = step'[w]]
    BY <1>7 DEF ExistsByEmail, TypeOK, Move, Goto, End, Leave
  <2>3. FreshFor(w)'
    BY <1>7, <2>1, <2>2 DEF ExistsByEmail, TypeOK, Move, Goto, End, Leave,
       accountVars, FreshFor, Copies, Doing
  <2> QED
    BY <2>1, <2>2, <2>3, FreshAfter
<1>8. ASSUME NEW w \in Workers, InsertUser(w) PROVE Fresh'
  <2>1. step[w] = "insert" /\ FreshFor(w) /\ Resting(w) /\ UNCHANGED cache
    BY <1>0, <1>8, FreshBefore DEF InsertUser
  <2>2. CASE End(w) /\ UNCHANGED rows
    <3>1. step' = [step EXCEPT ![w] = step'[w]] /\ step'[w] = "idle"
      BY <2>2 DEF End, Leave, TypeOK
    <3>2. FreshFor(w)'
      BY <2>1, <2>2, <3>1 DEF FreshFor, Copies
    <3> QED
      BY <2>1, <3>1, <3>2, FreshAfter
  <2>3. ASSUME NEW u \in Users, rows' = [rows EXCEPT ![u] = "active"],
               Hold(w, u, "active", "store")
        PROVE  Fresh'
    <3>1. /\ step' = [step EXCEPT ![w] = step'[w]] /\ step'[w] = "store"
          /\ user'[w].id = u /\ user'[w].status = "active" /\ rows'[u] = "active"
          /\ \A v \in Users : v # u => rows'[v] = rows[v]
      BY <2>3 DEF Hold, Goto, TypeOK
    <3>2. FreshFor(w)'
      BY <2>1, <3>1 DEF FreshFor, Copies
    <3> QED
      BY <2>1, <3>1, <3>2, FreshAfter
  <2> QED
    BY <1>8, <2>2, <2>3 DEF InsertUser, InsertRow
<1>9. ASSUME NEW w \in Workers, SaveUser(w) PROVE Fresh'
  <2>1. /\ step[w] = "save" /\ FreshFor(w) /\ Resting(w)
        /\ Doing("save", request[w].op, user[w])
    BY <1>0, <1>9, FreshBefore DEF SaveUser, InHand
  <2>2. user[w].id \in Users
    BY <2>1 DEF Doing, Holding, User
  <2>3. step' = [step EXCEPT ![w] = step'[w]]
    BY <1>0, <1>9, SavesRow DEF TypeOK, Move, Goto
  <2>4. FreshFor(w)'
    BY <1>0, <1>9, <2>1, <2>2, <2>3, SavesRow DEF SaveUser, TypeOK, Move, Goto, FreshFor,
       Copies, Doing
  <2> QED
    BY <2>1, <2>3, <2>4, FreshAfter
<1>10. ASSUME NEW w \in Workers, StoreUser(w) PROVE Fresh'
  <2>1. /\ step[w] = "store" /\ FreshFor(w) /\ Resting(w)
        /\ Doing("store", request[w].op, user[w])
    BY <1>0, <1>10, FreshBefore DEF StoreUser, InHand
  <2>2. user[w].id \in Users
    BY <2>1 DEF Doing, Holding, User
  <2>3. step' = [step EXCEPT ![w] = step'[w]]
    BY <1>10 DEF StoreUser, TypeOK, Move, Goto, End, Leave, AfterStore
  <2>4. FreshFor(w)'
    BY <1>10, <2>1, <2>2, <2>3 DEF StoreUser, TypeOK, Move, Goto, End, Leave, accountVars,
       Stored, AfterStore, FreshFor, Copies, Doing
  <2> QED
    BY <2>1, <2>3, <2>4, FreshAfter
<1>11. ASSUME NEW w \in Workers, SaveCredential(w) PROVE Fresh'
  <2>1. /\ step[w] = "credential" /\ FreshFor(w) /\ Resting(w)
        /\ Doing("credential", request[w].op, user[w])
    BY <1>0, <1>11, FreshBefore DEF SaveCredential, InHand
  <2>2. step' = [step EXCEPT ![w] = step'[w]]
    BY <1>11 DEF SaveCredential, TypeOK, Move, Goto, End, Leave
  <2>3. FreshFor(w)'
    BY <1>11, <2>1, <2>2 DEF SaveCredential, TypeOK, Move, Goto, End, Leave,
       accountVars, FreshFor, Copies, Doing
  <2> QED
    BY <2>1, <2>2, <2>3, FreshAfter
<1>12. ASSUME NEW w \in Workers, FindWanted(w) PROVE Fresh'
  <2>1. /\ step[w] = "wanted" /\ FreshFor(w) /\ Resting(w)
        /\ Doing("wanted", request[w].op, user[w])
    BY <1>0, <1>12, FreshBefore DEF FindWanted, InHand
  <2>2. step' = [step EXCEPT ![w] = step'[w]]
    BY <1>12 DEF FindWanted, TypeOK, Move, Goto, End, Leave
  <2>3. FreshFor(w)'
    BY <1>12, <2>1, <2>2 DEF FindWanted, TypeOK, Move, Goto, End, Leave, accountVars,
       FreshFor, Copies, Doing
  <2> QED
    BY <2>1, <2>2, <2>3, FreshAfter
<1>13. ASSUME NEW w \in Workers, Assign(w) PROVE Fresh'
  <2>1. /\ step[w] = "assign" /\ FreshFor(w) /\ Resting(w)
        /\ Doing("assign", request[w].op, user[w])
    BY <1>0, <1>13, FreshBefore DEF Assign, InHand
  <2>2. step' = [step EXCEPT ![w] = step'[w]]
    BY <1>13 DEF Assign, TypeOK, Move, Goto, End, Leave
  <2>3. FreshFor(w)'
    BY <1>13, <2>1, <2>2 DEF Assign, TypeOK, Move, Goto, End, Leave, accountVars,
       FreshFor, Copies, Doing
  <2> QED
    BY <2>1, <2>2, <2>3, FreshAfter
<1>14. ASSUME NEW w \in Workers, WithdrawCredential(w) PROVE Fresh'
  <2>1. /\ step[w] = "withdraw" /\ FreshFor(w) /\ Resting(w)
        /\ Doing("withdraw", request[w].op, user[w])
    BY <1>0, <1>14, FreshBefore DEF WithdrawCredential, InHand
  <2>2. step' = [step EXCEPT ![w] = step'[w]]
    BY <1>14 DEF WithdrawCredential, TypeOK, Move, Goto, End, Leave
  <2>3. FreshFor(w)'
    BY <1>14, <2>1, <2>2 DEF WithdrawCredential, TypeOK, Move, Goto, End, Leave,
       accountVars, FreshFor, Copies, Doing
  <2> QED
    BY <2>1, <2>2, <2>3, FreshAfter
<1>15. ASSUME NEW w \in Workers, EvictUser(w) PROVE Fresh'
  <2>1. /\ step[w] = "evict" /\ FreshFor(w) /\ Resting(w)
        /\ Doing("evict", request[w].op, user[w])
    BY <1>0, <1>15, FreshBefore DEF EvictUser, InHand
  <2>2. Deleted(w) \in Users
    BY <2>1, RequestShape DEF Doing, User, Founders, Deleted, Requests, TypeOK, InHand
  <2>3. step' = [step EXCEPT ![w] = step'[w]]
    BY <1>15 DEF EvictUser, TypeOK, Move, Goto, End, Leave
  <2>4. FreshFor(w)'
    BY <1>15, <2>1, <2>2, <2>3 DEF EvictUser, TypeOK, Move, Goto, End, Leave, accountVars,
       FreshFor, Copies, Doing
  <2> QED
    BY <2>1, <2>3, <2>4, FreshAfter
<1>16. ASSUME NEW w \in Workers, DeleteRow(w) PROVE Fresh'
  <2>1. /\ step[w] = "delete" /\ FreshFor(w) /\ Resting(w)
        /\ Doing("delete", request[w].op, user[w]) /\ cache[Deleted(w)] = Absent
    BY <1>0, <1>16, FreshBefore, CalmBefore DEF DeleteRow, InHand, CalmFor, Handles
  <2>2. Deleted(w) \in Users
    BY <2>1, RequestShape DEF Doing, User, Founders, Deleted, Requests, TypeOK, InHand
  <2>3. step' = [step EXCEPT ![w] = step'[w]]
    BY <1>16 DEF DeleteRow, TypeOK, Move, Goto, End, Leave
  <2>4. FreshFor(w)'
    BY <1>16, <2>1, <2>2, <2>3 DEF DeleteRow, TypeOK, Move, Goto, End, Leave, accountVars,
       FreshFor, Copies, Doing
  <2> QED
    BY <2>1, <2>3, <2>4, FreshAfter
<1>17. ASSUME NEW w \in Workers, CheckPassword(w) PROVE Fresh'
  <2>1. /\ step[w] = "password" /\ FreshFor(w) /\ Resting(w)
        /\ Doing("password", request[w].op, user[w])
    BY <1>0, <1>17, FreshBefore DEF CheckPassword, InHand
  <2>2. step' = [step EXCEPT ![w] = step'[w]]
    BY <1>17 DEF CheckPassword, TypeOK, Move, Goto, End, Leave
  <2>3. FreshFor(w)'
    BY <1>17, <2>1, <2>2 DEF CheckPassword, TypeOK, Move, Goto, End, Leave,
       accountVars, FreshFor, Copies, Doing
  <2> QED
    BY <2>1, <2>2, <2>3, FreshAfter
<1>18. ASSUME NEW w \in Workers, FindRoleOfUser(w) PROVE Fresh'
  <2>1. /\ step[w] = "role" /\ FreshFor(w) /\ Resting(w)
        /\ Doing("role", request[w].op, user[w])
    BY <1>0, <1>18, FreshBefore DEF FindRoleOfUser, InHand
  <2>2. step' = [step EXCEPT ![w] = step'[w]]
    BY <1>18 DEF FindRoleOfUser, TypeOK, Move, Goto, End, Leave
  <2>3. FreshFor(w)'
    BY <1>18, <2>1, <2>2 DEF FindRoleOfUser, TypeOK, Move, Goto, End, Leave,
       accountVars, FreshFor, Copies, Doing
  <2> QED
    BY <2>1, <2>2, <2>3, FreshAfter
<1>19. ASSUME NEW w \in Workers, SaveSession(w) PROVE Fresh'
  <2>1. /\ step[w] = "session" /\ FreshFor(w) /\ Resting(w)
        /\ Doing("session", request[w].op, user[w])
    BY <1>0, <1>19, FreshBefore DEF SaveSession, InHand
  <2>2. step' = [step EXCEPT ![w] = step'[w]]
    BY <1>19 DEF SaveSession, TypeOK, Move, Goto, End, Leave
  <2>3. FreshFor(w)'
    BY <1>19, <2>1, <2>2 DEF SaveSession, TypeOK, Move, Goto, End, Leave, accountVars,
       FreshFor, Copies, Doing
  <2> QED
    BY <2>1, <2>2, <2>3, FreshAfter
<1>20. ASSUME NEW w \in Workers, FindSession(w) PROVE Fresh'
  <2>1. /\ step[w] = "find" /\ FreshFor(w) /\ Resting(w)
        /\ Doing("find", request[w].op, user[w])
    BY <1>0, <1>20, FreshBefore DEF FindSession, InHand
  <2>2. step' = [step EXCEPT ![w] = step'[w]]
    BY <1>20 DEF FindSession, TypeOK, Move, Goto, End, Leave
  <2>3. FreshFor(w)'
    BY <1>20, <2>1, <2>2 DEF FindSession, TypeOK, Move, Goto, End, Leave, accountVars,
       FreshFor, Copies, Doing
  <2> QED
    BY <2>1, <2>2, <2>3, FreshAfter
<1>21. ASSUME NEW w \in Workers, SaveRevoked(w) PROVE Fresh'
  <2>1. /\ step[w] = "revoke" /\ FreshFor(w) /\ Resting(w)
        /\ Doing("revoke", request[w].op, user[w])
    BY <1>0, <1>21, FreshBefore DEF SaveRevoked, InHand
  <2>2. step' = [step EXCEPT ![w] = step'[w]]
    BY <1>21 DEF SaveRevoked, TypeOK, Move, Goto, End, Leave, AfterRevoke
  <2>3. FreshFor(w)'
    BY <1>21, <2>1, <2>2 DEF SaveRevoked, TypeOK, Move, Goto, End, Leave, accountVars,
       AfterRevoke, FreshFor, Copies, Doing
  <2> QED
    BY <2>1, <2>2, <2>3, FreshAfter
<1>22. ASSUME NEW w \in Workers, RevokeAllForUser(w) PROVE Fresh'
  <2>1. /\ step[w] = "revoke all" /\ FreshFor(w) /\ Resting(w)
        /\ Doing("revoke all", request[w].op, user[w])
    BY <1>0, <1>22, FreshBefore DEF RevokeAllForUser, InHand
  <2>2. step' = [step EXCEPT ![w] = step'[w]]
    BY <1>22 DEF RevokeAllForUser, TypeOK, Move, Goto, End, Leave
  <2>3. FreshFor(w)'
    BY <1>22, <2>1, <2>2 DEF RevokeAllForUser, TypeOK, Move, Goto, End, Leave,
       accountVars, FreshFor, Copies, Doing
  <2> QED
    BY <2>1, <2>2, <2>3, FreshAfter
<1>23. ASSUME NEW w \in Workers, CacheFails(w) PROVE Fresh'
  <2>1. troubles' = troubles + 1
    BY <1>23 DEF CacheFails, Trouble
  <2> QED
    BY <1>0, <2>1
<1>24. ASSUME NEW w \in Workers, CallFails(w) PROVE Fresh'
  <2>1. troubles' = troubles + 1
    BY <1>24 DEF CallFails, Trouble
  <2> QED
    BY <1>0, <2>1
<1>25. ASSUME NEW w \in Workers, Interrupted(w) PROVE Fresh'
  <2>1. troubles' = troubles + 1
    BY <1>25 DEF Interrupted, Trouble
  <2> QED
    BY <1>0, <2>1
<1>26. CASE UNCHANGED vars
  BY <1>26 DEF vars, accountVars, history, Fresh, Copies
<1> QED
  BY NextIsStep, <1>1, <1>2, <1>3, <1>4, <1>5, <1>6, <1>7, <1>8, <1>9, <1>10, <1>11,
     <1>12, <1>13, <1>14, <1>15, <1>16, <1>17, <1>18, <1>19, <1>20, <1>21, <1>22,
     <1>23, <1>24, <1>25, <1>26 DEF Step, AccountStep

(* The steps of Accounts leave the roles and what was asked of them alone. *)
LEMMA AccountMoves ==
  ASSUME TypeOK, InHand, NEW w \in Workers, AccountStep(w),
         ~(CacheFails(w) \/ CallFails(w) \/ Interrupted(w))
  PROVE  /\ UNCHANGED <<roles, known, asked>>
         /\ step[w] \notin {"idle", "permit"} /\ step'[w] # "permit"
         /\ step' = [step EXCEPT ![w] = step'[w]]
<1> DEFINE Goal == /\ UNCHANGED <<roles, known, asked>>
                   /\ step[w] \notin {"idle", "permit"} /\ step'[w] # "permit"
                   /\ step' = [step EXCEPT ![w] = step'[w]]
<1> USE DEF TypeOK, Move, End, Goto, Leave, roleVars
<1>1. CASE Lookup(w) \/ Fill(w)
  <2>1. /\ step[w] \in {"lookup", "fill"} /\ UNCHANGED roleVars
        /\ Move(w, "read") \/ \E u, st : Found(w, u, st)
    BY <1>1 DEF Lookup, Fill
  <2>2. CASE Move(w, "read")
    BY <2>1, <2>2
  <2>3. CASE End(w)
    BY <2>1, <2>3
  <2>4. ASSUME NEW u, NEW st, NEW n, NEW s, Hold(w, u, n, s), FoundAs(w, st, n, s)
        PROVE  Goal
    BY <2>1, <2>4 DEF Hold, FoundAs
  <2> HIDE DEF Move, End, Goal
  <2>5. Goal
    BY <2>1, <2>2, <2>3, <2>4, FoundCases DEF Goal
  <2> QED
    BY <2>5 DEF Goal
<1>2. CASE ReadRow(w)
  BY <1>2, ReadCases DEF Hold
<1>3. CASE InsertUser(w) \/ SaveUser(w) \/ StoreUser(w) \/ Assign(w)
  BY <1>3 DEF InsertUser, SaveUser, InsertRow, StoreUser, AfterStore, Assign, Hold
<1>4. CASE \/ UpdateRow(w) \/ ExistsByEmail(w) \/ SaveCredential(w) \/ FindWanted(w)
           \/ WithdrawCredential(w) \/ EvictUser(w) \/ DeleteRow(w)
  BY <1>4 DEF UpdateRow, ExistsByEmail, SaveCredential, FindWanted, WithdrawCredential,
              EvictUser, DeleteRow
<1>5. CASE \/ CheckPassword(w) \/ FindRoleOfUser(w) \/ SaveSession(w) \/ FindSession(w)
           \/ SaveRevoked(w) \/ RevokeAllForUser(w)
  BY <1>5 DEF CheckPassword, FindRoleOfUser, SaveSession, FindSession, SaveRevoked,
              AfterRevoke, RevokeAllForUser
<1> QED
  BY <1>1, <1>2, <1>3, <1>4, <1>5 DEF AccountStep

(* Of the roles, what the one worker w that is busy has to see to.         *)
GrantedFor(w) ==
  /\ \A c \in Codes : roles[c] # Absent =>
       roles[c] = asked[c] \/ (step[w] = "permit" /\ Code(w) = c)
  /\ Granting(w)

LEMMA GrantedBefore ==
  ASSUME Calm, Granted, troubles = 0, ~disturbed, NEW w \in Workers, step[w] # "idle"
  PROVE  GrantedFor(w) /\ Resting(w)
<1>1. Resting(w)
  BY CalmBefore
<1> QED
  BY <1>1 DEF Granted, GrantedFor, Resting, Code

LEMMA GrantedAfter ==
  ASSUME TypeOK, NEW w \in Workers, Resting(w), step' = [step EXCEPT ![w] = step'[w]],
         GrantedFor(w)'
  PROVE  Granted'
<1>1. \A v \in Workers : v # w => step'[v] = "idle"
  BY DEF Resting, TypeOK
<1>2. \A v \in Workers : Granting(v)'
  BY <1>1 DEF Granting, GrantedFor
<1> QED
  BY <1>2 DEF Granted, GrantedFor

(* A step without trouble keeps the roles as they were asked for.          *)
LEMMA GrantedStep ==
  TypeOK /\ InHand /\ Calm /\ Untroubled /\ Granted /\ [Next]_vars => Granted'
<1> SUFFICES ASSUME TypeOK, InHand, Calm, Untroubled, Granted, [Next]_vars PROVE Granted'
  OBVIOUS
<1>0. SUFFICES ASSUME troubles = 0, troubles' = 0, ~disturbed, ~disturbed' PROVE Granted'
  BY TroublesStay DEF Granted
<1>1. ASSUME NEW w \in Workers, NEW r, NEW s, Asks(w, r, s) PROVE Granted'
  <2>1. /\ \A v \in Workers : step[v] = "idle"
        /\ step' = [step EXCEPT ![w] = s] /\ UNCHANGED roleVars /\ s # "permit"
    BY <1>0, <1>1 DEF Asks, Begin, AtRest, InHand
  <2>2. \A c \in Codes : roles[c] # Absent => roles[c] = asked[c]
    BY <1>0, <2>1 DEF Granted
  <2>3. GrantedFor(w)' /\ step' = [step EXCEPT ![w] = step'[w]]
    BY <2>1, <2>2 DEF GrantedFor, Granting, roleVars, TypeOK, Code
  <2> QED
    BY <2>1, <2>3, GrantedAfter DEF Resting
<1>2. ASSUME NEW w \in Workers, RoleStep(w), GrantedFor(w)', Resting(w) PROVE Granted'
  <2>1. step' = [step EXCEPT ![w] = step'[w]]
    BY <1>2, RoleMoves DEF Leave, Goto, TypeOK
  <2> QED
    BY <1>2, <2>1, GrantedAfter
<1>a. ASSUME NEW w \in Workers, RoleStep(w) PROVE GrantedFor(w) /\ Resting(w)
  <2>1. step[w] # "idle"
    BY <1>a, RoleMoves DEF RoleSteps
  <2> QED
    BY <1>0, <2>1, GrantedBefore
<1>b. ASSUME NEW w \in Workers,
             step[w] \in {"byCode", "byId", "insert role", "clear", "permit", "remove role"}
      PROVE  /\ Code(w) \in Codes
             /\ step[w] \in {"insert role", "clear", "permit"} =>
                  request[w].permissions \in SUBSET Permissions
  BY <1>b, RequestShape DEF Code, InHand, Doing, TypeOK, Requests
<1>3. ASSUME NEW w \in Workers, FindByCode(w) \/ FindById(w) \/ ListPermissions(w)
      PROVE  Granted'
  <2>1. /\ GrantedFor(w) /\ Resting(w) /\ UNCHANGED roleVars
        /\ step[w] # "permit" /\ step'[w] # "permit"
    BY <1>3, <1>a DEF RoleStep, FindByCode, FindById, ListPermissions, Goto, Leave, TypeOK
  <2>2. GrantedFor(w)'
    BY <2>1 DEF GrantedFor, Granting, roleVars, Code
  <2> QED
    BY <1>2, <1>3, <2>1, <2>2 DEF RoleStep
<1>4. ASSUME NEW w \in Workers, InsertRole(w) \/ ClearPermissions(w) PROVE Granted'
  <2>1. GrantedFor(w) /\ Resting(w) /\ step[w] # "permit" /\ Code(w) \in Codes
    BY <1>4, <1>a, <1>b DEF RoleStep, InsertRole, ClearPermissions
  <2>2. ASSUME Leave(w), UNCHANGED <<roles, asked>> PROVE GrantedFor(w)'
    <3>1. step'[w] = "idle"
      BY <2>2 DEF Leave, TypeOK
    <3> QED
      BY <2>1, <2>2, <3>1 DEF GrantedFor, Granting
  <2>3. ASSUME roles' = [roles EXCEPT ![Code(w)] = {}], asked' = AsAsked(w),
               UNCHANGED known, Goto(w, "permit")
        PROVE  GrantedFor(w)'
    <3>1. step'[w] = "permit" /\ UNCHANGED request
      BY <2>3 DEF Goto, TypeOK
    <3>2. Code(w)' = Code(w)
      BY <3>1 DEF Code
    <3>3. /\ roles'[Code(w)] = {} /\ asked'[Code(w)] = request[w].permissions \cap known
          /\ \A c \in Codes : c # Code(w) => roles'[c] = roles[c] /\ asked'[c] = asked[c]
      BY <2>1, <2>3 DEF AsAsked, TypeOK, RolesTypeOK
    <3>4. Granting(w)'
      BY <2>3, <3>1, <3>2, <3>3 DEF Granting
    <3>5. \A c \in Codes : roles'[c] # Absent =>
            roles'[c] = asked'[c] \/ (step'[w] = "permit" /\ Code(w)' = c)
      BY <2>1, <3>1, <3>2, <3>3 DEF GrantedFor
    <3> QED
      BY <3>4, <3>5 DEF GrantedFor
  <2>4. \/ Leave(w) /\ UNCHANGED <<roles, asked>>
        \/ /\ roles' = [roles EXCEPT ![Code(w)] = {}] /\ asked' = AsAsked(w)
           /\ UNCHANGED known /\ Goto(w, "permit")
    BY <1>4 DEF InsertRole, ClearPermissions, Cleared
  <2>5. GrantedFor(w)'
    BY <2>2, <2>3, <2>4
  <2> QED
    BY <1>2, <1>4, <2>1, <2>5 DEF RoleStep
<1>5. ASSUME NEW w \in Workers, InsertPermissions(w) PROVE Granted'
  <2>1. /\ GrantedFor(w) /\ Resting(w) /\ step[w] = "permit" /\ Code(w) \in Codes
        /\ request[w].permissions \cap known \in SUBSET Permissions
    BY <1>5, <1>a, <1>b DEF RoleStep, InsertPermissions
  <2>2. roles[Code(w)] = {} /\ asked[Code(w)] = request[w].permissions \cap known
    BY <2>1 DEF GrantedFor, Granting, Code
  <2>3. roles[Code(w)] # Absent
    BY <2>2, AccountsAssumption
  <2>4. /\ roles' = [roles EXCEPT ![Code(w)] = asked[Code(w)]]
        /\ UNCHANGED asked /\ step'[w] = "idle"
    BY <1>5, <2>2, <2>3 DEF InsertPermissions, Leave, TypeOK
  <2>5. GrantedFor(w)'
    BY <2>1, <2>4 DEF GrantedFor, Granting, TypeOK, RolesTypeOK, Code
  <2> QED
    BY <1>2, <1>5, <2>1, <2>5 DEF RoleStep
<1>6. ASSUME NEW w \in Workers, RemoveRole(w) PROVE Granted'
  <2>1. /\ GrantedFor(w) /\ Resting(w) /\ step[w] # "permit" /\ Code(w) \in Codes
        /\ step'[w] = "idle"
    BY <1>6, <1>a, <1>b DEF RoleStep, RemoveRole, Leave, TypeOK
  <2>2. \/ UNCHANGED <<roles, asked>>
        \/ /\ roles' = [roles EXCEPT ![Code(w)] = Absent]
           /\ asked' = [asked EXCEPT ![Code(w)] = {}]
    BY <1>6 DEF RemoveRole
  <2>3. GrantedFor(w)'
    BY <2>1, <2>2 DEF GrantedFor, Granting, TypeOK, RolesTypeOK, Code
  <2> QED
    BY <1>2, <1>6, <2>1, <2>3 DEF RoleStep
<1>7. ASSUME NEW w \in Workers, SavePermissions(w) PROVE Granted'
  <2>1. /\ GrantedFor(w) /\ Resting(w) /\ UNCHANGED <<roles, asked>>
        /\ step[w] # "permit" /\ step'[w] = "idle"
    BY <1>7, <1>a DEF RoleStep, SavePermissions, Leave, TypeOK
  <2>2. GrantedFor(w)'
    BY <2>1 DEF GrantedFor, Granting, Code
  <2> QED
    BY <1>2, <1>7, <2>1, <2>2 DEF RoleStep
<1>8. ASSUME NEW w \in Workers, AccountStep(w) PROVE Granted'
  <2>1. ~(CacheFails(w) \/ CallFails(w) \/ Interrupted(w))
    <3>1. troubles' # troubles + 1
      BY <1>0
    <3> QED
      BY <3>1 DEF CacheFails, CallFails, Interrupted, Trouble
  <2>2. /\ UNCHANGED <<roles, known, asked>>
        /\ step[w] \notin {"idle", "permit"} /\ step'[w] # "permit"
        /\ step' = [step EXCEPT ![w] = step'[w]]
    BY <1>8, <2>1, AccountMoves
  <2>3. GrantedFor(w) /\ Resting(w)
    BY <1>0, <2>2, GrantedBefore
  <2>4. GrantedFor(w)'
    BY <2>2, <2>3 DEF GrantedFor, Granting, Code
  <2> QED
    BY <2>2, <2>3, <2>4, GrantedAfter
<1>9. CASE UNCHANGED vars
  BY <1>9 DEF vars, roleVars, history, Granted, Granting, Code
<1> QED
  BY NextIsStep, <1>1, <1>3, <1>4, <1>5, <1>6, <1>7, <1>8, <1>9 DEF Step, RoleStep

-----------------------------------------------------------------------------
LEMMA InitInv == Init => IInv
<1> SUFFICES ASSUME Init PROVE IInv
  OBVIOUS
<1> USE DEF Init, RolesInit
<1>1. TypeOK
  BY AccountsAssumption DEF TypeOK, RolesTypeOK, Assignments, Credentials, AccountSteps
<1>2. InHand /\ Untroubled
  BY DEF InHand, Untroubled
<1>3. Calm
  BY DEF Calm, Alone, Entries, Handles
<1>4. Fresh /\ Granted
  BY DEF Fresh, Copies, Granted, Granting
<1> QED
  BY <1>1, <1>2, <1>3, <1>4 DEF IInv

LEMMA StepInv == IInv /\ [Next]_vars => IInv'
<1> SUFFICES ASSUME IInv, [Next]_vars PROVE IInv'
  OBVIOUS
<1> QED
  BY TypeStep, InHandStep, CalmStep, TroublesStay, FreshStep, GrantedStep DEF IInv

LEMMA IInvAlways == Spec => []IInv
<1> QED
  BY InitInv, StepInv, PTL DEF Spec

(* Every variable has its type, whatever overlaps, fails or is cut off.    *)
THEOREM TypeAlways == Spec => []TypeOK
<1>1. IInv => TypeOK
  BY DEF IInv
<1> QED
  BY <1>1, IInvAlways, PTL

(* Registration is undone or whole (register-user and its compensation):   *)
(* at rest, where no requests overlapped, nothing was cut off and nothing  *)
(* failed that takes a user back, whoever has a row can sign in.           *)
THEOREM RegisteredAlwaysWhole == Spec => []RegisteredWhole
<1>1. ASSUME IInv PROVE RegisteredWhole
  <2> SUFFICES ASSUME AtRest, ~disturbed, NEW u \in Users, rows[u] # Absent PROVE Whole(u)
    BY DEF RegisteredWhole, Known, Whole
  <2>1. \A w \in Workers : step[w] = "idle"
    BY <1>1 DEF IInv, InHand, AtRest
  <2> QED
    BY <1>1, <2>1 DEF IInv, Calm, Registering, Founding
<1> QED
  BY <1>1, IInvAlways, PTL

(* A role grants what its last writer asked for (save of the role and its  *)
(* permissions, one statement at a time): at rest, where nothing overlapped *)
(* and nothing failed.                                                     *)
THEOREM PermissionsAlwaysAsAsked == Spec => []PermissionsAsAsked
<1>1. ASSUME IInv PROVE PermissionsAsAsked
  <2> SUFFICES ASSUME AtRest, troubles = 0, NEW c \in Codes, roles[c] # Absent
               PROVE  roles[c] = asked[c]
    BY DEF PermissionsAsAsked
  <2>1. \A w \in Workers : step[w] = "idle"
    BY <1>1 DEF IInv, InHand, AtRest
  <2> QED
    BY <1>1, <2>1 DEF IInv, Granted
<1> QED
  BY <1>1, IInvAlways, PTL

(* The steps that write a session: a new row, or revoked ones.             *)
LEMMA SessionMoves ==
  ASSUME TypeOK, InHand, [Next]_vars
  PROVE  \A s \in Sessions : sessions[s] # Absent /\ sessions[s].revoked =>
           sessions'[s] = sessions[s]
<1> DEFINE Final == \A s \in Sessions : sessions[s] # Absent /\ sessions[s].revoked =>
                      sessions'[s] = sessions[s]
<1>1. ASSUME UNCHANGED sessions PROVE Final
  BY <1>1
<1>2. ASSUME NEW w \in Workers, SaveSession(w) PROVE Final
  BY <1>2 DEF SaveSession, Opened, TypeOK
<1>3. ASSUME NEW w \in Workers, SaveRevoked(w) PROVE Final
  <2> DEFINE s == request[w].session
  <2>1. s \in Sessions /\ sessions[s] \in Session
    BY <1>3, RequestShape DEF SaveRevoked, InHand, Doing, TypeOK, Requests
  <2>2. sessions' = [sessions EXCEPT ![s] = [@ EXCEPT !.revoked = TRUE]]
    BY <1>3 DEF SaveRevoked, Revoked
  <2>3. sessions[s].revoked => [sessions[s] EXCEPT !.revoked = TRUE] = sessions[s]
    BY <2>1 DEF Session
  <2> QED
    BY <2>1, <2>2, <2>3 DEF TypeOK
<1>4. ASSUME NEW w \in Workers, RevokeAllForUser(w) PROVE Final
  <2>1. ASSUME NEW s \in Sessions, sessions[s] # Absent, sessions[s].revoked
        PROVE  [sessions[s] EXCEPT !.revoked = TRUE] = sessions[s]
    BY <2>1 DEF TypeOK, Session
  <2> QED
    BY <1>4, <2>1 DEF RevokeAllForUser
<1>5. ASSUME NEW w \in Workers, AccountStep(w),
             ~(SaveSession(w) \/ SaveRevoked(w) \/ RevokeAllForUser(w))
      PROVE  UNCHANGED sessions
  BY <1>5 DEF AccountStep, Lookup, ReadRow, Fill, UpdateRow, ExistsByEmail, InsertUser,
              SaveUser, StoreUser, AfterStore, HandleUserDeactivated, SaveCredential,
              FindWanted, Assign, WithdrawCredential, EvictUser, DeleteRow, CheckPassword,
              FindRoleOfUser, FindSession, CacheFails, CallFails, Interrupted, accountVars
<1>6. ASSUME NEW w \in Workers, NEW r, NEW s, Asks(w, r, s) PROVE UNCHANGED sessions
  BY <1>6 DEF Asks, accountVars
<1>7. CASE UNCHANGED vars
  BY <1>7 DEF vars, accountVars
<1>8. Final
  BY NextIsStep, <1>1, <1>2, <1>3, <1>4, <1>5, <1>6, <1>7 DEF Step, accountVars
<1> QED
  BY <1>8

(* A session that was revoked stays so (refresh-token, logout, logout-all):*)
(* the copies that are saved back were read earlier, but only with revoked *)
(* set, whatever overlaps, fails or is cut off.                            *)
THEOREM RevokedAlwaysFinal == Spec => RevokedIsFinal
<1>1. ASSUME IInv, [Next]_vars
      PROVE  [\A s \in Opened : sessions[s].revoked => sessions'[s] = sessions[s]]_vars
  BY <1>1, SessionMoves DEF IInv, Opened
<1> QED
  BY <1>1, IInvAlways, PTL DEF Spec, RevokedIsFinal

(* Nobody signs in who is deactivated or deleted (login, cached users):    *)
(* where nothing overlapped and nothing failed, the entry a sign-in looks  *)
(* at follows the row, and so does the copy it holds until it is done.     *)
THEOREM InactiveAlwaysStaysOut == Spec => InactiveStaysOut
<1>1. ASSUME IInv
      PROVE  [\A w \in Workers :
                troubles = 0 /\ step[w] = "session" /\ step'[w] = "idle"
                  /\ request[w].op = "Login" => rows[user[w].id] = "active"]_vars
  BY <1>1 DEF IInv, Fresh, Copies
<1> QED
  BY <1>1, IInvAlways, PTL DEF Spec, InactiveStaysOut

=============================================================================
