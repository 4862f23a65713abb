------------------------------- MODULE Accounts -------------------------------
(***************************************************************************)
(* Users, their cache entries, credentials and sessions: registration in   *)
(* three modules with its compensation, sign-in, the rotation of refresh   *)
(* tokens, signing out, deactivation and its event.  All users of the      *)
(* model have the same e-mail address, so one row exists at a time.        *)
(***************************************************************************)
EXTENDS Roles

CONSTANTS Sessions,   \* ids of sessions
          Default     \* the role of whoever registers

VARIABLES rows,         \* the status in each user's row
          cache,        \* the status in each entry user:<id>
          given,        \* user ids given out
          credentials,  \* users that have a credential row
          sessions,     \* the session rows
          user          \* the user in each worker's hands

accountVars == <<rows, cache, given, credentials, sessions>>
vars == <<roleVars, request, step, history, accountVars, user>>

Status == {"active", "inactive"}
Session == [user : Users, revoked : BOOLEAN]
User == [id : Users, status : Status]    \* of an entity
Credentials == SUBSET Users              \* of one: whose password it holds

AccountRequests ==
  [op : {"Register", "Login", "List"}]
  \cup [op : {"Seed"}, code : Codes]
  \cup [op : {"View", "Edit", "Activate", "Deactivate", "Delete"}, id : Users]
  \cup [op : {"Refresh", "Logout", "LogoutAll"}, session : Sessions]

ASSUME AccountsAssumption ==
  /\ Default \in Codes
  /\ MaxTroubles \in Nat
  /\ Absent \notin Codes \cup Status \cup Session \cup User
  /\ Absent \notin RoleRequests \cup AccountRequests
  /\ \A granted \in SUBSET Permissions : granted # Absent

AccountSteps ==
  {"idle", "exists", "lookup", "read", "fill", "update", "save", "insert", "store",
   "credential", "wanted", "assign", "withdraw", "evict", "delete",
   "password", "role", "session", "find", "revoke", "revoke all"}

TypeOK == /\ RolesTypeOK
          /\ request \in [Workers -> {Absent} \cup RoleRequests \cup AccountRequests]
          /\ step \in [Workers -> RoleSteps \cup AccountSteps]
          /\ rows \in [Users -> {Absent} \cup Status]
          /\ cache \in [Users -> {Absent} \cup Status]
          /\ given \in SUBSET Users
          /\ credentials \in Credentials
          /\ sessions \in [Sessions -> {Absent} \cup Session]
          /\ user \in [Workers -> {Absent} \cup User]

Init == /\ RolesInit
        /\ rows = [u \in Users |-> Absent]
        /\ cache = [u \in Users |-> Absent]
        /\ given = {}
        /\ credentials = {}
        /\ sessions = [s \in Sessions |-> Absent]
        /\ user = [w \in Workers |-> Absent]

Known == {u \in Users : rows[u] # Absent}    \* whose e-mail address is taken
Opened == {s \in Sessions : sessions[s] # Absent}

-----------------------------------------------------------------------------
(* The requests.                                                           *)
Ask(w, r, s) == Begin(w, r, s) /\ UNCHANGED <<accountVars, user>>
About(op, u) == [op |-> op, id |-> u]
With(op, s) == [op |-> op, session |-> s]

RegisterUser(w) == Ask(w, [op |-> "Register"], "exists")
SeedUser(w, c) == Ask(w, [op |-> "Seed", code |-> c], "lookup")
LoginUser(w) == Ask(w, [op |-> "Login"], "lookup")
ListUsers(w) == Ask(w, [op |-> "List"], "lookup")

GetUser(w, u) == Ask(w, About("View", u), "lookup")
ActivateUser(w, u) == Ask(w, About("Activate", u), "lookup")
DeactivateUser(w, u) == Ask(w, About("Deactivate", u), "lookup")
DeleteUser(w, u) == Ask(w, About("Delete", u), "evict")
UpdateUser(w, u) == Ask(w, About("Edit", u), "lookup")
AddAddress(w, u) == Ask(w, About("Edit", u), "lookup")

(* No user has an address the next three could find: see UpdateRow.        *)
UpdateAddress(w, u) == Ask(w, About("View", u), "lookup")
DeleteAddress(w, u) == Ask(w, About("View", u), "lookup")
SetDefaultAddress(w, u) == Ask(w, About("View", u), "lookup")

RefreshToken(w, s) == Ask(w, With("Refresh", s), "find")
Logout(w, s) == Ask(w, With("Logout", s), "find")
LogoutAll(w, s) == Ask(w, With("LogoutAll", s), "revoke all")

-----------------------------------------------------------------------------
Move(w, s) == Goto(w, s) /\ UNCHANGED user
End(w) == Leave(w) /\ user' = [user EXCEPT ![w] = Absent]
Hold(w, u, st, s) == /\ user' = [user EXCEPT ![w] = [id |-> u, status |-> st]]
                     /\ Goto(w, s)

(* CachedUserRepository: findByEmail and findAll take any entry, findById  *)
(* the one of the id.                                                      *)
ByEmail == {"Login", "Seed"}

Sought(w) == CASE request[w].op \in ByEmail \cup {"List"} -> Users
               [] request[w].op = "Refresh" -> {sessions[request[w].session].user}
               [] OTHER -> {request[w].id}

(* What each use case decides about the user it found.                     *)
Deactivated == "inactive"

Found(w, u, st) ==
  LET op == request[w].op
  IN  \/ op \in {"List", "View", "Seed"} /\ End(w)
      \/ op = "Edit" /\ (Hold(w, u, st, "update") \/ End(w))
      \/ op = "Activate" /\ IF st = "active" THEN End(w) ELSE Hold(w, u, "active", "save")
      \/ op = "Deactivate" /\ IF st = "inactive" THEN End(w)
                              ELSE Hold(w, u, Deactivated, "save")
      \/ op = "Login" /\ IF st = "inactive" THEN End(w) ELSE Hold(w, u, st, "password")
      \/ op = "Refresh" /\ Hold(w, u, st, "role")

(* An entry that expires is gone at the latest when it is looked for.      *)
Lookup(w) ==
  /\ step[w] = "lookup"
  /\ \/ \E u \in Sought(w) :
          cache[u] # Absent /\ Found(w, u, cache[u]) /\ UNCHANGED cache
     \/ /\ cache' = [u \in Users |-> IF u \in Sought(w) THEN Absent ELSE cache[u]]
        /\ Move(w, "read")
  /\ UNCHANGED <<roleVars, history, rows, given, credentials, sessions>>

ReadRow(w) ==
  /\ step[w] = "read"
  /\ IF Sought(w) \cap Known # {}
       THEN \E u \in Sought(w) \cap Known : Hold(w, u, rows[u], "fill")
       ELSE IF request[w].op = "Seed" THEN Move(w, "insert") ELSE End(w)
  /\ UNCHANGED <<roleVars, history, accountVars>>

Fill(w) ==
  /\ step[w] = "fill"
  /\ cache' = [cache EXCEPT ![user[w].id] = user[w].status]
  /\ Found(w, user[w].id, user[w].status)
  /\ UNCHANGED <<roleVars, history, rows, given, credentials, sessions>>

(* The update is given the whole entity, its list of addresses included,   *)
(* and the library refuses a list.  Nothing is written, nothing is cached. *)
UpdateRow(w) ==
  /\ step[w] = "update"
  /\ End(w)
  /\ UNCHANGED <<roleVars, history, accountVars>>

-----------------------------------------------------------------------------
ExistsByEmail(w) ==
  /\ step[w] = "exists"
  /\ IF Known # {} THEN End(w) ELSE Move(w, "insert")
  /\ UNCHANGED <<roleVars, history, accountVars>>

(* The address is unique, and the database gives every row its own id.     *)
InsertRow(w, st) ==
  IF Known # {}
    THEN End(w) /\ UNCHANGED <<rows, given>>
    ELSE \E u \in Users \ given : /\ rows' = [rows EXCEPT ![u] = st]
                                  /\ given' = given \cup {u}
                                  /\ Hold(w, u, st, "store")

InsertUser(w) ==
  /\ step[w] = "insert"
  /\ InsertRow(w, "active")
  /\ UNCHANGED <<roleVars, history, cache, credentials, sessions>>

(* A user whose row was deleted since is inserted, as another user.        *)
SaveUser(w) ==
  /\ step[w] = "save"
  /\ \/ /\ user[w].id \in Known
        /\ rows' = [rows EXCEPT ![user[w].id] = user[w].status]
        /\ Move(w, "store")
        /\ UNCHANGED given
     \/ user[w].id \notin Known /\ InsertRow(w, user[w].status)
  /\ UNCHANGED <<roleVars, history, cache, credentials, sessions>>

(* What the listener of user.deactivated, called as the event is emitted,  *)
(* leaves of the sessions.  The use case it calls is not @Injectable: the  *)
(* container hands it no repository, it throws, and the emitter logs that. *)
HandleUserDeactivated(u) == sessions

AfterStore(w) ==
  /\ IF request[w].op \in {"Register", "Seed"} THEN Move(w, "credential") ELSE End(w)
  /\ sessions' = IF request[w].op = "Deactivate" THEN HandleUserDeactivated(user[w].id)
                 ELSE sessions

NotStored(w) == cache    \* mutant: save leaves the entry as it is
Stored(w) == [cache EXCEPT ![user[w].id] = user[w].status]

StoreUser(w) ==
  /\ step[w] = "store"
  /\ cache' = Stored(w)
  /\ AfterStore(w)
  /\ UNCHANGED <<roleVars, history, rows, given, credentials>>

SaveCredential(w) ==
  /\ step[w] = "credential"
  /\ credentials' = credentials \cup {user[w].id}
  /\ Move(w, "wanted")
  /\ UNCHANGED <<roleVars, history, rows, cache, given, sessions>>

Wanted(w) == IF request[w].op = "Seed" THEN Code(w) ELSE Default

FindWanted(w) ==
  /\ step[w] = "wanted"
  /\ Move(w, IF roles[Wanted(w)] = Absent THEN "withdraw" ELSE "assign")
  /\ UNCHANGED <<roleVars, history, accountVars>>

RoleGiven(w) == [assigned EXCEPT ![user[w].id] = Wanted(w)]

Assign(w) ==
  /\ step[w] = "assign"
  /\ IF roles[Wanted(w)] = Absent    \* the row refers to its role
       THEN Move(w, "withdraw") /\ UNCHANGED assigned
       ELSE /\ assigned' = RoleGiven(w)
            /\ End(w)
  /\ UNCHANGED <<roles, known, asked, history, accountVars>>

(* The compensation, and the deletion of a user.                           *)
WithdrawCredential(w) ==
  /\ step[w] = "withdraw"
  /\ credentials' = credentials \ {user[w].id}
  /\ Move(w, "evict")
  /\ UNCHANGED <<roleVars, history, rows, cache, given, sessions>>

Deleted(w) == IF request[w].op = "Delete" THEN request[w].id ELSE user[w].id

EvictUser(w) ==
  /\ step[w] = "evict"
  /\ cache' = [cache EXCEPT ![Deleted(w)] = Absent]
  /\ Move(w, "delete")
  /\ UNCHANGED <<roleVars, history, rows, given, credentials, sessions>>

DeleteRow(w) ==
  /\ step[w] = "delete"
  /\ rows' = [rows EXCEPT ![Deleted(w)] = Absent]
  /\ End(w)
  /\ UNCHANGED <<roleVars, history, cache, given, credentials, sessions>>

-----------------------------------------------------------------------------
CheckPassword(w) ==
  /\ step[w] = "password"
  /\ \/ user[w].id \in credentials /\ Move(w, "role")
     \/ End(w)    \* there is none, or it does not match
  /\ UNCHANGED <<roleVars, history, accountVars>>

HasRole(u) == assigned[u] # Absent

FindRoleOfUser(w) ==
  /\ step[w] = "role"
  /\ IF ~HasRole(user[w].id) THEN End(w) ELSE Move(w, "session")
  /\ UNCHANGED <<roleVars, history, accountVars>>

SaveSession(w) ==
  /\ step[w] = "session"
  /\ \E s \in Sessions \ Opened :
       sessions' = [sessions EXCEPT ![s] = [user |-> user[w].id, revoked |-> FALSE]]
  /\ End(w)
  /\ UNCHANGED <<roleVars, history, rows, cache, given, credentials>>

(* A token that was rotated names a session that is revoked; a session     *)
(* may have expired.                                                       *)
FindSession(w) ==
  /\ step[w] = "find"
  /\ \/ ~sessions[request[w].session].revoked /\ Move(w, "revoke")
     \/ End(w)
  /\ UNCHANGED <<roleVars, history, accountVars>>

AsRead == FALSE    \* mutant: the copy is saved as it was read
Revoked == TRUE

AfterRevoke(w) == IF request[w].op = "Refresh" THEN Move(w, "lookup") ELSE End(w)

SaveRevoked(w) ==
  /\ step[w] = "revoke"
  /\ sessions' = [sessions EXCEPT ![request[w].session].revoked = Revoked]
  /\ AfterRevoke(w)
  /\ UNCHANGED <<roleVars, history, rows, cache, given, credentials>>

RevokeAllForUser(w) ==
  /\ step[w] = "revoke all"
  /\ LET u == sessions[request[w].session].user
     IN  sessions' = [s \in Sessions |->
                        IF s \in Opened /\ sessions[s].user = u
                          THEN [sessions[s] EXCEPT !.revoked = TRUE] ELSE sessions[s]]
  /\ End(w)
  /\ UNCHANGED <<roleVars, history, rows, cache, given, credentials>>

-----------------------------------------------------------------------------
Trouble == troubles < MaxTroubles /\ troubles' = troubles + 1

(* A cache command fails: the repository logs it and goes on.  An entry    *)
(* that cannot be deleted outlives its row.                                *)
CacheFails(w) ==
  /\ Trouble
  /\ disturbed' = (disturbed \/ step[w] = "evict")
  /\ \/ step[w] = "lookup" /\ Move(w, "read") /\ UNCHANGED sessions
     \/ step[w] = "fill" /\ Found(w, user[w].id, user[w].status) /\ UNCHANGED sessions
     \/ step[w] = "store" /\ AfterStore(w)
     \/ step[w] = "evict" /\ Move(w, "delete") /\ UNCHANGED sessions
  /\ UNCHANGED <<roleVars, rows, cache, given, credentials>>

(* Another call fails: a registration takes back what it did, a refresh    *)
(* does not look at what the save of the old session returned, any other   *)
(* request gives up.  The result of the compensation is not looked at.     *)
Forgotten(w) == CASE step[w] = "credential" -> "idle"    \* mutant: the user stays
                  [] step[w] \in {"wanted", "assign"} -> "withdraw"
                  [] step[w] = "withdraw" -> "evict"
                  [] step[w] = "revoke" /\ request[w].op = "Refresh" -> "lookup"
                  [] OTHER -> "idle"
AfterFailure(w) == CASE step[w] = "credential" -> "evict"
                     [] step[w] \in {"wanted", "assign"} -> "withdraw"
                     [] step[w] = "withdraw" -> "evict"
                     [] step[w] = "revoke" /\ request[w].op = "Refresh" -> "lookup"
                     [] OTHER -> "idle"

Compensates(w) == step[w] \in {"withdraw", "delete"} /\ request[w].op # "Delete"

CallFails(w) ==
  /\ step[w] \notin {"idle", "lookup", "fill", "store", "evict"}
  /\ Trouble
  /\ disturbed' = (disturbed \/ Compensates(w))
  /\ IF AfterFailure(w) = "idle" THEN End(w) ELSE Move(w, AfterFailure(w))
  /\ UNCHANGED <<roleVars, accountVars>>

Interrupted(w) ==    \* the process dies
  /\ step[w] # "idle"
  /\ Trouble /\ disturbed' = TRUE
  /\ End(w)
  /\ UNCHANGED <<roleVars, accountVars>>

Next ==
  \/ RolesNext /\ UNCHANGED <<accountVars, user>>
  \/ \E w \in Workers :
       \/ RegisterUser(w) \/ LoginUser(w) \/ ListUsers(w)
       \/ \E c \in Codes : SeedUser(w, c)
       \/ \E u \in given :
            \/ GetUser(w, u) \/ ActivateUser(w, u) \/ DeactivateUser(w, u)
            \/ DeleteUser(w, u) \/ UpdateUser(w, u) \/ AddAddress(w, u)
            \/ UpdateAddress(w, u) \/ DeleteAddress(w, u) \/ SetDefaultAddress(w, u)
       \/ \E s \in Opened : RefreshToken(w, s) \/ Logout(w, s) \/ LogoutAll(w, s)
       \/ Lookup(w) \/ ReadRow(w) \/ Fill(w) \/ UpdateRow(w)
       \/ ExistsByEmail(w) \/ InsertUser(w) \/ SaveUser(w) \/ StoreUser(w)
       \/ SaveCredential(w) \/ FindWanted(w) \/ Assign(w) \/ WithdrawCredential(w)
       \/ EvictUser(w) \/ DeleteRow(w) \/ CheckPassword(w) \/ FindRoleOfUser(w)
       \/ SaveSession(w) \/ FindSession(w) \/ SaveRevoked(w) \/ RevokeAllForUser(w)
       \/ CacheFails(w) \/ CallFails(w) \/ Interrupted(w)

Spec == Init /\ [][Next]_vars

-----------------------------------------------------------------------------
(* A registration is whole or undone: as long as no requests overlap, no   *)
(* process dies and nothing fails while a user is taken back or deleted,   *)
(* whoever has a row can sign in, even if another call of one of the three *)
(* modules or of the cache failed (register-user).                        *)
RegisteredWhole ==
  AtRest /\ ~disturbed =>
    \A u \in Known : u \in credentials /\ assigned[u] # Absent

(* A session that was revoked stays so, whatever overlaps, fails or dies:  *)
(* refresh and logout save the whole copy they read before.                *)
RevokedIsFinal ==
  [][\A s \in Opened : sessions[s].revoked => sessions'[s] = sessions[s]]_vars

(* Where nothing overlapped and nothing failed, nobody signs in who is     *)
(* deactivated or deleted: the entry the sign-in looks at follows the row. *)
InactiveStaysOut ==
  [][\A w \in Workers :
       troubles = 0 /\ step[w] = "session" /\ step'[w] = "idle"
         /\ request[w].op = "Login" => rows[user[w].id] = "active"]_vars

(* Deactivating a user revokes the user's sessions.                        *)
DeactivatedIsSignedOut ==
  AtRest /\ troubles = 0 =>
    \A s \in Opened : rows[sessions[s].user] = "inactive" => sessions[s].revoked

=============================================================================
