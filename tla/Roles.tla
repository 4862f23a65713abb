-------------------------------- MODULE Roles --------------------------------
(***************************************************************************)
(* Roles, the permissions each of them grants and the role of each user:   *)
(* the requests and the two start hooks that write them.  A role and its   *)
(* permissions are written one statement at a time, in no transaction.     *)
(* Accounts puts the users, their sessions and the requests about them on  *)
(* top; a worker runs one request of either kind.                          *)
(***************************************************************************)
EXTENDS Integers, FiniteSets

CONSTANTS Codes,        \* codes of roles
          Permissions,  \* the permissions the program knows
          Users,        \* ids the table of users may give out
          Workers,      \* requests that may overlap
          MaxTroubles,  \* bound: failed and interrupted requests, and requests
                        \* started in a behaviour that is no longer calm
          Absent        \* no row, no copy, no request

VARIABLES roles,      \* the permission rows of each role that has a row
          known,      \* the rows of the permissions table
          assigned,   \* the role of each user
          asked,      \* history: the permissions the last writer of a role
                      \* asked for, of those that were known
          request,    \* what each worker is asked for
          step,       \* where it is
          disturbed,  \* history: requests overlapped, one was cut off, or
                      \* what should undo a failure failed
          troubles    \* see MaxTroubles

roleVars == <<roles, known, assigned, asked>>
history == <<disturbed, troubles>>

RoleRequests ==
  [op : {"CreateRole", "UpdateRole", "StartRoles"}, code : Codes,
   permissions : SUBSET Permissions]
  \cup [op : {"DeleteRole"}, code : Codes]
  \cup [op : {"StartPermissions"}]
RoleSteps == {"byCode", "byId", "insert role", "clear", "permit", "remove role",
              "list", "save permissions"}

(* The role in each user's row of user_role_assignments, if there is one.   *)
Assignments == [Users -> {Absent} \cup Codes]

RolesTypeOK == /\ roles \in [Codes -> {Absent} \cup SUBSET Permissions]
               /\ known \in SUBSET Permissions
               /\ assigned \in Assignments
               /\ asked \in [Codes -> SUBSET Permissions]
               /\ disturbed \in BOOLEAN
               /\ troubles \in Nat

RolesInit == /\ roles = [c \in Codes |-> Absent]
             /\ known = {}
             /\ assigned = [u \in Users |-> Absent]
             /\ asked = [c \in Codes |-> {}]
             /\ request = [w \in Workers |-> Absent]
             /\ step = [w \in Workers |-> "idle"]
             /\ disturbed = FALSE
             /\ troubles = 0

-----------------------------------------------------------------------------
Goto(w, s) == step' = [step EXCEPT ![w] = s] /\ UNCHANGED request

Leave(w) == /\ request' = [request EXCEPT ![w] = Absent]
            /\ step' = [step EXCEPT ![w] = "idle"]

AtRest == \A w \in Workers : request[w] = Absent

Begin(w, r, s) ==
  /\ request[w] = Absent
  /\ request' = [request EXCEPT ![w] = r]
  /\ step' = [step EXCEPT ![w] = s]
  /\ disturbed' = (disturbed \/ ~AtRest)
  /\ disturbed' => troubles < MaxTroubles
  /\ troubles' = IF disturbed' THEN troubles + 1 ELSE troubles
  /\ UNCHANGED roleVars

Writes(op, c, granted) == [op |-> op, code |-> c, permissions |-> granted]

CreateRole(w, c) ==
  \E granted \in SUBSET Permissions : Begin(w, Writes("CreateRole", c, granted), "byCode")
UpdateRole(w, c) ==
  \E granted \in SUBSET Permissions : Begin(w, Writes("UpdateRole", c, granted), "byId")
DeleteRole(w, c) == Begin(w, [op |-> "DeleteRole", code |-> c], "byId")

(* When the program starts, both hooks run, neither waits for the other.   *)
StartRoles(w, c) == Begin(w, Writes("StartRoles", c, Permissions), "byCode")
StartPermissions(w) == Begin(w, [op |-> "StartPermissions"], "list")

-----------------------------------------------------------------------------
Code(w) == request[w].code

(* A code in lower case is sought as it is and inserted in upper case.     *)
FindByCode(w) ==
  /\ step[w] = "byCode"
  /\ \/ /\ roles[Code(w)] = Absent \/ request[w].op = "CreateRole"
        /\ Goto(w, "insert role")
     \/ /\ roles[Code(w)] # Absent
        /\ IF request[w].op = "StartRoles" THEN Goto(w, "clear") ELSE Leave(w)
  /\ UNCHANGED <<roleVars, history>>

(* Whoever creates a role, the start hook too, creates one that is no      *)
(* system role.                                                            *)
IsSystem(c) == FALSE

FindById(w) ==
  /\ step[w] = "byId"
  /\ IF roles[Code(w)] = Absent \/ IsSystem(Code(w)) THEN Leave(w)
     ELSE Goto(w, IF request[w].op = "DeleteRole" THEN "remove role" ELSE "clear")
  /\ UNCHANGED <<roleVars, history>>

AsAsked(w) == [asked EXCEPT ![Code(w)] = request[w].permissions \cap known]

InsertRole(w) ==
  /\ step[w] = "insert role"
  /\ IF roles[Code(w)] # Absent    \* the code is unique
       THEN Leave(w) /\ UNCHANGED <<roles, asked>>
       ELSE /\ roles' = [roles EXCEPT ![Code(w)] = {}]
            /\ asked' = AsAsked(w)
            /\ Goto(w, "permit")
  /\ UNCHANGED <<known, assigned, history>>

NotCleared(w) == roles    \* mutant: the new permissions join the old ones
Cleared(w) == [roles EXCEPT ![Code(w)] = {}]

ClearPermissions(w) ==
  /\ step[w] = "clear"
  /\ IF roles[Code(w)] = Absent
       THEN Leave(w) /\ UNCHANGED <<roles, asked>>
       ELSE roles' = Cleared(w) /\ asked' = AsAsked(w) /\ Goto(w, "permit")
  /\ UNCHANGED <<known, assigned, history>>

(* Codes the permissions table does not have are passed over.  The rows    *)
(* are inserted together, or not at all when one is there already.         *)
InsertPermissions(w) ==
  /\ step[w] = "permit"
  /\ LET granted == request[w].permissions \cap known
         now == roles[Code(w)]
     IN  roles' = IF now = Absent \/ now \cap granted # {} THEN roles
                  ELSE [roles EXCEPT ![Code(w)] = now \cup granted]
  /\ Leave(w)
  /\ UNCHANGED <<known, assigned, asked, history>>

RemoveRole(w) ==
  /\ step[w] = "remove role"
  /\ IF \E u \in Users : assigned[u] = Code(w)    \* the row is referred to
       THEN UNCHANGED <<roles, asked>>
       ELSE /\ roles' = [roles EXCEPT ![Code(w)] = Absent]
            /\ asked' = [asked EXCEPT ![Code(w)] = {}]
  /\ Leave(w)
  /\ UNCHANGED <<known, assigned, history>>

ListPermissions(w) ==
  /\ step[w] = "list"
  /\ IF known = Permissions THEN Leave(w) ELSE Goto(w, "save permissions")
  /\ UNCHANGED <<roleVars, history>>

SavePermissions(w) ==
  /\ step[w] = "save permissions"
  /\ known' = Permissions
  /\ Leave(w)
  /\ UNCHANGED <<roles, assigned, asked, history>>

RolesNext ==
  \E w \in Workers :
    \/ \E c \in Codes : \/ CreateRole(w, c) \/ UpdateRole(w, c)
                        \/ DeleteRole(w, c) \/ StartRoles(w, c)
    \/ StartPermissions(w)
    \/ FindByCode(w) \/ FindById(w) \/ InsertRole(w) \/ ClearPermissions(w)
    \/ InsertPermissions(w) \/ RemoveRole(w) \/ ListPermissions(w)
    \/ SavePermissions(w)

-----------------------------------------------------------------------------
(* At rest, where nothing overlapped and nothing failed, a role grants     *)
(* what its last writer asked for: an update takes back what it does not   *)
(* name, although it deletes and inserts outside a transaction.            *)
PermissionsAsAsked ==
  AtRest /\ troubles = 0 =>
    \A c \in Codes : roles[c] # Absent => roles[c] = asked[c]

=============================================================================
