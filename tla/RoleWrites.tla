----------------------------- MODULE RoleWrites -----------------------------
(***************************************************************************)
(* The write path of roles, permissions, and users with the roles they are *)
(* assigned, statement by statement: the checks a service makes before its *)
(* transaction, and the transaction as Postgres runs it under READ         *)
(* COMMITTED.  An action is one query of a check, or one row of one        *)
(* statement.  The name of a user is its address.                          *)
(*                                                                         *)
(* What Postgres does is modelled from how the code uses it: a written row *)
(* is locked until the transaction ends; a foreign key takes a shared lock *)
(* on the row it refers to, which a delete or a change of name waits for   *)
(* (and which waits for them; the index of the addresses is partial, and a *)
(* change of address waits for no foreign key); a unique index makes an    *)
(* insert or a change of name wait for an open transaction that adds or    *)
(* removes the same name; a statement sees what was committed when it      *)
(* started, and passes over rows deleted since; of the transactions of a   *)
(* deadlock one is aborted.                                                *)
(***************************************************************************)
EXTENDS FiniteSets

CONSTANTS
  Roles, Perms, Users,  \* ids of roles, permissions and users, each used for one row only
  Names,                \* names of roles and permissions, and addresses
  Requests,             \* the requests, each of which makes one call
  None                  \* no row, no target

VARIABLES
  db,       \* the committed rows: a name, "present" for other rows, or None
  fresh,    \* ids no row has had yet
  mine,     \* the rows an open transaction has written, with their new value
  shared,   \* the rows its foreign keys have locked
  at,       \* where each request is
  call,     \* the operation it asks for
  target,   \* the role, permission or user it is about
  put,      \* the names it is to write, by row
  list,     \* the permissions or roles it was given to assign
  left      \* the rows the current statement has yet to process

vars == <<db, fresh, mine, shared, at, call, target, put, list, left>>
request == <<call, target, put, list>>

Entities == Roles \cup Perms \cup Users
Join == (Roles \X Perms) \cup (Users \X Roles)
Row == Entities \cup Join
Value == Names \cup {"present", None}

\* A row belongs to one table.
ASSUME RowsOfOneTable ==
  /\ Roles \cap Perms = {} /\ Roles \cap Users = {} /\ Perms \cap Users = {}
  /\ Join \cap Entities = {}

Calls == {"createRole", "updateRole", "removeRole", "createPermissions",
          "updatePermission", "removePermission", "createUser", "updateUser"}

ASSUME NoneIsNothing ==
  None \notin Entities \cup Names \cup Calls \cup {"present"}

Before == {"idle", "checkName", "checkList", "checkNames"}
Statements == {"insert", "rewrite", "enter", "scan", "remove", "grant", "refer",
               "strike", "commit"}
Answers == {"done", "rejected", "nameConflict", "serverError"}

TypeOK ==
  /\ db \in [Row -> Value]
  /\ fresh \subseteq Entities
  /\ DOMAIN mine = Requests
  /\ \A r \in Requests : /\ DOMAIN mine[r] \subseteq Row
                          /\ \A x \in DOMAIN mine[r] : mine[r][x] \in Value
  /\ shared \in [Requests -> SUBSET (Roles \cup Perms)]
  /\ at \in [Requests -> Before \cup Statements \cup Answers]
  /\ call \in [Requests -> Calls \cup {None}]
  /\ target \in [Requests -> Entities \cup {None}]
  /\ DOMAIN put = Requests
  /\ \A r \in Requests : /\ DOMAIN put[r] \subseteq Entities
                          /\ \A x \in DOMAIN put[r] : put[r][x] \in Names
  /\ list \in [Requests -> SUBSET (Roles \cup Perms)]
  /\ left \in [Requests -> SUBSET Row]

Nothing == [x \in {} |-> None]

\* The rows a join row refers to exist.
Anchored(state) ==
  \A j \in Join : state[j] # None => state[j[1]] # None /\ state[j[2]] # None

TableOf(x) == CASE x \in Roles -> Roles [] x \in Perms -> Perms [] OTHER -> Users

UniqueNames(state) ==
  \A x \in Entities : \A y \in TableOf(x) \ {x} : state[x] # None => state[x] # state[y]

\* Any tables that the constraints allow.
Stored ==
  /\ \E name \in [Entities -> Names \cup {None}], joins \in SUBSET Join :
       db = [x \in Row |-> CASE x \in Entities -> name[x]
                            [] x \in joins -> "present"
                            [] OTHER -> None]
  /\ Anchored(db) /\ UniqueNames(db)
  /\ fresh = {x \in Entities : db[x] = None}

Init ==
  /\ Stored
  /\ mine = [r \in Requests |-> Nothing]
  /\ shared = [r \in Requests |-> {}]
  /\ left = [r \in Requests |-> {}]
  /\ at = [r \in Requests |-> "idle"]
  /\ call = [r \in Requests |-> None]
  /\ target = [r \in Requests |-> None]
  /\ put = [r \in Requests |-> Nothing]
  /\ list = [r \in Requests |-> {}]
-----------------------------------------------------------------------------
\* A row as transaction r sees it.
Sees(r, x) == IF x \in DOMAIN mine[r] THEN mine[r][x] ELSE db[x]

\* Transaction q changes what an index or a foreign key says of row x.
ChangesKey(q, x) == x \in DOMAIN mine[q] /\ mine[q][x] # db[x]

Others(r) == Requests \ {r}

Writers(r, x) == {q \in Others(r) : x \in DOMAIN mine[q]}

Sharers(r, x) == {q \in Others(r) : x \in shared[q]}

\* An index entry is made after its row is written.
Entered(q, x) == ~(at[q] = "enter" /\ target[q] = x)

\* The open transactions that add or remove the name row x is to have.
NameWriters(r, x) ==
  {q \in Others(r) :
     \E y \in TableOf(x) \ {x} :
       ChangesKey(q, y) /\ (db[y] = put[r][x] \/ (mine[q][y] = put[r][x] /\ Entered(q, y)))}

\* Mutant of NameTaken: the column is not unique, only the checks look.
NameNeverTaken(r, x) == FALSE

NameTaken(r, x) == \E y \in TableOf(x) \ {x} : Sees(r, y) = put[r][x]

Renames(r) == target[r] \in DOMAIN put[r] /\ put[r][target[r]] # db[target[r]]

(***************************************************************************)
(* The transactions whose end request r needs before it can process row x  *)
(* of its current statement.                                               *)
(***************************************************************************)
BlockedOn(r, x) ==
  CASE at[r] \in {"insert", "enter"} -> NameWriters(r, x)
    [] at[r] = "rewrite" -> Writers(r, x) \cup (IF Renames(r) THEN Sharers(r, x) ELSE {})
    [] at[r] = "strike"  -> Writers(r, x) \cup Sharers(r, x)
    [] at[r] = "remove"  -> Writers(r, x)
    [] at[r] = "grant"   -> UNION {Writers(r, <<x, y>>) : y \in list[r]}
    [] at[r] = "refer"   -> {q \in Others(r) : ChangesKey(q, x)}
    [] OTHER -> {}

\* The rows it may process next.
Candidates(r) ==
  CASE at[r] \in {"insert", "remove", "refer"} -> left[r]
    [] at[r] \in {"rewrite", "enter", "strike", "grant"} -> {target[r]}
    [] OTHER -> {}

At(r, place, x) == at[r] = place /\ x \in Candidates(r) /\ BlockedOn(r, x) = {}

Goto(r, place) == at' = [at EXCEPT ![r] = place]

Write(r, x, v) ==
  mine' = [mine EXCEPT ![r] = [y \in DOMAIN mine[r] \cup {x} |->
                                 IF y = x THEN v ELSE mine[r][y]]]

\* The transaction is over: its locks are gone, and so is what it remembered.
Release(r, answer) ==
  /\ Goto(r, answer)
  /\ mine' = [mine EXCEPT ![r] = Nothing]
  /\ shared' = [shared EXCEPT ![r] = {}]
  /\ call' = [call EXCEPT ![r] = None]
  /\ target' = [target EXCEPT ![r] = None]
  /\ put' = [put EXCEPT ![r] = Nothing]
  /\ list' = [list EXCEPT ![r] = {}]
  /\ left' = [left EXCEPT ![r] = {}]
  /\ UNCHANGED fresh

\* Mutant of RollBack: the transaction is left open when a statement fails.
LeaveOpen(r, answer) ==
  /\ Goto(r, answer)
  /\ left' = [left EXCEPT ![r] = {}]
  /\ UNCHANGED <<db, fresh, mine, shared, request>>

\* A statement fails: the transaction rolls back and, no one having caught the
\* driver's error, the request is answered with a 500 whatever the reason.
RollBack(r, answer) == Release(r, answer) /\ UNCHANGED db

\* Row x is processed; after the last one the next statement's place is next.
Processed(r, x, next) ==
  /\ left' = [left EXCEPT ![r] = @ \ {x}]
  /\ Goto(r, IF left[r] \ {x} = {} THEN next ELSE at[r])
-----------------------------------------------------------------------------
(***************************************************************************)
(* A request arrives; each thing it reads before its transaction is a      *)
(* check of its own.                                                       *)
(***************************************************************************)
Named(x, n) == [y \in {x} |-> n]

Arrive(r, what, place, x, names, items) ==
  /\ at[r] = "idle"
  /\ Goto(r, place)
  /\ call' = [call EXCEPT ![r] = what]
  /\ target' = [target EXCEPT ![r] = x]
  /\ put' = [put EXCEPT ![r] = names]
  /\ list' = [list EXCEPT ![r] = items]
  /\ left' = [left EXCEPT ![r] = DOMAIN names \cap fresh]
  /\ fresh' = fresh \ DOMAIN names
  /\ UNCHANGED <<db, mine, shared>>

CreateRole(r, role, n, items) ==
  /\ role \in fresh
  /\ Arrive(r, "createRole", "checkName", role, Named(role, n), items)

UpdateRole(r, role, n, items) ==
  /\ db[role] # None
  /\ Arrive(r, "updateRole", "checkName", role, Named(role, n), items)

\* No look-up: deleting a role that is not there changes nothing.
RemoveRole(r, role) ==
  /\ role \notin fresh
  /\ Arrive(r, "removeRole", "strike", role, Nothing, {})

\* Two of the new rows may have one name: the actions of a request are not
\* checked for repetitions.
CreatePermissions(r, new, names) ==
  /\ new # {} /\ new \subseteq fresh
  /\ Arrive(r, "createPermissions", "checkNames", None, [p \in new |-> names[p]], {})

\* The new name is not looked up.
UpdatePermission(r, p, n) ==
  /\ db[p] # None
  /\ Arrive(r, "updatePermission", "rewrite", p, Named(p, n), {})

RemovePermission(r, p) ==
  /\ db[p] # None
  /\ Arrive(r, "removePermission", "strike", p, Nothing, {})

CreateUser(r, u, n, items) ==
  /\ u \in fresh
  /\ Arrive(r, "createUser", "checkName", u, Named(u, n), items)

UpdateUser(r, u, n, items) ==
  /\ db[u] # None
  /\ Arrive(r, "updateUser", "checkName", u, Named(u, n), items)

\* What a check reads lets the request go on, or refuses it with a 422.
Check(r, place, passes, next) ==
  /\ at[r] = place
  /\ IF passes THEN Goto(r, next) /\ UNCHANGED <<fresh, mine, shared, request, left>>
     ELSE Release(r, "rejected")
  /\ UNCHANGED db

CheckName(r) ==
  Check(r, "checkName",
        \A x \in TableOf(target[r]) \ {target[r]} : db[x] # put[r][target[r]], "checkList")

CheckList(r) ==
  Check(r, "checkList", \A x \in list[r] : db[x] # None,
        IF call[r] \in {"createRole", "createUser"} THEN "insert" ELSE "rewrite")

FindExistingByNames(r) ==
  Check(r, "checkNames",
        \A x \in DOMAIN put[r], y \in Perms : db[y] # put[r][x], "insert")
-----------------------------------------------------------------------------
(***************************************************************************)
(* The statements of the transactions.                                     *)
(***************************************************************************)
AfterRows(r) == IF list[r] = {} THEN "commit" ELSE "grant"

\* INSERT of a role, of a user or of a list of permissions, a row at a time.
Insert(r, x) ==
  /\ At(r, "insert", x)
  /\ IF NameTaken(r, x) THEN RollBack(r, "nameConflict")
     ELSE /\ Write(r, x, put[r][x])
          /\ Processed(r, x, AfterRows(r))
          /\ UNCHANGED <<db, fresh, shared, request>>

(***************************************************************************)
(* UPDATE of the row the request is about: of a role and of a user before  *)
(* their join rows are replaced.  Of a row that is gone it updates nothing.*)
(***************************************************************************)
AfterUpdate(r) == IF call[r] = "updatePermission" THEN "commit" ELSE "scan"

\* Mutant of Rewrite: the join rows are replaced without updating their parent.
RewriteNothing(r) ==
  /\ At(r, "rewrite", target[r])
  /\ Goto(r, AfterUpdate(r))
  /\ UNCHANGED <<db, fresh, mine, shared, request, left>>

Rewrite(r) ==
  LET x == target[r]
  IN  /\ At(r, "rewrite", x)
      /\ IF db[x] = None
         THEN Goto(r, AfterUpdate(r)) /\ UNCHANGED mine
         ELSE /\ Write(r, x, IF Renames(r) THEN put[r][x] ELSE db[x])
              /\ Goto(r, IF Renames(r) THEN "enter" ELSE AfterUpdate(r))
      /\ UNCHANGED <<db, fresh, shared, request, left>>

\* The unique index on the new name.
Enter(r) ==
  /\ At(r, "enter", target[r])
  /\ IF NameTaken(r, target[r]) THEN RollBack(r, "nameConflict")
     ELSE /\ Goto(r, AfterUpdate(r))
          /\ UNCHANGED <<db, fresh, mine, shared, request, left>>

\* Mutant of Strike: the row is only marked, as users are.
StrikeSoftly(r) ==
  /\ At(r, "strike", target[r])
  /\ IF db[target[r]] = None
     THEN Goto(r, "commit") /\ UNCHANGED mine
     ELSE Write(r, target[r], "deleted") /\ Goto(r, "scan")
  /\ UNCHANGED <<db, fresh, shared, request, left>>

\* DELETE of a role or a permission.
Strike(r) ==
  /\ At(r, "strike", target[r])
  /\ IF db[target[r]] = None
     THEN Goto(r, "commit") /\ UNCHANGED mine
     ELSE Write(r, target[r], None) /\ Goto(r, "scan")
  /\ UNCHANGED <<db, fresh, shared, request, left>>

(***************************************************************************)
(* DELETE of join rows: those of the updated role or user, or by cascade   *)
(* those that refer to the deleted row.  First the rows to delete, as the  *)
(* statement's snapshot has them, then each in turn.                       *)
(***************************************************************************)
JoinRows(r) ==
  CASE call[r] \in {"createRole", "updateRole"} -> {target[r]} \X Perms
    [] call[r] \in {"createUser", "updateUser"} -> {target[r]} \X Roles
    [] call[r] = "removePermission" -> Roles \X {target[r]}
    [] OTHER -> ({target[r]} \X Perms) \cup (Users \X {target[r]})

Scan(r) ==
  /\ at[r] = "scan"
  /\ LET found == {j \in JoinRows(r) : Sees(r, j) # None}
     IN  /\ left' = [left EXCEPT ![r] = found]
         /\ Goto(r, IF found = {} THEN AfterRows(r) ELSE "remove")
  /\ UNCHANGED <<db, fresh, mine, shared, request>>

Remove(r, j) ==
  /\ At(r, "remove", j)
  /\ IF db[j] = None THEN UNCHANGED mine ELSE Write(r, j, None)
  /\ Processed(r, j, AfterRows(r))
  /\ UNCHANGED <<db, fresh, shared, request>>

(***************************************************************************)
(* INSERT of the join rows, and then their foreign keys, a row at a time.  *)
(***************************************************************************)
Grant(r) ==
  LET new == {target[r]} \X list[r]
  IN  /\ At(r, "grant", target[r])
      /\ IF \E j \in new : Sees(r, j) # None THEN RollBack(r, "serverError")
         ELSE /\ mine' = [mine EXCEPT ![r] =
                            [x \in DOMAIN mine[r] \cup new |->
                               IF x \in new THEN "present" ELSE mine[r][x]]]
              /\ left' = [left EXCEPT ![r] = list[r]]
              /\ Goto(r, "refer")
              /\ UNCHANGED <<db, fresh, shared, request>>

\* Mutant of Refer: no foreign key, the rows were checked before.
ReferToNothing(r, x) ==
  /\ At(r, "refer", x)
  /\ Processed(r, x, "commit")
  /\ UNCHANGED <<db, fresh, mine, shared, request>>

Refer(r, x) ==
  /\ At(r, "refer", x)
  /\ IF db[x] = None \/ Sees(r, target[r]) = None THEN RollBack(r, "serverError")
     ELSE /\ shared' = [shared EXCEPT ![r] = @ \cup {x}]
          /\ Processed(r, x, "commit")
          /\ UNCHANGED <<db, fresh, mine, request>>

Commit(r) ==
  /\ at[r] = "commit"
  /\ db' = [x \in Row |-> Sees(r, x)]
  /\ Release(r, "done")
-----------------------------------------------------------------------------
(***************************************************************************)
(* Requests none of which can go on until another of them ends.            *)
(***************************************************************************)
Deadlocked(D) ==
  \A r \in D : /\ Candidates(r) # {}
               /\ \A x \in Candidates(r) : BlockedOn(r, x) \cap D # {}

\* Postgres aborts one of them: a 500.
AbortVictim(r) ==
  /\ \E D \in SUBSET Requests : r \in D /\ Deadlocked(D)
  /\ RollBack(r, "serverError")

\* The process dies, or the connection is lost, in a check or a transaction.
Crash(r) ==
  /\ at[r] \notin {"idle"} \cup Answers
  /\ RollBack(r, "serverError")

Calling(r) ==
  \/ \E role \in Roles :
       \/ RemoveRole(r, role)
       \/ \E n \in Names, items \in SUBSET Perms :
            CreateRole(r, role, n, items) \/ UpdateRole(r, role, n, items)
  \/ \E new \in SUBSET Perms, names \in [Perms -> Names] : CreatePermissions(r, new, names)
  \/ \E p \in Perms : RemovePermission(r, p) \/ \E n \in Names : UpdatePermission(r, p, n)
  \/ \E u \in Users, n \in Names, items \in SUBSET Roles :
       CreateUser(r, u, n, items) \/ UpdateUser(r, u, n, items)

Step(r) ==
  \/ CheckName(r) \/ CheckList(r) \/ FindExistingByNames(r)
  \/ \E x \in left[r] : Insert(r, x) \/ Remove(r, x) \/ Refer(r, x)
  \/ Rewrite(r) \/ Enter(r) \/ Strike(r) \/ Scan(r) \/ Grant(r)
  \/ Commit(r)

Next == \E r \in Requests : Calling(r) \/ Step(r) \/ AbortVictim(r) \/ Crash(r)

Spec == Init /\ [][Next]_vars

\* A statement that can go on goes on, and the deadlock detector runs.
FairSpec == Spec /\ \A r \in Requests : WF_vars(Step(r)) /\ WF_vars(AbortVictim(r))
-----------------------------------------------------------------------------
(***************************************************************************)
(* role.repository.ts:266-299, users.service.ts:211-232 and the others:    *)
(* each request takes effect as a whole when it commits.  Two updates of   *)
(* one role never leave a mixture of their lists: the update of the parent *)
(* row comes first, so the second waits for the first to commit.           *)
(***************************************************************************)
Store == INSTANCE RoleStore WITH
           name <- [x \in Entities |-> db[x]],
           grants <- {j \in Roles \X Perms : db[j] # None},
           holds <- {j \in Users \X Roles : db[j] # None}

ImplementsRoleStore == Store!Spec

(***************************************************************************)
(* rbac.schema.ts:12-41, user.schema.ts:59-61: whatever commits between    *)
(* the checks of a request and its transaction, names and addresses stay   *)
(* unique.                                                                 *)
(***************************************************************************)
NamesStayUnique == UniqueNames(db)

(***************************************************************************)
(* rbac.schema.ts:36-74: no committed join row refers to a row that is not *)
(* there; and of the rows of an open transaction, those whose foreign keys *)
(* were checked are still there when it commits.                           *)
(***************************************************************************)
JoinRowsAnchored == Anchored(db)

(***************************************************************************)
(* The order in which transactions take their locks: parent row, its join  *)
(* rows, the rows these refer to.  Transactions wait for each other in a   *)
(* circle only where a role or a permission is deleted (the cascade takes  *)
(* join rows after the row they refer to), where permissions are given two *)
(* lists of names, or where roles, or users, trade names: one is to have   *)
(* the name another is about to give up.  Creating roles and users, and    *)
(* updates that take nobody's name or address never wait in a circle.      *)
(***************************************************************************)
NamesPermissions(r) == call[r] \in {"createPermissions", "updatePermission"}

\* Both update a role, or both a user, and r is to have the name that of q has.
TakesNameOf(r, q) ==
  /\ call[r] \in {"updateRole", "updateUser"} /\ call[q] = call[r]
  /\ put[r][target[r]] = db[target[q]]

DeadlockForCause ==
  \A D \in SUBSET Requests :
    D # {} /\ Deadlocked(D) =>
      \/ \E r \in D : call[r] \in {"removeRole", "removePermission"}
      \/ \E r \in D : NamesPermissions(r) /\ \E q \in D \ {r} : NamesPermissions(q)
      \/ \E r \in D : \E q \in D \ {r} : TakesNameOf(r, q)

(***************************************************************************)
(* Every request is answered: no transaction waits for ever.               *)
(***************************************************************************)
EveryRequestEnds ==
  \A r \in Requests : at[r] \notin {"idle"} \cup Answers ~> at[r] \in Answers
=============================================================================
