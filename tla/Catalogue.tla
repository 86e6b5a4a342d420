----------------------------- MODULE Catalogue -----------------------------
(***************************************************************************)
(* The seeder (db-seed), run any number of times and by several processes  *)
(* at once, dying anywhere, against the tables that administrators change  *)
(* through the gated routes meanwhile.                                     *)
(*                                                                         *)
(* A seeder action is one statement: each commits by itself.  Of a request *)
(* of an administrator the action is the commit; the guards have let it in *)
(* some time before, on an identity that may have been cached for longer.  *)
(* What else happens inside is in Sessions, RbacCache and RoleWrites.      *)
(***************************************************************************)
EXTENDS Access

CONSTANTS
  Seeders,           \* processes, each of which runs the seeder once and exits
  RoleIds, PermIds,  \* ids, each used for one row only
  Followed,          \* the permissions of the seeded catalogue the instance follows
  Other,             \* any name the seeder does not use
  MaxEdits,          \* bound: how many edits administrators make
  None, Gone         \* an id no row has had yet; an id whose row was deleted

\* permission.seed.ts: the cross product of groups and actions.
Vocabulary ==
  {"user", "role", "permission"} \X {"list", "create", "view", "update", "delete", "restore"}

\* role.seed.ts, user.seed.ts: the names of the roles, and of the accounts.
Baseline == <<"superuser", "admin", "user">>

Names == {Baseline[i] : i \in 1..3}

\* Mutant of Privileged: the catalogue is granted to one role only.
SuperuserAlone == {"superuser"}

Privileged == {"superuser", "admin"}

ASSUME FollowedIsSeeded == Followed \subseteq Vocabulary /\ Followed # {}
ASSUME EditsAreBounded == MaxEdits \in Nat

VARIABLES
  permission,  \* permissions table: the name of each id
  role,        \* roles table: the name of each id
  grants,      \* role_permissions
  account,     \* users table: the last row that has each seeded address
  holds,       \* user_roles, of these rows
  at,          \* where each seeder is
  turn,        \* the position of its loop in Baseline
  todo,        \* what its inner loop has yet to insert
  found,       \* the role id its last look-up returned
  opened,      \* the routes that an identity read so far has opened
  edits,       \* how many edits there have been
  quiet,       \* auxiliary: the seeders since whose start nobody has edited
  dropped      \* auxiliary: the accounts whose seeder ended before assigning the role

tables == <<permission, role, grants, account, holds>>
seeding == <<at, turn, todo, found>>
vars == <<tables, seeding, opened, edits, quiet, dropped>>

EditRoutes == {"updatePermission", "removePermission", "updateRole", "removeRole", "updateUser",
               "removeUser", "changePassword", "register"}

Account == [by : Seeders \cup {None}, live : BOOLEAN, password : {"seeded", "chosen"}]

ASSUME SentinelsAreNoNames ==
  /\ None # Gone
  /\ \A n \in {None, Gone} : n \notin Names /\ n \notin Followed /\ n # Other
  /\ None \notin Account

Resting == {"idle", "done", "failed"}
Places == Resting \cup {"permissions", "insertRole", "selectRole", "selectPermissions", "grant",
                        "selectUser", "insertUser", "selectUserRole", "assign"}

TypeOK ==
  /\ permission \in [PermIds -> Followed \cup {Other, None, Gone}]
  /\ role \in [RoleIds -> Names \cup {Other, None, Gone}]
  /\ grants \subseteq RoleIds \X PermIds
  /\ account \in [Names -> Account \cup {None}]
  /\ holds \subseteq Names \X RoleIds
  /\ at \in [Seeders -> Places]
  /\ turn \in [Seeders -> 1..3]
  /\ todo \in [Seeders -> SUBSET (Followed \cup PermIds)]
  /\ found \in [Seeders -> RoleIds \cup {None}]
  /\ edits \in 0..MaxEdits
  /\ opened \subseteq EditRoutes /\ quiet \subseteq Seeders /\ dropped \subseteq Names

Live(n) == account[n] # None /\ account[n].live

Identity(n) ==
  IF ~Live(n) THEN Nobody
  ELSE LET held == {x \in RoleIds : <<n, x>> \in holds}
       IN  [known |-> TRUE,
            roles |-> {role[x] : x \in held},
            permissions |-> {permission[g[2]] : g \in {h \in grants : h[1] \in held}}]

\* The guards decide on an identity that was read once and may be cached since, and the handler
\* commits later: a route stays open that any identity has opened.
Opened == {route \in EditRoutes : \E n \in Names : Passes(route, Identity(n))}

\* A new database, migrated and empty.
Init ==
  /\ permission = [p \in PermIds |-> None]
  /\ role = [x \in RoleIds |-> None]
  /\ grants = {} /\ holds = {}
  /\ account = [n \in Names |-> None]
  /\ at = [s \in Seeders |-> "idle"]
  /\ turn = [s \in Seeders |-> 1]
  /\ todo = [s \in Seeders |-> {}]
  /\ found = [s \in Seeders |-> None]
  /\ opened = Opened /\ edits = 0 /\ quiet = {} /\ dropped = {}
-----------------------------------------------------------------------------
Existing(table) == {x \in DOMAIN table : table[x] \notin {None, Gone}}

Named(table, n) == {x \in DOMAIN table : table[x] = n}

\* INSERT ... ON CONFLICT DO NOTHING into a table whose names are unique: the
\* tables it can lead to, one for each id that no row has had.
Insert(table, n) ==
  IF Named(table, n) # {} THEN {table}
  ELSE {[table EXCEPT ![x] = n] : x \in Named(table, None)}

Name(s) == Baseline[turn[s]]

Goto(s, place, i) == at' = [at EXCEPT ![s] = place] /\ turn' = [turn EXCEPT ![s] = i]

\* The next iteration of a loop over Baseline, or what comes after the loop.
Continue(s, start, after) ==
  /\ IF turn[s] < 3 THEN Goto(s, start, turn[s] + 1) ELSE Goto(s, after, 1)
  /\ found' = [found EXCEPT ![s] = None]

\* seed(): permissions, then roles, then users.
NextRole(s) == Continue(s, "insertRole", "selectUser")
NextUser(s) == Continue(s, "selectUser", "done")

(***************************************************************************)
(* The process ends with an error: a statement fails, or it dies.          *)
(***************************************************************************)
Fail(s) ==
  /\ Goto(s, "failed", 1)
  /\ todo' = [todo EXCEPT ![s] = {}]
  /\ found' = [found EXCEPT ![s] = None]
  /\ dropped' = IF at[s] \in {"selectUserRole", "assign"} THEN dropped \cup {Name(s)} ELSE dropped
  /\ UNCHANGED <<tables, edits>>

Start(s) ==
  /\ at[s] = "idle"
  /\ Goto(s, "permissions", 1)
  /\ todo' = [todo EXCEPT ![s] = Followed]
  /\ quiet' = quiet \cup {s}
  /\ UNCHANGED <<tables, found, edits, dropped>>

\* seedPermissions, an insert at a time.
InsertPermission(s, n) ==
  /\ at[s] = "permissions" /\ n \in todo[s]
  /\ permission' \in Insert(permission, n)
  /\ todo' = [todo EXCEPT ![s] = @ \ {n}]
  /\ IF todo[s] = {n} THEN Goto(s, "insertRole", 1) ELSE UNCHANGED <<at, turn>>
  /\ UNCHANGED <<role, grants, account, holds, found, edits, quiet, dropped>>

\* Mutant of InsertRole: a role that exists is taken to have its permissions.
InsertMissingRole(s) ==
  /\ at[s] = "insertRole"
  /\ role' \in Insert(role, Name(s))
  /\ IF Name(s) \in Privileged /\ Named(role, Name(s)) = {}
     THEN Goto(s, "selectRole", turn[s]) /\ UNCHANGED found ELSE NextRole(s)
  /\ UNCHANGED <<permission, grants, account, holds, todo, edits, quiet, dropped>>

\* seedRoles.
InsertRole(s) ==
  /\ at[s] = "insertRole"
  /\ role' \in Insert(role, Name(s))
  /\ IF Name(s) \in Privileged THEN Goto(s, "selectRole", turn[s]) /\ UNCHANGED found
     ELSE NextRole(s)
  /\ UNCHANGED <<permission, grants, account, holds, todo, edits, quiet, dropped>>

\* Mutant of LookUp: the name is taken for the id.
LookUpName(s, next) == Goto(s, next, turn[s]) /\ found' = [found EXCEPT ![s] = Name(s)]

LookUp(s, next) ==
  /\ Goto(s, next, turn[s])
  /\ \E x \in Named(role, Name(s)) : found' = [found EXCEPT ![s] = x]

SelectRole(s) ==
  /\ at[s] = "selectRole"
  /\ IF Named(role, Name(s)) = {} THEN NextRole(s) ELSE LookUp(s, "selectPermissions")
  /\ UNCHANGED <<tables, todo, edits, quiet, dropped>>

SelectPermissions(s) ==
  /\ at[s] = "selectPermissions"
  /\ todo' = [todo EXCEPT ![s] = Existing(permission)]
  /\ IF Existing(permission) = {} THEN NextRole(s) ELSE Goto(s, "grant", turn[s]) /\ UNCHANGED found
  /\ UNCHANGED <<tables, edits, quiet, dropped>>

\* The role or the permission may have been deleted since: the foreign key.
Grant(s, p) ==
  /\ at[s] = "grant" /\ p \in todo[s]
  /\ IF role[found[s]] = Gone \/ permission[p] = Gone
     THEN Fail(s) /\ UNCHANGED quiet
     ELSE /\ grants' = grants \cup {<<found[s], p>>}
          /\ todo' = [todo EXCEPT ![s] = @ \ {p}]
          /\ IF todo[s] = {p} THEN NextRole(s) ELSE UNCHANGED <<at, turn, found>>
          /\ UNCHANGED <<permission, role, account, holds, edits, quiet, dropped>>

\* seedUsers.  The look-up does not ask whether the row it finds is deleted.
SelectUser(s) ==
  /\ at[s] = "selectUser"
  /\ IF account[Name(s)] # None THEN NextUser(s)
     ELSE Goto(s, "insertUser", turn[s]) /\ UNCHANGED found
  /\ UNCHANGED <<tables, todo, edits, quiet, dropped>>

SeededBy(s) == [by |-> s, live |-> TRUE, password |-> "seeded"]

\* Mutant of InsertUser: an upsert.
UpsertUser(s) ==
  /\ at[s] = "insertUser"
  /\ account' = [account EXCEPT ![Name(s)] = SeededBy(s)]
  /\ holds' = {h \in holds : h[1] # Name(s)}
  /\ Goto(s, "selectUserRole", turn[s])
  /\ UNCHANGED <<permission, role, grants, todo, found, edits, quiet, dropped>>

\* The address was taken since the look-up: the unique index on live addresses.
InsertUser(s) ==
  /\ at[s] = "insertUser"
  /\ IF Live(Name(s)) THEN Fail(s) /\ UNCHANGED quiet
     ELSE /\ account' = [account EXCEPT ![Name(s)] = SeededBy(s)]
          /\ holds' = {h \in holds : h[1] # Name(s)}
          /\ Goto(s, "selectUserRole", turn[s])
          /\ UNCHANGED <<permission, role, grants, todo, found, edits, quiet, dropped>>

\* Mutant of SelectUserRole: the loop of seedRoles repeated, with its exception.
SelectPrivilegedRole(s) ==
  /\ at[s] = "selectUserRole"
  /\ IF Name(s) \notin Privileged \/ Named(role, Name(s)) = {}
     THEN NextUser(s) ELSE LookUp(s, "assign")
  /\ UNCHANGED <<tables, todo, edits, quiet, dropped>>

SelectUserRole(s) ==
  /\ at[s] = "selectUserRole"
  /\ IF Named(role, Name(s)) = {} THEN NextUser(s) ELSE LookUp(s, "assign")
  /\ UNCHANGED <<tables, todo, edits, quiet, dropped>>

\* Mutant of Assign: the row that has the address now.
AssignByAddress(s) ==
  /\ at[s] = "assign"
  /\ IF role[found[s]] = Gone THEN Fail(s) /\ UNCHANGED quiet
     ELSE /\ holds' = holds \cup {<<Name(s), found[s]>>}
          /\ NextUser(s)
          /\ UNCHANGED <<permission, role, grants, account, todo, edits, quiet, dropped>>

\* The row it inserted, if the address has not been given to another since.
Assign(s) ==
  /\ at[s] = "assign"
  /\ IF role[found[s]] = Gone THEN Fail(s) /\ UNCHANGED quiet
     ELSE /\ holds' = IF account[Name(s)].by = s THEN holds \cup {<<Name(s), found[s]>>} ELSE holds
          /\ NextUser(s)
          /\ UNCHANGED <<permission, role, grants, account, todo, edits, quiet, dropped>>

Crash(s) == at[s] \notin Resting /\ Fail(s) /\ UNCHANGED quiet

Seed(s) ==
  \/ Start(s)
  \/ \E n \in Followed : InsertPermission(s, n)
  \/ InsertRole(s) \/ SelectRole(s) \/ SelectPermissions(s)
  \/ \E p \in PermIds : Grant(s, p)
  \/ SelectUser(s) \/ InsertUser(s) \/ SelectUserRole(s) \/ Assign(s)
  \/ Crash(s)
-----------------------------------------------------------------------------
(***************************************************************************)
(* What administrators and users do, through the routes and their guards.  *)
(***************************************************************************)
Edit(route) ==
  /\ edits < MaxEdits
  /\ route \in opened
  /\ edits' = edits + 1 /\ quiet' = {}
  /\ UNCHANGED <<seeding, dropped>>

Free(table, x, n) == Named(table, n) \subseteq {x}

UpdatePermission(p, n) ==
  /\ Edit("updatePermission") /\ Free(permission, p, n)
  /\ permission' = [permission EXCEPT ![p] = n]
  /\ UNCHANGED <<role, grants, account, holds>>

RemovePermission(p) ==
  /\ Edit("removePermission")
  /\ permission' = [permission EXCEPT ![p] = Gone]
  /\ grants' = {g \in grants : g[2] # p}
  /\ UNCHANGED <<role, account, holds>>

UpdateRole(x, n, list) ==
  /\ Edit("updateRole") /\ Free(role, x, n)
  /\ role' = [role EXCEPT ![x] = n]
  /\ grants' = {g \in grants : g[1] # x} \cup ({x} \X list)
  /\ UNCHANGED <<permission, account, holds>>

RemoveRole(x) ==
  /\ Edit("removeRole")
  /\ role' = [role EXCEPT ![x] = Gone]
  /\ grants' = {g \in grants : g[1] # x}
  /\ holds' = {h \in holds : h[2] # x}
  /\ UNCHANGED <<permission, account>>

UpdateUser(n, list) ==
  /\ Edit("updateUser") /\ Live(n)
  /\ holds' = {h \in holds : h[1] # n} \cup ({n} \X list)
  /\ UNCHANGED <<permission, role, grants, account>>

RemoveUser(n) ==
  /\ Edit("removeUser") /\ Live(n)
  /\ account' = [account EXCEPT ![n].live = FALSE]
  /\ UNCHANGED <<permission, role, grants, holds>>

UpdatePassword(n) ==
  /\ Edit("changePassword") /\ Live(n)
  /\ account' = [account EXCEPT ![n].password = "chosen"]
  /\ UNCHANGED <<permission, role, grants, holds>>

\* Anyone may register an address that is free.
Register(n) ==
  /\ Edit("register") /\ ~Live(n)
  /\ account' = [account EXCEPT ![n] = [by |-> None, live |-> TRUE, password |-> "chosen"]]
  /\ holds' = {h \in holds : h[1] # n}
  /\ UNCHANGED <<permission, role, grants>>

Administer ==
  \/ \E p \in Existing(permission) :
       RemovePermission(p) \/ \E n \in Followed \cup {Other} : UpdatePermission(p, n)
  \/ \E x \in Existing(role) :
       \/ RemoveRole(x)
       \/ \E n \in Names \cup {Other}, list \in SUBSET Existing(permission) : UpdateRole(x, n, list)
  \/ \E n \in Names :
       \/ RemoveUser(n) \/ UpdatePassword(n) \/ Register(n)
       \/ \E list \in SUBSET Existing(role) : UpdateUser(n, list)

Next == /\ Administer \/ \E s \in Seeders : Seed(s)
        /\ opened' = opened \cup Opened'

Spec == Init /\ [][Next]_vars
-----------------------------------------------------------------------------
(***************************************************************************)
(* seed/index.ts:12-18: a run that completes and that no administrator     *)
(* interfered with leaves everything in place, wherever earlier runs died  *)
(* and whatever other seeders run: each seeded permission, the baseline    *)
(* roles, every existing permission granted to the privileged ones, and    *)
(* the addresses of the accounts in use.                                   *)
(***************************************************************************)
CompletedRunCompletes ==
  \A s \in quiet : at[s] = "done" =>
    /\ \A n \in Followed : Named(permission, n) # {}
    /\ \A n \in Names : Named(role, n) # {} /\ account[n] # None
    /\ \A x \in RoleIds, p \in Existing(permission) :
         role[x] \in Privileged => <<x, p>> \in grants

(***************************************************************************)
(* user.seed.ts:10-12, permission.seed.ts:4-7: whenever it is run again,   *)
(* the seeder changes no existing row: no name, no grant or assignment     *)
(* removed, no account or password of an operator rewritten.               *)
(***************************************************************************)
SeederOnlyAdds ==
  [][edits' = edits =>
       /\ \A p \in PermIds : permission[p] # None => permission'[p] = permission[p]
       /\ \A x \in RoleIds : role[x] # None => role'[x] = role[x]
       /\ grants \subseteq grants'
       /\ \A n \in Names : Live(n) => account'[n] = account[n]
       /\ \A h \in holds : Live(h[1]) => h \in holds']_vars

(***************************************************************************)
(* user.seed.ts:13-58: a seeded account is without its role only while its *)
(* seeder is about to assign it, or because that seeder died just then, or *)
(* because an administrator edited something.                              *)
(***************************************************************************)
HoldsOwnRole(n) == \E x \in Named(role, n) : <<n, x>> \in holds

RolelessForCause ==
  \A n \in Names : account[n] # None /\ ~HoldsOwnRole(n) =>
    \/ edits > 0
    \/ n \in dropped
    \/ \E s \in Seeders : at[s] \in {"selectUserRole", "assign"} /\ Name(s) = n

(***************************************************************************)
(* docs/SECURITY.md:50-60: the seeder grants what the guards ask for.  In  *)
(* a seeded database nobody has edited, the accounts holding their roles,  *)
(* every permission a route names is in the vocabulary, the admin passes   *)
(* those gates but no superuser gate, the superuser all, the user none.    *)
(***************************************************************************)
SeededGatesOpen ==
  LET admin == Identity("admin")
      superuser == Identity("superuser")
  IN  /\ edits = 0
      /\ \A n \in Names : HoldsOwnRole(n)
      /\ \E s \in Seeders : at[s] = "done"
      => /\ \A name \in DOMAIN DocumentedPermission :
              LET needed == Declared(Routes[name], "permissions")
              IN  /\ needed \subseteq Vocabulary
                  /\ needed \subseteq Followed => Passes(name, admin)
                  /\ Passes(name, superuser) /\ ~Passes(name, Identity("user"))
         /\ \A name \in DocumentedSuperuser : Passes(name, superuser) /\ ~Passes(name, admin)

(***************************************************************************)
(* user.seed.ts:10-12, 54-58: a run gives a role only to the row that it   *)
(* inserted itself, however the address has changed hands by then: the row *)
(* removed and another seeded by a concurrent run, or registered by anyone.*)
(***************************************************************************)
SeederAssignsOwnRow ==
  [][edits' = edits => \A h \in holds' \ holds :
       \E s \in Seeders : at[s] = "assign" /\ at'[s] # "assign" /\ account[h[1]].by = s]_vars
=============================================================================
