--------------------------- MODULE CatalogueProofs ---------------------------
(***************************************************************************)
(* Theorems about Catalogue, for every value of the constants: any number  *)
(* of seeders, ids, followed permissions and edits.  What a seeder that    *)
(* nobody disturbed has put in place so far (Progress) survives the other  *)
(* seeders because none of them changes a row that is there and names are  *)
(* unique.  Unedited is about databases that nobody has edited at all.     *)
(***************************************************************************)
EXTENDS Catalogue, AccessProofs

\* The types: of the tables, of what seeders keep, and of what is counted.
Tables ==
  /\ permission \in [PermIds -> Followed \cup {Other, None, Gone}]
  /\ role \in [RoleIds -> Names \cup {Other, None, Gone}]
  /\ grants \subseteq RoleIds \X PermIds
  /\ account \in [Names -> Account \cup {None}]
  /\ holds \subseteq Names \X RoleIds

Seeding ==
  /\ at \in [Seeders -> Places]
  /\ turn \in [Seeders -> 1..3]
  /\ todo \in [Seeders -> SUBSET (Followed \cup PermIds)]
  /\ found \in [Seeders -> RoleIds \cup {None}]

Counters == edits \in 0..MaxEdits /\ quiet \subseteq Seeders /\ dropped \subseteq Names

Types == Tables /\ Seeding /\ Counters

\* A seeder's next statement has what it needs.
Carries(s) ==
  /\ at[s] \in {"selectPermissions", "grant", "assign"} => found[s] \in RoleIds
  /\ at[s] = "permissions" => todo[s] \subseteq Followed
  /\ at[s] = "grant" => todo[s] \subseteq PermIds

Shape == Types /\ \A s \in Seeders : Carries(s)

\* The unique index on the names of roles.
RoleNamesUnique ==
  \A x, y \in RoleIds : role[x] \in Names /\ role[y] = role[x] => x = y

Seeded == \A n \in Followed : Named(permission, n) # {}

RoleThere(i) == Named(role, Baseline[i]) # {}

Granted(x) == \A p \in Existing(permission) : <<x, p>> \in grants

RoleDone(i) ==
  /\ RoleThere(i)
  /\ Baseline[i] \in Privileged => \A x \in Named(role, Baseline[i]) : Granted(x)

UserDone(i) == account[Baseline[i]] # None

InRoles == {"insertRole", "selectRole", "selectPermissions", "grant"}
InUsers == {"selectUser", "insertUser", "selectUserRole", "assign"}

(***************************************************************************)
(* What a seeder has put in place so far, if nobody has edited anything    *)
(* since it started.                                                       *)
(***************************************************************************)
Progress(s) ==
  /\ at[s] = "permissions" => \A n \in Followed \ todo[s] : Named(permission, n) # {}
  /\ at[s] \in InRoles =>
       Seeded /\ \A i \in 1..3 : i < turn[s] => RoleDone(i)
  /\ at[s] \in {"selectRole", "selectPermissions", "grant"} =>
       RoleThere(turn[s]) /\ Name(s) \in Privileged
  /\ at[s] \in {"selectPermissions", "grant", "assign"} => role[found[s]] = Name(s)
  /\ at[s] = "grant" => \A p \in Existing(permission) : p \in todo[s] \/ <<found[s], p>> \in grants
  /\ at[s] \in InUsers \cup {"done"} =>
       Seeded /\ \A i \in 1..3 : RoleDone(i)
  /\ at[s] \in InUsers => \A i \in 1..3 : i < turn[s] => UserDone(i)
  /\ at[s] \in {"selectUserRole", "assign"} => UserDone(turn[s])
  /\ at[s] = "done" => \A i \in 1..3 : UserDone(i)

(***************************************************************************)
(* A database nobody has edited: whose the accounts are, which roles have  *)
(* grants, and who holds what.                                             *)
(***************************************************************************)
Unedited ==
  edits = 0 =>
    /\ \A s \in Seeders : at[s] # "idle" => s \in quiet
    /\ \A s \in Seeders : at[s] \in {"selectUserRole", "assign"} => account[Name(s)] = SeededBy(s)
    /\ \A n \in Names : account[n] # None => Live(n)
    /\ \A h \in holds : role[h[2]] = h[1]
    /\ \A g \in grants : role[g[1]] \in Privileged

Inv ==
  /\ Shape /\ RoleNamesUnique
  /\ \A s \in quiet : Progress(s)
  /\ Unedited /\ RolelessForCause

-----------------------------------------------------------------------------
(***************************************************************************)
(* What the actions do to the seeder's own state.                          *)
(***************************************************************************)
\* The three names, by position and as a set.
LEMMA Baselines ==
  /\ Baseline[1] = "superuser" /\ Baseline[2] = "admin" /\ Baseline[3] = "user"
  /\ Names = {"superuser", "admin", "user"}
  /\ \A i \in 1..3 : Baseline[i] \in Names
  /\ \A n \in Names : \E i \in 1..3 : n = Baseline[i]
<1>1. Baseline[1] = "superuser" /\ Baseline[2] = "admin" /\ Baseline[3] = "user"
  BY DEF Baseline
<1>2. \A i \in 1..3 : i = 1 \/ i = 2 \/ i = 3
  OBVIOUS
<1>3. 1 \in 1..3 /\ 2 \in 1..3 /\ 3 \in 1..3
  OBVIOUS
<1>4. Names = {"superuser", "admin", "user"}
  BY <1>1, <1>2, <1>3 DEF Names
<1> QED BY <1>1, <1>2, <1>3, <1>4

\* A step of one seeder is a step of no other.
Alone(s) ==
  \A t \in Seeders \ {s} :
    at'[t] = at[t] /\ turn'[t] = turn[t] /\ todo'[t] = todo[t] /\ found'[t] = found[t]

\* Where it is after its step.
At(s, place, i) == at'[s] = place /\ turn'[s] = i

\* After Continue: at the next position, or past the loop.
Onward(s, start, after) ==
  /\ \/ turn[s] \in 1..2 /\ At(s, start, turn[s] + 1)
     \/ turn[s] = 3 /\ At(s, after, 1)
  /\ found'[s] = None

\* A step of one seeder moves no other.
LEMMA Moved ==
  ASSUME Seeding, NEW s \in Seeders, NEW place \in Places, NEW i \in 1..3,
         at' = [at EXCEPT ![s] = place], turn' = [turn EXCEPT ![s] = i]
  PROVE  /\ at' \in [Seeders -> Places] /\ turn' \in [Seeders -> 1..3]
         /\ at'[s] = place /\ turn'[s] = i
         /\ \A t \in Seeders \ {s} : at'[t] = at[t] /\ turn'[t] = turn[t]
BY DEF Seeding

\* What a step leaves alone keeps its type.
LEMMA Staying ==
  ASSUME Seeding, NEW s \in Seeders
  PROVE  /\ turn[s] \in 1..3 /\ Name(s) \in Names
         /\ todo' = todo => todo' \in [Seeders -> SUBSET (Followed \cup PermIds)]
         /\ found' = found => found' \in [Seeders -> RoleIds \cup {None}]
<1>1. turn[s] \in 1..3
  BY DEF Seeding
<1> QED BY <1>1, Baselines DEF Seeding, Name

\* The places, one by one.
LEMMA PlacesAre ==
  Places = {"idle", "done", "failed", "permissions", "insertRole", "selectRole",
            "selectPermissions", "grant", "selectUser", "insertUser", "selectUserRole", "assign"}
BY DEF Places, Resting

\* Going on: at the same position, or at the next one, or to what comes after the loop.
LEMMA GoingOn ==
  ASSUME Seeding, NEW s \in Seeders, NEW place \in Places, Goto(s, place, turn[s])
  PROVE  /\ at' \in [Seeders -> Places] /\ turn' \in [Seeders -> 1..3]
         /\ at'[s] = place /\ turn'[s] = turn[s]
         /\ \A t \in Seeders \ {s} : at'[t] = at[t] /\ turn'[t] = turn[t]
<1>1. PICK i \in 1..3 : i = turn[s]
  BY DEF Seeding
<1>2. at' = [at EXCEPT ![s] = place] /\ turn' = [turn EXCEPT ![s] = i]
  BY <1>1 DEF Goto
<1> QED BY <1>1, <1>2, Moved

\* The next iteration, or what comes after the loop.
LEMMA Continuing ==
  ASSUME Seeding, NEW s \in Seeders, NEW start \in Places, NEW after \in Places,
         Continue(s, start, after)
  PROVE  /\ at' \in [Seeders -> Places] /\ turn' \in [Seeders -> 1..3]
         /\ found' \in [Seeders -> RoleIds \cup {None}]
         /\ Onward(s, start, after)
         /\ \A t \in Seeders \ {s} : at'[t] = at[t] /\ turn'[t] = turn[t] /\ found'[t] = found[t]
<1>1. PICK i \in 1..3 : i = turn[s]
  BY DEF Seeding
<1>2. /\ found' = [found EXCEPT ![s] = None]
      /\ found' \in [Seeders -> RoleIds \cup {None}]
      /\ found'[s] = None
      /\ \A t \in Seeders \ {s} : found'[t] = found[t]
  BY DEF Continue, Seeding
<1>3. CASE i < 3
  <2>1. i + 1 \in 1..3 /\ i \in 1..2
    BY <1>3
  <2>2. at' = [at EXCEPT ![s] = start] /\ turn' = [turn EXCEPT ![s] = i + 1]
    BY <1>1, <1>3 DEF Continue, Goto
  <2>3. PICK j \in 1..3 : j = i + 1
    BY <2>1
  <2>4. turn' = [turn EXCEPT ![s] = j]
    BY <2>2, <2>3
  <2>5. /\ at' \in [Seeders -> Places] /\ turn' \in [Seeders -> 1..3]
        /\ at'[s] = start /\ turn'[s] = j
        /\ \A t \in Seeders \ {s} : at'[t] = at[t] /\ turn'[t] = turn[t]
    BY <2>2, <2>3, <2>4, Moved
  <2>6. Onward(s, start, after)
    BY <1>1, <1>2, <2>1, <2>3, <2>5 DEF Onward, At
  <2> QED BY <1>2, <2>5, <2>6
<1>4. CASE i = 3
  <2>1. at' = [at EXCEPT ![s] = after] /\ turn' = [turn EXCEPT ![s] = 1]
    BY <1>1, <1>4 DEF Continue, Goto
  <2>2. 1 \in 1..3
    OBVIOUS
  <2> QED BY <1>1, <1>2, <1>4, <2>1, <2>2, Moved DEF Onward, At
<1> QED BY <1>3, <1>4

\* A look-up returns the id of a role that has the name.
LEMMA LookingUp ==
  ASSUME Types, Seeding, NEW s \in Seeders, NEW next \in Places, LookUp(s, next)
  PROVE  /\ at' \in [Seeders -> Places] /\ turn' \in [Seeders -> 1..3]
         /\ found' \in [Seeders -> RoleIds \cup {None}]
         /\ at'[s] = next /\ turn'[s] = turn[s]
         /\ found'[s] \in RoleIds /\ role[found'[s]] = Name(s)
         /\ \A t \in Seeders \ {s} : at'[t] = at[t] /\ turn'[t] = turn[t] /\ found'[t] = found[t]
<1>1. Goto(s, next, turn[s])
  BY DEF LookUp
<1>2. PICK x \in Named(role, Name(s)) : found' = [found EXCEPT ![s] = x]
  BY DEF LookUp
<1>3. x \in RoleIds /\ role[x] = Name(s)
  BY DEF Named, Types, Tables
<1>4. /\ found' \in [Seeders -> RoleIds \cup {None}]
      /\ found'[s] = x
      /\ \A t \in Seeders \ {s} : found'[t] = found[t]
  BY <1>2, <1>3 DEF Seeding
<1> QED BY <1>1, <1>3, <1>4, GoingOn

\* A seeder that fails is out.
LEMMA Failing ==
  ASSUME Seeding, NEW s \in Seeders, Fail(s)
  PROVE  Seeding' /\ Alone(s) /\ At(s, "failed", 1)
<1>1. "failed" \in Places /\ 1 \in 1..3
  BY PlacesAre
<1>2. at' = [at EXCEPT ![s] = "failed"] /\ turn' = [turn EXCEPT ![s] = 1]
  BY DEF Fail, Goto
<1>3. todo' = [todo EXCEPT ![s] = {}] /\ found' = [found EXCEPT ![s] = None]
  BY DEF Fail
<1>4. /\ todo' \in [Seeders -> SUBSET (Followed \cup PermIds)]
      /\ found' \in [Seeders -> RoleIds \cup {None}]
      /\ \A t \in Seeders \ {s} : todo'[t] = todo[t] /\ found'[t] = found[t]
  BY <1>3 DEF Seeding
<1> QED BY <1>1, <1>2, <1>4, Moved DEF Seeding, Alone, At

\* A seeder with what it needs is well typed.
LEMMA SeedingKnown ==
  ASSUME Shape
  PROVE  Types /\ Seeding
BY DEF Shape, Types, Seeding

\* It starts with every permission to insert.
LEMMA StartMoves ==
  ASSUME Seeding, NEW s \in Seeders, Start(s)
  PROVE  Seeding' /\ Alone(s) /\ At(s, "permissions", 1) /\ todo'[s] = Followed
<1>1. "permissions" \in Places /\ 1 \in 1..3
  BY PlacesAre
<1>2. at' = [at EXCEPT ![s] = "permissions"] /\ turn' = [turn EXCEPT ![s] = 1]
  BY DEF Start, Goto
<1>3. todo' = [todo EXCEPT ![s] = Followed] /\ found' = found
  BY DEF Start
<1>4. /\ todo' \in [Seeders -> SUBSET (Followed \cup PermIds)]
      /\ found' \in [Seeders -> RoleIds \cup {None}]
      /\ todo'[s] = Followed
      /\ \A t \in Seeders \ {s} : todo'[t] = todo[t] /\ found'[t] = found[t]
  BY <1>3 DEF Seeding
<1> QED BY <1>1, <1>2, <1>4, Moved DEF Seeding, Alone, At

\* One permission less to insert, or on to the roles.
LEMMA InsertPermissionMoves ==
  ASSUME Seeding, NEW s \in Seeders, NEW n, InsertPermission(s, n)
  PROVE  /\ Seeding' /\ Alone(s)
         /\ at[s] = "permissions" /\ n \in todo[s] /\ todo'[s] = todo[s] \ {n}
         /\ \/ todo[s] = {n} /\ At(s, "insertRole", 1)
            \/ At(s, "permissions", turn[s])
<1>1. "insertRole" \in Places /\ 1 \in 1..3
  BY PlacesAre
<1>2. /\ at[s] = "permissions" /\ n \in todo[s]
      /\ todo' = [todo EXCEPT ![s] = @ \ {n}] /\ found' = found
      /\ IF todo[s] = {n} THEN Goto(s, "insertRole", 1) ELSE UNCHANGED <<at, turn>>
  BY DEF InsertPermission
<1>3. /\ todo' \in [Seeders -> SUBSET (Followed \cup PermIds)]
      /\ found' \in [Seeders -> RoleIds \cup {None}]
      /\ todo'[s] = todo[s] \ {n}
      /\ \A t \in Seeders \ {s} : todo'[t] = todo[t] /\ found'[t] = found[t]
  BY <1>2 DEF Seeding
<1>4. CASE todo[s] = {n}
  <2>1. at' = [at EXCEPT ![s] = "insertRole"] /\ turn' = [turn EXCEPT ![s] = 1]
    BY <1>2, <1>4 DEF Goto
  <2> QED BY <1>1, <1>2, <1>3, <1>4, <2>1, Moved DEF Seeding, Alone, At
<1>5. CASE todo[s] # {n}
  BY <1>2, <1>3, <1>5 DEF Seeding, Alone, At
<1> QED BY <1>4, <1>5

\* On to the grants of a privileged role, past those of another.
LEMMA InsertRoleMoves ==
  ASSUME Seeding, NEW s \in Seeders, InsertRole(s)
  PROVE  /\ Seeding' /\ Alone(s) /\ at[s] = "insertRole"
         /\ \/ Name(s) \in Privileged /\ At(s, "selectRole", turn[s])
            \/ Name(s) \notin Privileged /\ Onward(s, "insertRole", "selectUser")
<1>1. {"selectRole", "insertRole", "selectUser"} \subseteq Places
  BY PlacesAre
<1>2. /\ at[s] = "insertRole" /\ todo' = todo
      /\ IF Name(s) \in Privileged THEN Goto(s, "selectRole", turn[s]) /\ UNCHANGED found
         ELSE Continue(s, "insertRole", "selectUser")
  BY DEF InsertRole, NextRole
<1>3. CASE Name(s) \in Privileged
  <2>1. Goto(s, "selectRole", turn[s]) /\ found' = found
    BY <1>2, <1>3
  <2> QED BY <1>1, <1>2, <1>3, <2>1, GoingOn, Staying DEF Seeding, Alone, At
<1>4. CASE Name(s) \notin Privileged
  <2>1. Continue(s, "insertRole", "selectUser")
    BY <1>2, <1>4
  <2> QED BY <1>1, <1>2, <1>4, <2>1, Continuing, Staying DEF Seeding, Alone
<1> QED BY <1>3, <1>4

\* The role it has inserted, or somebody else has.
LEMMA SelectRoleMoves ==
  ASSUME Types, Seeding, NEW s \in Seeders, SelectRole(s)
  PROVE  /\ Seeding' /\ Alone(s) /\ at[s] = "selectRole"
         /\ \/ Named(role, Name(s)) = {} /\ Onward(s, "insertRole", "selectUser")
            \/ /\ At(s, "selectPermissions", turn[s])
               /\ found'[s] \in RoleIds /\ role[found'[s]] = Name(s)
<1>1. {"selectPermissions", "insertRole", "selectUser"} \subseteq Places
  BY PlacesAre
<1>2. /\ at[s] = "selectRole" /\ todo' = todo
      /\ IF Named(role, Name(s)) = {} THEN Continue(s, "insertRole", "selectUser")
         ELSE LookUp(s, "selectPermissions")
  BY DEF SelectRole, NextRole
<1>3. CASE Named(role, Name(s)) = {}
  <2>1. Continue(s, "insertRole", "selectUser")
    BY <1>2, <1>3
  <2> QED BY <1>1, <1>2, <1>3, <2>1, Continuing, Staying DEF Seeding, Alone
<1>4. CASE Named(role, Name(s)) # {}
  <2>1. LookUp(s, "selectPermissions")
    BY <1>2, <1>4
  <2> QED BY <1>1, <1>2, <2>1, LookingUp, Staying DEF Seeding, Alone, At
<1> QED BY <1>3, <1>4

\* Every permission that is there is to be granted.
LEMMA SelectPermissionsMoves ==
  ASSUME Types, Seeding, NEW s \in Seeders, SelectPermissions(s)
  PROVE  /\ Seeding' /\ Alone(s) /\ at[s] = "selectPermissions"
         /\ todo'[s] = Existing(permission) /\ Existing(permission) \subseteq PermIds
         /\ \/ Existing(permission) = {} /\ Onward(s, "insertRole", "selectUser")
            \/ At(s, "grant", turn[s]) /\ found'[s] = found[s]
<1>1. {"grant", "insertRole", "selectUser"} \subseteq Places
  BY PlacesAre
<1>2. /\ at[s] = "selectPermissions" /\ todo' = [todo EXCEPT ![s] = Existing(permission)]
      /\ IF Existing(permission) = {} THEN Continue(s, "insertRole", "selectUser")
         ELSE Goto(s, "grant", turn[s]) /\ UNCHANGED found
  BY DEF SelectPermissions, NextRole
<1>3. PICK E : E = Existing(permission)
  OBVIOUS
<1>4. E \subseteq PermIds
  BY <1>3 DEF Existing, Types, Tables
<1>5. /\ todo' \in [Seeders -> SUBSET (Followed \cup PermIds)]
      /\ todo'[s] = E
      /\ \A t \in Seeders \ {s} : todo'[t] = todo[t]
  BY <1>2, <1>3, <1>4 DEF Seeding
<1>6. CASE E = {}
  <2>1. Continue(s, "insertRole", "selectUser")
    BY <1>2, <1>3, <1>6
  <2> QED BY <1>1, <1>2, <1>3, <1>4, <1>5, <1>6, <2>1, Continuing DEF Seeding, Alone
<1>7. CASE E # {}
  <2>1. Goto(s, "grant", turn[s]) /\ found' = found
    BY <1>2, <1>3, <1>7
  <2> QED BY <1>1, <1>2, <1>3, <1>4, <1>5, <2>1, GoingOn, Staying DEF Seeding, Alone, At
<1> QED BY <1>6, <1>7

\* A grant, unless a row it needs is gone.
LEMMA GrantMoves ==
  ASSUME Seeding, NEW s \in Seeders, NEW p, Grant(s, p)
  PROVE  /\ Seeding' /\ Alone(s) /\ at[s] = "grant" /\ p \in todo[s]
         /\ \/ At(s, "failed", 1) /\ Fail(s)
            \/ /\ role[found[s]] # Gone /\ permission[p] # Gone
               /\ grants' = grants \cup {<<found[s], p>>}
               /\ UNCHANGED <<permission, role, account, holds, edits, quiet, dropped>>
               /\ \/ todo[s] = {p} /\ Onward(s, "insertRole", "selectUser")
                  \/ /\ At(s, "grant", turn[s]) /\ found'[s] = found[s]
                     /\ todo'[s] = todo[s] \ {p}
<1>1. {"insertRole", "selectUser"} \subseteq Places
  BY PlacesAre
<1>2. CASE role[found[s]] = Gone \/ permission[p] = Gone
  <2>1. at[s] = "grant" /\ p \in todo[s] /\ Fail(s)
    BY <1>2 DEF Grant
  <2> QED BY <2>1, Failing
<1>3. CASE ~(role[found[s]] = Gone \/ permission[p] = Gone)
  <2>1. /\ at[s] = "grant" /\ p \in todo[s]
        /\ grants' = grants \cup {<<found[s], p>>}
        /\ todo' = [todo EXCEPT ![s] = @ \ {p}]
        /\ IF todo[s] = {p} THEN Continue(s, "insertRole", "selectUser")
           ELSE UNCHANGED <<at, turn, found>>
        /\ UNCHANGED <<permission, role, account, holds, edits, quiet, dropped>>
    BY <1>3 DEF Grant, NextRole
  <2>2. /\ todo' \in [Seeders -> SUBSET (Followed \cup PermIds)]
        /\ todo'[s] = todo[s] \ {p}
        /\ \A t \in Seeders \ {s} : todo'[t] = todo[t]
    BY <2>1 DEF Seeding
  <2>3. CASE todo[s] = {p}
    <3>1. Continue(s, "insertRole", "selectUser")
      BY <2>1, <2>3
    <3>2. /\ Onward(s, "insertRole", "selectUser") /\ Seeding' /\ Alone(s)
      BY <1>1, <2>2, <3>1, Continuing DEF Seeding, Alone
    <3> QED BY <1>3, <2>1, <2>3, <3>2
  <2>4. CASE todo[s] # {p}
    <3>1. UNCHANGED <<at, turn, found>>
      BY <2>1, <2>4
    <3>2. Seeding' /\ Alone(s) /\ At(s, "grant", turn[s]) /\ found'[s] = found[s]
      BY <2>1, <2>2, <3>1 DEF Seeding, Alone, At
    <3> QED BY <1>3, <2>1, <2>2, <3>2
  <2> QED BY <2>3, <2>4
<1> QED BY <1>2, <1>3

\* An account that is there is passed over.
LEMMA SelectUserMoves ==
  ASSUME Seeding, NEW s \in Seeders, SelectUser(s)
  PROVE  /\ Seeding' /\ Alone(s) /\ at[s] = "selectUser"
         /\ \/ account[Name(s)] # None /\ Onward(s, "selectUser", "done")
            \/ At(s, "insertUser", turn[s])
<1>1. {"insertUser", "selectUser", "done"} \subseteq Places
  BY PlacesAre
<1>2. /\ at[s] = "selectUser" /\ todo' = todo
      /\ IF account[Name(s)] # None THEN Continue(s, "selectUser", "done")
         ELSE Goto(s, "insertUser", turn[s]) /\ UNCHANGED found
  BY DEF SelectUser, NextUser
<1>3. CASE account[Name(s)] # None
  <2>1. Continue(s, "selectUser", "done")
    BY <1>2, <1>3
  <2> QED BY <1>1, <1>2, <1>3, <2>1, Continuing, Staying DEF Seeding, Alone
<1>4. CASE account[Name(s)] = None
  <2>1. Goto(s, "insertUser", turn[s]) /\ found' = found
    BY <1>2, <1>4
  <2> QED BY <1>1, <1>2, <2>1, GoingOn, Staying DEF Seeding, Alone, At
<1> QED BY <1>3, <1>4

\* A new row, unless the address was taken meanwhile.
LEMMA InsertUserMoves ==
  ASSUME Seeding, NEW s \in Seeders, InsertUser(s)
  PROVE  /\ Seeding' /\ Alone(s) /\ at[s] = "insertUser"
         /\ \/ At(s, "failed", 1) /\ Fail(s)
            \/ /\ ~Live(Name(s)) /\ At(s, "selectUserRole", turn[s])
               /\ account' = [account EXCEPT ![Name(s)] = SeededBy(s)]
               /\ holds' = {h \in holds : h[1] # Name(s)}
               /\ UNCHANGED <<permission, role, grants, edits, quiet, dropped>>
<1>1. "selectUserRole" \in Places
  BY PlacesAre
<1>2. CASE Live(Name(s))
  <2>1. at[s] = "insertUser" /\ Fail(s)
    BY <1>2 DEF InsertUser
  <2> QED BY <2>1, Failing
<1>3. CASE ~Live(Name(s))
  <2>1. /\ at[s] = "insertUser"
        /\ account' = [account EXCEPT ![Name(s)] = SeededBy(s)]
        /\ holds' = {h \in holds : h[1] # Name(s)}
        /\ Goto(s, "selectUserRole", turn[s])
        /\ UNCHANGED <<permission, role, grants, todo, found, edits, quiet, dropped>>
    BY <1>3 DEF InsertUser
  <2>2. Seeding' /\ Alone(s) /\ At(s, "selectUserRole", turn[s])
    BY <1>1, <2>1, GoingOn, Staying DEF Seeding, Alone, At
  <2> QED BY <1>3, <2>1, <2>2
<1> QED BY <1>2, <1>3

\* The role the account is to hold.
LEMMA SelectUserRoleMoves ==
  ASSUME Types, Seeding, NEW s \in Seeders, SelectUserRole(s)
  PROVE  /\ Seeding' /\ Alone(s) /\ at[s] = "selectUserRole"
         /\ \/ Named(role, Name(s)) = {} /\ Onward(s, "selectUser", "done")
            \/ /\ At(s, "assign", turn[s])
               /\ found'[s] \in RoleIds /\ role[found'[s]] = Name(s)
<1>1. {"assign", "selectUser", "done"} \subseteq Places
  BY PlacesAre
<1>2. /\ at[s] = "selectUserRole" /\ todo' = todo
      /\ IF Named(role, Name(s)) = {} THEN Continue(s, "selectUser", "done")
         ELSE LookUp(s, "assign")
  BY DEF SelectUserRole, NextUser
<1>3. CASE Named(role, Name(s)) = {}
  <2>1. Continue(s, "selectUser", "done")
    BY <1>2, <1>3
  <2> QED BY <1>1, <1>2, <1>3, <2>1, Continuing, Staying DEF Seeding, Alone
<1>4. CASE Named(role, Name(s)) # {}
  <2>1. LookUp(s, "assign")
    BY <1>2, <1>4
  <2> QED BY <1>1, <1>2, <2>1, LookingUp, Staying DEF Seeding, Alone, At
<1> QED BY <1>3, <1>4

\* The assignment, to the row it inserted.
LEMMA AssignMoves ==
  ASSUME Seeding, NEW s \in Seeders, Assign(s)
  PROVE  /\ Seeding' /\ Alone(s) /\ at[s] = "assign"
         /\ \/ At(s, "failed", 1) /\ Fail(s)
            \/ /\ Onward(s, "selectUser", "done")
               /\ holds' = IF account[Name(s)].by = s THEN holds \cup {<<Name(s), found[s]>>}
                           ELSE holds
               /\ UNCHANGED <<permission, role, grants, account, edits, quiet, dropped>>
<1>1. {"selectUser", "done"} \subseteq Places
  BY PlacesAre
<1>2. CASE role[found[s]] = Gone
  <2>1. at[s] = "assign" /\ Fail(s)
    BY <1>2 DEF Assign
  <2> QED BY <2>1, Failing
<1>3. CASE role[found[s]] # Gone
  <2>1. /\ at[s] = "assign" /\ Continue(s, "selectUser", "done") /\ todo' = todo
        /\ holds' = IF account[Name(s)].by = s THEN holds \cup {<<Name(s), found[s]>>} ELSE holds
        /\ UNCHANGED <<permission, role, grants, account, edits, quiet, dropped>>
    BY <1>3 DEF Assign, NextUser
  <2>2. Seeding' /\ Alone(s) /\ Onward(s, "selectUser", "done")
    BY <1>1, <2>1, Continuing, Staying DEF Seeding, Alone
  <2> QED BY <2>1, <2>2
<1> QED BY <1>2, <1>3

-----------------------------------------------------------------------------
(***************************************************************************)
(* What a seeder may do to the tables, and what stays true meanwhile.      *)
(***************************************************************************)
\* What a seeder may do to the tables: no row that is there changes, names stay unique.
Adds(table, table2, names) ==
  /\ \A x \in DOMAIN table : table[x] # None => table2[x] = table[x]
  /\ \A x \in DOMAIN table : table[x] = None =>
       \/ table2[x] = None
       \/ /\ table2[x] \in names /\ Named(table, table2[x]) = {}
          /\ \A y \in DOMAIN table : y # x => table2[y] = table[y]

\* What a step of a seeder does to the tables at most.
Grows ==
  /\ Adds(permission, permission', Followed) /\ Adds(role, role', Names)
  /\ grants \subseteq grants'
  /\ \A n \in Names : account[n] # None => account'[n] # None
  /\ edits' = edits

\* An absent row and a deleted one have no name.
LEMMA Sentinels ==
  /\ None # Gone /\ None \notin Names /\ Gone \notin Names
  /\ None \notin Followed /\ Gone \notin Followed /\ Other # None /\ Other # Gone
  /\ None \notin Account
BY SentinelsAreNoNames

\* An insertion takes an unused id, and no name that is taken.
LEMMA InsertAdds ==
  ASSUME NEW D, NEW V, NEW table \in [D -> V], NEW names, names \subseteq V, NEW n \in names,
         NEW table2 \in Insert(table, n), None \notin names
  PROVE  table2 \in [D -> V] /\ Adds(table, table2, names)
<1>1. CASE Named(table, n) # {}
  <2>1. table2 = table
    BY <1>1 DEF Insert
  <2> QED BY <1>1, <2>1 DEF Adds
<1>2. CASE Named(table, n) = {}
  <2>1. PICK x \in Named(table, None) : table2 = [table EXCEPT ![x] = n]
    BY <1>2 DEF Insert
  <2>2. x \in D /\ table[x] = None
    BY DEF Named
  <2>3. table2 \in [D -> V] /\ table2[x] = n /\ \A y \in D : y # x => table2[y] = table[y]
    BY <2>1, <2>2
  <2>4. Adds(table, table2, names)
    <3>1. \A y \in D : table[y] # None => table2[y] = table[y]
      BY <2>2, <2>3
    <3>2. ASSUME NEW y \in D, table[y] = None
          PROVE  \/ table2[y] = None
                 \/ /\ table2[y] \in names /\ Named(table, table2[y]) = {}
                    /\ \A z \in D : z # y => table2[z] = table[z]
      <4>1. CASE y = x
        BY <1>2, <2>3, <4>1
      <4>2. CASE y # x
        BY <2>3, <3>2, <4>2
      <4> QED BY <4>1, <4>2
    <3> QED BY <3>1, <3>2 DEF Adds
  <2> QED BY <2>3, <2>4
<1> QED BY <1>1, <1>2

\* After it the name is there.
LEMMA Inserted ==
  ASSUME NEW D, NEW V, NEW table \in [D -> V], NEW n \in V, NEW table2 \in Insert(table, n)
  PROVE  Named(table2, n) # {}
<1>1. CASE Named(table, n) # {}
  BY <1>1 DEF Insert
<1>2. CASE Named(table, n) = {}
  <2>1. PICK x \in Named(table, None) : table2 = [table EXCEPT ![x] = n]
    BY <1>2 DEF Insert
  <2>2. x \in D
    BY DEF Named
  <2>3. table2[x] = n /\ x \in DOMAIN table2
    BY <2>1, <2>2
  <2> QED BY <2>3 DEF Named
<1> QED BY <1>1, <1>2

\* While each followed permission has its row, no seeder inserts another.
LEMMA PermissionsStay ==
  ASSUME Types, Types', Grows, Seeded
  PROVE  permission' = permission
<1>1. SUFFICES ASSUME NEW p \in PermIds
               PROVE  permission'[p] = permission[p]
  BY DEF Types, Tables
<1>2. DOMAIN permission = PermIds
  BY DEF Types, Tables
<1>3. PICK b : b = permission'[p]
  OBVIOUS
<1>4. CASE permission[p] # None
  BY <1>2, <1>4 DEF Grows, Adds
<1>5. CASE permission[p] = None
  <2>1. b = None \/ (b \in Followed /\ Named(permission, b) = {})
    BY <1>2, <1>3, <1>5 DEF Grows, Adds
  <2> QED BY <1>3, <1>5, <2>1 DEF Seeded
<1> QED BY <1>4, <1>5

\* A name that a row has keeps it, and no other row gets it.
LEMMA RolesStay ==
  ASSUME Types, Types', Grows, NEW n \in Names, Named(role, n) # {}
  PROVE  Named(role, n)' = Named(role, n)
<1>1. DOMAIN role = RoleIds /\ DOMAIN role' = RoleIds /\ n # None
  BY Sentinels DEF Types, Tables
<1>2. ASSUME NEW x \in RoleIds
      PROVE  role'[x] = n <=> role[x] = n
  <2>1. CASE role[x] # None
    BY <1>1, <2>1 DEF Grows, Adds
  <2>2. CASE role[x] = None
    BY <1>1, <2>2 DEF Grows, Adds
  <2> QED BY <2>1, <2>2
<1> QED BY <1>1, <1>2 DEF Named

\* The name of a role that is there stays.
LEMMA RowsStay ==
  ASSUME Types, Grows, NEW x \in RoleIds, role[x] # None
  PROVE  role'[x] = role[x]
BY DEF Types, Tables, Grows, Adds

\* Names stay unique.
LEMMA UniqueStays ==
  ASSUME Types, Types', Grows, RoleNamesUnique
  PROVE  RoleNamesUnique'
<1>1. SUFFICES ASSUME NEW x \in RoleIds, NEW y \in RoleIds, role'[x] \in Names, role'[y] = role'[x]
               PROVE  x = y
  BY DEF RoleNamesUnique
<1>2. DOMAIN role = RoleIds
  BY DEF Types, Tables
<1>3. PICK n \in Names : n = role'[x]
  BY <1>1
<1>4. n # None
  BY Sentinels
<1>5. CASE Named(role, n) # {}
  <2>1. Named(role, n)' = Named(role, n)
    BY <1>5, RolesStay
  <2>2. role[x] = n /\ role[y] = n
    BY <1>1, <1>3, <2>1 DEF Named, Types, Tables
  <2> QED BY <2>2 DEF RoleNamesUnique
<1>6. CASE Named(role, n) = {}
  <2>1. role[x] # n /\ role[y] # n
    BY <1>2, <1>6 DEF Named
  <2>2. role[x] = None /\ role[y] = None
    BY <1>1, <1>3, <2>1, RowsStay
  <2>3. \A z \in RoleIds : z # x => role'[z] = role[z]
    BY <1>2, <1>3, <1>4, <2>2 DEF Grows, Adds
  <2> QED BY <1>1, <1>3, <1>4, <2>2, <2>3
<1> QED BY <1>5, <1>6

\* What is done stays done.
LEMMA DoneStays ==
  ASSUME Types, Types', Grows, NEW i \in 1..3
  PROVE  /\ Seeded => Seeded' /\ permission' = permission
         /\ RoleThere(i) => RoleThere(i)'
         /\ Seeded /\ RoleDone(i) => RoleDone(i)'
         /\ UserDone(i) => UserDone(i)'
<1>1. PICK n \in Names : n = Baseline[i]
  BY Baselines
<1>2. RoleThere(i) => RoleThere(i)' /\ Named(role, n)' = Named(role, n)
  BY <1>1, RolesStay DEF RoleThere
<1>3. Seeded => permission' = permission
  BY PermissionsStay
<1>4. Seeded => Seeded'
  BY <1>3 DEF Seeded
<1>5. ASSUME Seeded, RoleDone(i)
      PROVE  RoleDone(i)'
  <2>1. Existing(permission)' = Existing(permission)
    BY <1>3, <1>5
  <2>2. \A x \in Named(role, n) : Granted(x) => Granted(x)'
    BY <2>1 DEF Granted, Grows
  <2>3. RoleThere(i)' /\ Named(role, n)' = Named(role, n)
    BY <1>2, <1>5 DEF RoleDone
  <2>4. n \in Privileged => \A x \in Named(role, n) : Granted(x)
    BY <1>1, <1>5 DEF RoleDone
  <2>5. n \in Privileged => \A x \in Named(role, n)' : Granted(x)'
    BY <2>2, <2>3, <2>4
  <2> QED BY <1>1, <2>3, <2>5 DEF RoleDone
<1>6. UserDone(i) => UserDone(i)'
  BY <1>1 DEF UserDone, Grows
<1> QED BY <1>2, <1>3, <1>4, <1>5, <1>6

\* What a seeder has put in place stays in place while another one works.
LEMMA ProgressStays ==
  ASSUME Types, Types', Grows, NEW t \in Seeders, Carries(t), Progress(t),
         at'[t] = at[t], turn'[t] = turn[t], todo'[t] = todo[t], found'[t] = found[t]
  PROVE  Progress(t)'
<1>1. PICK a : a = at[t]
  OBVIOUS
<1>2. PICK i \in 1..3 : i = turn[t]
  BY DEF Types, Seeding
<1>3. a = "permissions" => (\A n \in Followed \ todo[t] : Named(permission, n) # {})'
  <2>1. SUFFICES ASSUME a = "permissions", NEW n \in Followed \ todo[t]
                 PROVE  Named(permission, n)' # {}
    BY <1>1
  <2>2. PICK p \in Named(permission, n) : TRUE
    BY <1>1, <2>1 DEF Progress
  <2>3. p \in PermIds /\ permission[p] = n /\ n # None
    BY Sentinels DEF Named, Types, Tables
  <2>4. permission'[p] = n
    BY <2>3 DEF Types, Tables, Grows, Adds
  <2> QED BY <2>3, <2>4 DEF Named, Types, Tables
<1>4. a \in InRoles => (Seeded /\ \A j \in 1..3 : j < turn[t] => RoleDone(j))'
  BY <1>1, <1>2, DoneStays DEF Progress
<1>5. a \in {"selectRole", "selectPermissions", "grant"} =>
        (RoleThere(turn[t]) /\ Name(t) \in Privileged)'
  <2>1. RoleThere(i) => RoleThere(i)'
    BY DoneStays
  <2> QED BY <1>1, <1>2, <2>1 DEF Progress, Name, RoleThere
<1>6. a \in {"selectPermissions", "grant", "assign"} => (role[found[t]] = Name(t))'
  <2>1. SUFFICES ASSUME a \in {"selectPermissions", "grant", "assign"}
                 PROVE  role'[found[t]] = Name(t)
    BY DEF Name
  <2>2. found[t] \in RoleIds /\ role[found[t]] = Name(t) /\ Name(t) # None
    BY <1>1, <1>2, <2>1, Baselines, Sentinels DEF Progress, Carries, Name
  <2>3. PICK x \in RoleIds : x = found[t]
    BY <2>2
  <2>4. role'[x] = role[x]
    BY <2>2, <2>3, RowsStay
  <2> QED BY <2>2, <2>3, <2>4
<1>7. a = "grant" =>
        (\A p \in Existing(permission) : p \in todo[t] \/ <<found[t], p>> \in grants)'
  <2>1. SUFFICES ASSUME a = "grant"
                 PROVE  \A p \in Existing(permission)' :
                          p \in todo[t] \/ <<found[t], p>> \in grants'
    OBVIOUS
  <2>2. Seeded
    BY <1>1, <2>1 DEF Progress, InRoles
  <2>3. permission' = permission
    BY <1>2, <2>2, DoneStays
  <2> QED BY <1>1, <2>1, <2>3 DEF Progress, Grows
<1>8. a \in InUsers \cup {"done"} => (Seeded /\ \A j \in 1..3 : RoleDone(j))'
  BY <1>1, <1>2, DoneStays DEF Progress
<1>9. a \in InUsers => (\A j \in 1..3 : j < turn[t] => UserDone(j))'
  BY <1>1, DoneStays DEF Progress
<1>10. a \in {"selectUserRole", "assign"} => UserDone(turn[t])'
  <2>1. UserDone(i) => UserDone(i)'
    BY DoneStays
  <2> QED BY <1>1, <1>2, <2>1 DEF Progress, UserDone
<1>11. a = "done" => (\A j \in 1..3 : UserDone(j))'
  BY <1>1, DoneStays DEF Progress
<1>12. at'[t] = a
  BY <1>1
<1> QED BY <1>3, <1>4, <1>5, <1>6, <1>7, <1>8, <1>9, <1>10, <1>11, <1>12 DEF Progress

\* The types after a step.
LEMMA TypeParts ==
  /\ Types <=> Tables /\ Seeding /\ Counters
  /\ Types' <=> Tables' /\ Seeding' /\ Counters'
BY DEF Types, Tables, Seeding, Counters

\* A step that leaves the tables alone.
LEMMA TablesSame ==
  ASSUME Types, UNCHANGED tables, edits' = edits
  PROVE  Tables' /\ Grows
<1>1. UNCHANGED <<permission, role, grants, account, holds>> /\ Tables
  BY TypeParts DEF tables
<1>2. Tables'
  BY <1>1 DEF Tables
<1>3. Adds(permission, permission', Followed)
  BY <1>1, <1>2 DEF Tables, Adds
<1>4. Adds(role, role', Names)
  BY <1>1, <1>2 DEF Tables, Adds
<1> QED BY <1>1, <1>2, <1>3, <1>4 DEF Grows

\* A failure leaves the tables alone.
LEMMA FailTables ==
  ASSUME Types, NEW s \in Seeders, Fail(s), UNCHANGED quiet
  PROVE  Tables' /\ Grows /\ Counters'
<1>1. UNCHANGED tables /\ edits' = edits
      /\ dropped' = IF at[s] \in {"selectUserRole", "assign"} THEN dropped \cup {Name(s)}
                   ELSE dropped
  BY DEF Fail
<1>2. Name(s) \in Names
  BY TypeParts, Staying
<1>3. Counters'
  BY <1>1, <1>2, TypeParts DEF Counters
<1> QED BY <1>1, <1>3, TablesSame

\* Every step of a seeder adds, and keeps the types.
LEMMA SeedStep ==
  ASSUME Shape, NEW s \in Seeders, Seed(s)
  PROVE  Types' /\ Grows /\ Alone(s)
<1>1. Types /\ Seeding /\ Tables /\ Counters
  BY TypeParts DEF Shape
<1>2. ASSUME Seeding', Alone(s), Tables', Grows, UNCHANGED <<edits, quiet, dropped>>
      PROVE  Types' /\ Grows /\ Alone(s)
  <2>1. Counters'
    BY <1>1, <1>2 DEF Counters
  <2> QED BY <1>2, <2>1, TypeParts
<1>3. ASSUME Fail(s), UNCHANGED quiet
      PROVE  Types' /\ Grows /\ Alone(s)
  BY <1>1, <1>3, Failing, FailTables, TypeParts
<1>4. CASE Start(s)
  <2>1. UNCHANGED tables /\ edits' = edits /\ dropped' = dropped /\ quiet' = quiet \cup {s}
    BY <1>4 DEF Start
  <2>2. Counters'
    BY <1>1, <2>1 DEF Counters
  <2> QED BY <1>1, <1>4, <2>1, <2>2, StartMoves, TablesSame, TypeParts
<1>5. ASSUME NEW n \in Followed, InsertPermission(s, n)
      PROVE  Types' /\ Grows /\ Alone(s)
  <2>1. /\ permission' \in Insert(permission, n)
        /\ UNCHANGED <<role, grants, account, holds, edits, quiet, dropped>>
    BY <1>5 DEF InsertPermission
  <2>2. PICK V : V = Followed \cup {Other, None, Gone}
    OBVIOUS
  <2>3. permission' \in [PermIds -> V] /\ Adds(permission, permission', Followed)
    <3>1. PICK P : P = permission
      OBVIOUS
    <3>2. P \in [PermIds -> V] /\ permission' \in Insert(P, n) /\ Followed \subseteq V
      BY <1>1, <2>1, <2>2, <3>1 DEF Tables
    <3>3. PICK Q \in Insert(P, n) : Q = permission'
      BY <3>2
    <3>4. Q \in [PermIds -> V] /\ Adds(P, Q, Followed)
      BY <3>2, <3>3, InsertAdds, Sentinels
    <3> QED BY <3>1, <3>3, <3>4
  <2>4. Tables'
    BY <1>1, <2>1, <2>2, <2>3 DEF Tables
  <2>5. Adds(role, role', Names)
    BY <1>1, <2>1 DEF Tables, Adds
  <2>6. Grows
    BY <2>1, <2>3, <2>5 DEF Grows
  <2> QED BY <1>1, <1>2, <1>5, <2>1, <2>4, <2>6, InsertPermissionMoves
<1>6. CASE InsertRole(s)
  <2>1. /\ role' \in Insert(role, Name(s))
        /\ UNCHANGED <<permission, grants, account, holds, edits, quiet, dropped>>
    BY <1>6 DEF InsertRole
  <2>2. PICK n \in Names : n = Name(s)
    BY <1>1, Staying
  <2>3. PICK V : V = Names \cup {Other, None, Gone}
    OBVIOUS
  <2>4. role' \in Insert(role, n)
    BY <2>1, <2>2
  <2>5. role' \in [RoleIds -> V] /\ Adds(role, role', Names)
    <3>1. PICK P : P = role
      OBVIOUS
    <3>2. P \in [RoleIds -> V] /\ role' \in Insert(P, n) /\ Names \subseteq V
      BY <1>1, <2>3, <2>4, <3>1 DEF Tables
    <3>3. PICK Q \in Insert(P, n) : Q = role'
      BY <3>2
    <3>4. Q \in [RoleIds -> V] /\ Adds(P, Q, Names)
      BY <3>2, <3>3, InsertAdds, Sentinels
    <3> QED BY <3>1, <3>3, <3>4
  <2>6. Tables'
    BY <1>1, <2>1, <2>3, <2>5 DEF Tables
  <2>7. Adds(permission, permission', Followed)
    BY <1>1, <2>1 DEF Tables, Adds
  <2>8. Grows
    BY <2>1, <2>5, <2>7 DEF Grows
  <2> QED BY <1>1, <1>2, <1>6, <2>1, <2>6, <2>8, InsertRoleMoves
<1>7. CASE SelectRole(s)
  <2>1. UNCHANGED tables /\ UNCHANGED <<edits, quiet, dropped>>
    BY <1>7 DEF SelectRole
  <2> QED BY <1>1, <1>2, <1>7, <2>1, SelectRoleMoves, TablesSame
<1>8. CASE SelectPermissions(s)
  <2>1. UNCHANGED tables /\ UNCHANGED <<edits, quiet, dropped>>
    BY <1>8 DEF SelectPermissions
  <2> QED BY <1>1, <1>2, <1>8, <2>1, SelectPermissionsMoves, TablesSame
<1>9. ASSUME NEW p \in PermIds, Grant(s, p)
      PROVE  Types' /\ Grows /\ Alone(s)
  <2>1. /\ Seeding' /\ Alone(s) /\ at[s] = "grant"
        /\ \/ Fail(s)
           \/ /\ grants' = grants \cup {<<found[s], p>>}
              /\ UNCHANGED <<permission, role, account, holds, edits, quiet, dropped>>
    BY <1>1, <1>9, GrantMoves
  <2>2. found[s] \in RoleIds
    BY <2>1 DEF Shape, Carries
  <2>3. CASE Fail(s)
    <3>1. quiet' = quiet
      BY <1>9, <2>3 DEF Grant
    <3> QED BY <1>3, <2>3, <3>1
  <2>4. CASE /\ grants' = grants \cup {<<found[s], p>>}
             /\ UNCHANGED <<permission, role, account, holds, edits, quiet, dropped>>
    <3>1. Tables'
      BY <1>1, <2>2, <2>4 DEF Tables
    <3>2. Adds(permission, permission', Followed) /\ Adds(role, role', Names)
      BY <1>1, <2>4 DEF Tables, Adds
    <3>3. Grows
      BY <2>4, <3>2 DEF Grows
    <3> QED BY <1>2, <2>1, <2>4, <3>1, <3>3
  <2> QED BY <2>1, <2>3, <2>4
<1>10. CASE SelectUser(s)
  <2>1. UNCHANGED tables /\ UNCHANGED <<edits, quiet, dropped>>
    BY <1>10 DEF SelectUser
  <2> QED BY <1>1, <1>2, <1>10, <2>1, SelectUserMoves, TablesSame
<1>11. CASE InsertUser(s)
  <2>1. /\ Seeding' /\ Alone(s)
        /\ \/ Fail(s)
           \/ /\ account' = [account EXCEPT ![Name(s)] = SeededBy(s)]
              /\ holds' = {h \in holds : h[1] # Name(s)}
              /\ UNCHANGED <<permission, role, grants, edits, quiet, dropped>>
    BY <1>1, <1>11, InsertUserMoves
  <2>2. CASE Fail(s)
    <3>1. quiet' = quiet
      BY <1>11, <2>2 DEF InsertUser
    <3> QED BY <1>3, <2>2, <3>1
  <2>3. CASE /\ account' = [account EXCEPT ![Name(s)] = SeededBy(s)]
             /\ holds' = {h \in holds : h[1] # Name(s)}
             /\ UNCHANGED <<permission, role, grants, edits, quiet, dropped>>
    <3>1. SeededBy(s) \in Account
      BY DEF SeededBy, Account
    <3>2. SeededBy(s) # None
      BY <3>1, Sentinels
    <3>3. Tables'
      BY <1>1, <2>3, <3>1 DEF Tables
    <3>4. Adds(permission, permission', Followed) /\ Adds(role, role', Names)
      BY <1>1, <2>3 DEF Tables, Adds
    <3>5. \A n \in Names : account[n] # None => account'[n] # None
      BY <1>1, <2>3, <3>2 DEF Tables
    <3>6. Grows
      BY <2>3, <3>4, <3>5 DEF Grows
    <3> QED BY <1>2, <2>1, <2>3, <3>3, <3>6
  <2> QED BY <2>1, <2>2, <2>3
<1>12. CASE SelectUserRole(s)
  <2>1. UNCHANGED tables /\ UNCHANGED <<edits, quiet, dropped>>
    BY <1>12 DEF SelectUserRole
  <2> QED BY <1>1, <1>2, <1>12, <2>1, SelectUserRoleMoves, TablesSame
<1>13. CASE Assign(s)
  <2>1. /\ Seeding' /\ Alone(s) /\ at[s] = "assign"
        /\ \/ Fail(s)
           \/ /\ holds' = IF account[Name(s)].by = s THEN holds \cup {<<Name(s), found[s]>>}
                          ELSE holds
              /\ UNCHANGED <<permission, role, grants, account, edits, quiet, dropped>>
    BY <1>1, <1>13, AssignMoves
  <2>2. found[s] \in RoleIds /\ Name(s) \in Names
    BY <1>1, <2>1, Staying DEF Shape, Carries
  <2>3. CASE Fail(s)
    <3>1. quiet' = quiet
      BY <1>13, <2>3 DEF Assign
    <3> QED BY <1>3, <2>3, <3>1
  <2>4. CASE /\ holds' = IF account[Name(s)].by = s THEN holds \cup {<<Name(s), found[s]>>}
                         ELSE holds
             /\ UNCHANGED <<permission, role, grants, account, edits, quiet, dropped>>
    <3>1. Tables'
      BY <1>1, <2>2, <2>4 DEF Tables
    <3>2. Adds(permission, permission', Followed) /\ Adds(role, role', Names)
      BY <1>1, <2>4 DEF Tables, Adds
    <3>3. Grows
      BY <2>4, <3>2 DEF Grows
    <3> QED BY <1>2, <2>1, <2>4, <3>1, <3>3
  <2> QED BY <2>1, <2>3, <2>4
<1>14. CASE Crash(s)
  BY <1>3, <1>14 DEF Crash
<1> QED BY <1>4, <1>5, <1>6, <1>7, <1>8, <1>9, <1>10, <1>11, <1>12, <1>13, <1>14 DEF Seed

-----------------------------------------------------------------------------
(***************************************************************************)
(* The invariant, through every step of a seeder.                          *)
(***************************************************************************)
\* It leaves each seeder with what its next statement needs.
LEMMA SeedShape ==
  ASSUME Shape, NEW s \in Seeders, Seed(s)
  PROVE  Shape'
<1>1. Types /\ Seeding /\ Carries(s) /\ Types' /\ Alone(s)
  BY SeedStep, TypeParts DEF Shape
<1>2. ASSUME NEW t \in Seeders \ {s}
      PROVE  Carries(t)'
  BY <1>1, <1>2 DEF Shape, Carries, Alone
<1>3. Carries(s)'
  <2>1. ASSUME at'[s] \notin {"selectPermissions", "grant", "assign", "permissions"}
        PROVE  Carries(s)'
    BY <2>1 DEF Carries
  <2>2. ASSUME NEW start \in {"insertRole", "selectUser"}, NEW after \in {"selectUser", "done"},
               Onward(s, start, after)
        PROVE  Carries(s)'
    BY <2>1, <2>2 DEF Onward, At
  <2>3. CASE Start(s)
    BY <1>1, <2>3, StartMoves DEF At, Carries
  <2>4. ASSUME NEW n \in Followed, InsertPermission(s, n)
        PROVE  Carries(s)'
    BY <1>1, <2>4, InsertPermissionMoves DEF At, Carries
  <2>5. CASE InsertRole(s)
    BY <1>1, <2>1, <2>2, <2>5, InsertRoleMoves DEF At
  <2>6. CASE SelectRole(s)
    <3>1. CASE Onward(s, "insertRole", "selectUser")
      BY <2>2, <3>1
    <3>2. CASE At(s, "selectPermissions", turn[s]) /\ found'[s] \in RoleIds
      BY <3>2 DEF At, Carries
    <3> QED BY <1>1, <2>6, <3>1, <3>2, SelectRoleMoves
  <2>7. CASE SelectPermissions(s)
    <3>1. CASE Onward(s, "insertRole", "selectUser")
      BY <2>2, <3>1
    <3>2. CASE At(s, "grant", turn[s]) /\ found'[s] = found[s]
      <4>1. at[s] = "selectPermissions" /\ todo'[s] \subseteq PermIds
        BY <1>1, <2>7, SelectPermissionsMoves
      <4> QED BY <1>1, <3>2, <4>1 DEF At, Carries
    <3> QED BY <1>1, <2>7, <3>1, <3>2, SelectPermissionsMoves
  <2>8. ASSUME NEW p \in PermIds, Grant(s, p)
        PROVE  Carries(s)'
    <3>1. CASE At(s, "failed", 1)
      BY <2>1, <3>1 DEF At
    <3>2. CASE Onward(s, "insertRole", "selectUser")
      BY <2>2, <3>2
    <3>3. CASE At(s, "grant", turn[s]) /\ found'[s] = found[s] /\ todo'[s] = todo[s] \ {p}
      <4>1. at[s] = "grant"
        BY <1>1, <2>8, GrantMoves
      <4> QED BY <1>1, <3>3, <4>1 DEF At, Carries
    <3> QED BY <1>1, <2>8, <3>1, <3>2, <3>3, GrantMoves
  <2>9. CASE SelectUser(s)
    <3>1. CASE Onward(s, "selectUser", "done")
      BY <2>2, <3>1
    <3>2. CASE At(s, "insertUser", turn[s])
      BY <2>1, <3>2 DEF At
    <3> QED BY <1>1, <2>9, <3>1, <3>2, SelectUserMoves
  <2>10. CASE InsertUser(s)
    BY <1>1, <2>1, <2>10, InsertUserMoves DEF At
  <2>11. CASE SelectUserRole(s)
    <3>1. CASE Onward(s, "selectUser", "done")
      BY <2>2, <3>1
    <3>2. CASE At(s, "assign", turn[s]) /\ found'[s] \in RoleIds
      BY <3>2 DEF At, Carries
    <3> QED BY <1>1, <2>11, <3>1, <3>2, SelectUserRoleMoves
  <2>12. CASE Assign(s)
    <3>1. CASE At(s, "failed", 1)
      BY <2>1, <3>1 DEF At
    <3>2. CASE Onward(s, "selectUser", "done")
      BY <2>2, <3>2
    <3> QED BY <1>1, <2>12, <3>1, <3>2, AssignMoves
  <2>13. CASE Crash(s)
    BY <1>1, <2>1, <2>13, Failing DEF Crash, At
  <2> QED BY <2>3, <2>4, <2>5, <2>6, <2>7, <2>8, <2>9, <2>10, <2>11, <2>12, <2>13 DEF Seed
<1> QED BY <1>1, <1>2, <1>3 DEF Shape

\* A permission that is there stays.
LEMMA NamedStays ==
  ASSUME Types, Types', Grows, NEW n \in Followed, Named(permission, n) # {}
  PROVE  Named(permission, n)' # {}
<1>1. PICK p \in PermIds : permission[p] = n /\ n # None
  BY Sentinels DEF Named, Types, Tables
<1>2. permission'[p] = n
  BY <1>1 DEF Types, Tables, Grows, Adds
<1> QED BY <1>1, <1>2 DEF Named, Types, Tables

\* A role is done: the next one, or the users.
LEMMA RoleOnward ==
  ASSUME NEW s \in Seeders, NEW k \in 1..3, k = turn[s],
         Onward(s, "insertRole", "selectUser"), Seeded',
         \A i \in 1..3 : i < k => RoleDone(i)', RoleDone(k)'
  PROVE  Progress(s)'
<1>1. \A i \in 1..3 : i <= k => RoleDone(i)'
  OBVIOUS
<1>2. CASE at'[s] = "insertRole" /\ turn'[s] = k + 1
  <2>1. \A i \in 1..3 : i < turn'[s] => RoleDone(i)'
    BY <1>1, <1>2
  <2> QED BY <1>2, <2>1 DEF Progress, InRoles, InUsers
<1>3. CASE k = 3 /\ at'[s] = "selectUser" /\ turn'[s] = 1
  <2>1. \A i \in 1..3 : RoleDone(i)'
    BY <1>1, <1>3
  <2>2. \A i \in 1..3 : ~(i < turn'[s])
    BY <1>3
  <2> QED BY <1>3, <2>1, <2>2 DEF Progress, InRoles, InUsers
<1> QED BY <1>1, <1>2, <1>3 DEF Onward, At

\* A user is done: the next one, or the end.
LEMMA UserOnward ==
  ASSUME NEW s \in Seeders, NEW k \in 1..3, k = turn[s], Onward(s, "selectUser", "done"), Seeded',
         \A i \in 1..3 : RoleDone(i)',
         \A i \in 1..3 : i < k => UserDone(i)', UserDone(k)'
  PROVE  Progress(s)'
<1>1. \A i \in 1..3 : i <= k => UserDone(i)'
  OBVIOUS
<1>2. CASE at'[s] = "selectUser" /\ turn'[s] = k + 1
  <2>1. \A i \in 1..3 : i < turn'[s] => UserDone(i)'
    BY <1>1, <1>2
  <2> QED BY <1>2, <2>1 DEF Progress, InRoles, InUsers
<1>3. CASE k = 3 /\ at'[s] = "done" /\ turn'[s] = 1
  <2>1. \A i \in 1..3 : UserDone(i)'
    BY <1>1, <1>3
  <2> QED BY <1>3, <2>1 DEF Progress, InRoles, InUsers
<1> QED BY <1>1, <1>2, <1>3 DEF Onward, At

\* What a seeder's own step puts in place.
LEMMA ProgressOwn ==
  ASSUME Shape, RoleNamesUnique, NEW s \in Seeders, Seed(s), Start(s) \/ Progress(s)
  PROVE  Progress(s)'
<1>1. Types /\ Seeding /\ Carries(s) /\ Types' /\ Grows
  BY SeedStep, TypeParts DEF Shape
<1>2. PICK k \in 1..3 : k = turn[s]
  BY <1>1 DEF Seeding
<1>3. \A i \in 1..3 : /\ Seeded => Seeded' /\ permission' = permission
                      /\ RoleThere(i) => RoleThere(i)'
                      /\ Seeded /\ RoleDone(i) => RoleDone(i)'
                      /\ UserDone(i) => UserDone(i)'
  BY <1>1, DoneStays
<1>4. CASE At(s, "failed", 1)
  BY <1>4 DEF At, Progress, InRoles, InUsers
<1>5. CASE Start(s)
  BY <1>1, <1>5, StartMoves DEF At, Progress, InRoles, InUsers
<1>6. ASSUME NEW n \in Followed, InsertPermission(s, n), Progress(s)
      PROVE  Progress(s)'
  <2>1. /\ at[s] = "permissions" /\ todo'[s] = todo[s] \ {n}
        /\ \/ todo[s] = {n} /\ At(s, "insertRole", 1)
           \/ At(s, "permissions", turn[s])
    BY <1>1, <1>6, InsertPermissionMoves
  <2>2. Named(permission, n)' # {}
    <3>1. PICK P : P = permission
      OBVIOUS
    <3>2. PICK V : V = Followed \cup {Other, None, Gone}
      OBVIOUS
    <3>3. P \in [PermIds -> V] /\ Followed \subseteq V /\ permission' \in Insert(P, n)
      BY <1>1, <1>6, <3>1, <3>2 DEF Types, Tables, InsertPermission
    <3>4. PICK Q \in Insert(P, n) : Q = permission'
      BY <3>3
    <3>5. n \in V
      BY <1>6, <3>3
    <3>6. Named(Q, n) # {}
      BY <3>3, <3>4, <3>5, Inserted
    <3> QED BY <3>4, <3>6
  <2>3. \A m \in Followed \ todo'[s] : Named(permission, m)' # {}
    <3>1. SUFFICES ASSUME NEW m \in Followed, m \notin todo[s]
                   PROVE  Named(permission, m)' # {}
      BY <2>1, <2>2
    <3>2. Named(permission, m) # {}
      BY <1>6, <2>1, <3>1 DEF Progress
    <3> QED BY <1>1, <3>2, NamedStays
  <2>4. CASE At(s, "permissions", turn[s])
    BY <2>3, <2>4 DEF At, Progress, InRoles, InUsers
  <2>5. CASE todo[s] = {n} /\ At(s, "insertRole", 1)
    <3>1. todo'[s] = {}
      BY <2>1, <2>5
    <3>2. Seeded'
      BY <2>3, <3>1 DEF Seeded
    <3>3. \A i \in 1..3 : ~(i < 1)
      OBVIOUS
    <3> QED BY <2>5, <3>2, <3>3 DEF At, Progress, InRoles, InUsers
  <2> QED BY <2>1, <2>4, <2>5
<1>7. CASE InsertRole(s) /\ Progress(s)
  <2>1. /\ at[s] = "insertRole"
        /\ \/ Name(s) \in Privileged /\ At(s, "selectRole", turn[s])
           \/ Name(s) \notin Privileged /\ Onward(s, "insertRole", "selectUser")
    BY <1>1, <1>7, InsertRoleMoves
  <2>2. Seeded /\ \A i \in 1..3 : i < k => RoleDone(i)
    BY <1>2, <1>7, <2>1 DEF Progress, InRoles
  <2>3. Seeded' /\ \A i \in 1..3 : i < k => RoleDone(i)'
    BY <1>2, <1>3, <2>2
  <2>4. RoleThere(k)'
    <3>1. PICK n \in Names : n = Baseline[k]
      BY Baselines
    <3>2. PICK P : P = role
      OBVIOUS
    <3>3. PICK V : V = Names \cup {Other, None, Gone}
      OBVIOUS
    <3>4. P \in [RoleIds -> V] /\ Names \subseteq V /\ role' \in Insert(P, n)
      BY <1>1, <1>2, <1>7, <3>1, <3>2, <3>3 DEF Types, Tables, InsertRole, Name
    <3>5. PICK Q \in Insert(P, n) : Q = role'
      BY <3>4
    <3>6. Named(Q, n) # {}
      BY <3>4, <3>5, Inserted
    <3> QED BY <3>1, <3>5, <3>6 DEF RoleThere
  <2>5. CASE Name(s) \in Privileged /\ At(s, "selectRole", turn[s])
    <3>1. at'[s] = "selectRole" /\ turn'[s] = k /\ Name(s)' = Baseline[k] /\ Name(s) = Baseline[k]
      BY <1>2, <2>5 DEF At, Name
    <3>2. RoleThere(turn[s])'
      BY <2>4, <3>1 DEF RoleThere
    <3> QED BY <2>3, <2>5, <3>1, <3>2 DEF Progress, InRoles, InUsers
  <2>6. CASE Name(s) \notin Privileged /\ Onward(s, "insertRole", "selectUser")
    <3>1. RoleDone(k)'
      BY <1>2, <2>4, <2>6 DEF RoleDone, Name
    <3> QED BY <1>2, <2>3, <2>6, <3>1, RoleOnward
  <2> QED BY <2>1, <2>5, <2>6
<1>8. CASE SelectRole(s) /\ Progress(s)
  <2>1. /\ at[s] = "selectRole"
        /\ \/ Named(role, Name(s)) = {}
           \/ At(s, "selectPermissions", turn[s]) /\ role[found'[s]] = Name(s)
    BY <1>1, <1>8, SelectRoleMoves
  <2>2. /\ Seeded /\ \A i \in 1..3 : i < k => RoleDone(i)
        /\ RoleThere(k) /\ Name(s) \in Privileged /\ Name(s) = Baseline[k]
    BY <1>2, <1>8, <2>1 DEF Progress, InRoles, Name
  <2>3. /\ at'[s] = "selectPermissions" /\ turn'[s] = k /\ role[found'[s]] = Name(s)
        /\ Name(s)' = Baseline[k]
    BY <1>2, <2>1, <2>2 DEF At, RoleThere, Name
  <2>4. role' = role
    BY <1>8 DEF SelectRole, tables
  <2>5. RoleThere(turn[s])'
    BY <1>3, <2>2, <2>3 DEF RoleThere
  <2>6. Seeded' /\ \A i \in 1..3 : i < k => RoleDone(i)'
    BY <1>2, <1>3, <2>2
  <2> QED BY <2>2, <2>3, <2>4, <2>5, <2>6 DEF Progress, InRoles, InUsers
<1>9. CASE SelectPermissions(s) /\ Progress(s)
  <2>1. /\ at[s] = "selectPermissions" /\ todo'[s] = Existing(permission)
        /\ \/ Existing(permission) = {} /\ Onward(s, "insertRole", "selectUser")
           \/ At(s, "grant", turn[s]) /\ found'[s] = found[s]
    BY <1>1, <1>9, SelectPermissionsMoves
  <2>2. /\ Seeded /\ \A i \in 1..3 : i < k => RoleDone(i)
        /\ RoleThere(k) /\ Name(s) \in Privileged /\ Name(s) = Baseline[k]
        /\ role[found[s]] = Name(s)
    BY <1>2, <1>9, <2>1 DEF Progress, InRoles, Name
  <2>3. role' = role /\ permission' = permission /\ grants' = grants
    BY <1>9 DEF SelectPermissions, tables
  <2>4. Seeded' /\ (\A i \in 1..3 : i < k => RoleDone(i)') /\ RoleThere(k)'
    BY <1>2, <1>3, <2>2
  <2>5. CASE Existing(permission) = {} /\ Onward(s, "insertRole", "selectUser")
    <3>1. Existing(permission)' = {}
      BY <2>3, <2>5
    <3>2. RoleDone(k)'
      BY <2>4, <3>1 DEF RoleDone, Granted
    <3> QED BY <1>2, <2>4, <2>5, <3>2, RoleOnward
  <2>6. CASE At(s, "grant", turn[s]) /\ found'[s] = found[s]
    <3>1. at'[s] = "grant" /\ turn'[s] = k /\ Name(s)' = Baseline[k]
      BY <1>2, <2>6 DEF At, Name
    <3>2. RoleThere(turn[s])'
      BY <2>4, <3>1 DEF RoleThere
    <3>3. \A p \in Existing(permission)' : p \in todo'[s]
      BY <2>1, <2>3
    <3> QED BY <2>2, <2>3, <2>4, <2>6, <3>1, <3>2, <3>3 DEF Progress, InRoles, InUsers
  <2> QED BY <2>1, <2>5, <2>6
<1>10. ASSUME NEW p \in PermIds, Grant(s, p), Progress(s)
       PROVE  Progress(s)'
  <2>1. at[s] = "grant" /\ p \in todo[s] /\ found[s] \in RoleIds
    BY <1>1, <1>10, GrantMoves DEF Carries
  <2>2. /\ Seeded /\ \A i \in 1..3 : i < k => RoleDone(i)
        /\ RoleThere(k) /\ Name(s) \in Privileged /\ Name(s) = Baseline[k]
        /\ role[found[s]] = Name(s)
        /\ \A q \in Existing(permission) : q \in todo[s] \/ <<found[s], q>> \in grants
    BY <1>2, <1>10, <2>1 DEF Progress, InRoles, Name
  <2>3. Seeded' /\ (\A i \in 1..3 : i < k => RoleDone(i)') /\ RoleThere(k)'
    BY <1>2, <1>3, <2>2
  <2>4. SUFFICES ASSUME grants' = grants \cup {<<found[s], p>>},
                        UNCHANGED <<permission, role, account, holds, edits, quiet, dropped>>,
                        \/ todo[s] = {p} /\ Onward(s, "insertRole", "selectUser")
                        \/ /\ At(s, "grant", turn[s]) /\ found'[s] = found[s]
                           /\ todo'[s] = todo[s] \ {p}
                 PROVE  Progress(s)'
    BY <1>1, <1>4, <1>10, GrantMoves
  <2>5. CASE todo[s] = {p} /\ Onward(s, "insertRole", "selectUser")
    <3>1. ASSUME NEW x \in Named(role, Baseline[k])
          PROVE  Granted(x)'
      <4>1. x \in RoleIds /\ role[x] = Baseline[k]
        BY <1>1 DEF Named, Types, Tables
      <4>2. x = found[s]
        BY <2>1, <2>2, <4>1, Baselines DEF RoleNamesUnique
      <4>3. \A q \in Existing(permission) : <<x, q>> \in grants'
        BY <2>2, <2>4, <2>5, <4>2
      <4> QED BY <2>4, <4>3 DEF Granted
    <3>2. Named(role, Baseline[k])' = Named(role, Baseline[k])
      BY <2>4
    <3>3. RoleDone(k)'
      BY <2>3, <3>1, <3>2 DEF RoleDone
    <3> QED BY <1>2, <2>3, <2>5, <3>3, RoleOnward
  <2>6. CASE /\ At(s, "grant", turn[s]) /\ found'[s] = found[s]
             /\ todo'[s] = todo[s] \ {p}
    <3>1. at'[s] = "grant" /\ turn'[s] = k /\ Name(s)' = Baseline[k]
      BY <1>2, <2>6 DEF At, Name
    <3>2. RoleThere(turn[s])'
      BY <2>3, <3>1 DEF RoleThere
    <3>3. \A q \in Existing(permission)' : q \in todo'[s] \/ <<found'[s], q>> \in grants'
      BY <2>2, <2>4, <2>6
    <3> QED BY <2>2, <2>3, <2>4, <2>6, <3>1, <3>2, <3>3 DEF Progress, InRoles, InUsers
  <2> QED BY <2>4, <2>5, <2>6
<1>11. ASSUME at[s] \in InUsers, Progress(s)
       PROVE  /\ Seeded' /\ \A i \in 1..3 : RoleDone(i)'
              /\ \A i \in 1..3 : i < k => UserDone(i)'
  BY <1>2, <1>3, <1>11 DEF Progress
<1>12. CASE SelectUser(s) /\ Progress(s)
  <2>1. /\ at[s] = "selectUser"
        /\ \/ account[Name(s)] # None /\ Onward(s, "selectUser", "done")
           \/ At(s, "insertUser", turn[s])
    BY <1>1, <1>12, SelectUserMoves
  <2>2. /\ Seeded' /\ \A i \in 1..3 : RoleDone(i)'
        /\ \A i \in 1..3 : i < k => UserDone(i)'
    BY <1>11, <1>12, <2>1 DEF InUsers
  <2>3. CASE account[Name(s)] # None /\ Onward(s, "selectUser", "done")
    <3>1. UserDone(k)'
      BY <1>2, <1>3, <2>3 DEF UserDone, Name
    <3> QED BY <1>2, <2>2, <2>3, <3>1, UserOnward
  <2>4. CASE At(s, "insertUser", turn[s])
    BY <1>2, <2>2, <2>4 DEF At, Progress, InRoles, InUsers
  <2> QED BY <2>1, <2>3, <2>4
<1>13. CASE InsertUser(s) /\ Progress(s)
  <2>1. SUFFICES ASSUME at[s] = "insertUser", At(s, "selectUserRole", turn[s]),
                        account' = [account EXCEPT ![Name(s)] = SeededBy(s)]
                 PROVE  Progress(s)'
    BY <1>1, <1>4, <1>13, InsertUserMoves
  <2>2. /\ Seeded' /\ \A i \in 1..3 : RoleDone(i)'
        /\ \A i \in 1..3 : i < k => UserDone(i)'
    BY <1>11, <1>13, <2>1 DEF InUsers
  <2>3. UserDone(turn[s])'
    <3>1. SeededBy(s) # None
      <4>1. SeededBy(s) \in Account
        BY DEF SeededBy, Account
      <4> QED BY <4>1, Sentinels
    <3>2. Baseline[k] \in Names /\ Name(s) = Baseline[k] /\ turn'[s] = k
      BY <1>2, <2>1, Baselines DEF At, Name
    <3>3. account'[Baseline[k]] = SeededBy(s)
      BY <1>1, <2>1, <3>2 DEF Types, Tables
    <3> QED BY <3>1, <3>2, <3>3 DEF UserDone
  <2> QED BY <1>2, <2>1, <2>2, <2>3 DEF At, Progress, InRoles, InUsers
<1>14. CASE SelectUserRole(s) /\ Progress(s)
  <2>1. /\ at[s] = "selectUserRole"
        /\ \/ Named(role, Name(s)) = {}
           \/ At(s, "assign", turn[s]) /\ role[found'[s]] = Name(s)
    BY <1>1, <1>14, SelectUserRoleMoves
  <2>2. /\ Seeded' /\ \A i \in 1..3 : RoleDone(i)'
        /\ \A i \in 1..3 : i < k => UserDone(i)'
    BY <1>11, <1>14, <2>1 DEF InUsers
  <2>3. RoleDone(k) /\ UserDone(k) /\ Name(s) = Baseline[k]
    BY <1>2, <1>14, <2>1 DEF Progress, InUsers, Name
  <2>4. /\ at'[s] = "assign" /\ turn'[s] = k /\ role[found'[s]] = Name(s)
        /\ Name(s)' = Baseline[k]
    BY <1>2, <2>1, <2>3 DEF At, RoleDone, RoleThere, Name
  <2>5. role' = role
    BY <1>14 DEF SelectUserRole, tables
  <2>6. UserDone(turn[s])'
    BY <1>3, <2>3, <2>4 DEF UserDone
  <2> QED BY <2>2, <2>3, <2>4, <2>5, <2>6 DEF Progress, InRoles, InUsers
<1>15. CASE Assign(s) /\ Progress(s)
  <2>1. SUFFICES ASSUME at[s] = "assign", Onward(s, "selectUser", "done")
                 PROVE  Progress(s)'
    BY <1>1, <1>4, <1>15, AssignMoves
  <2>2. /\ Seeded' /\ \A i \in 1..3 : RoleDone(i)'
        /\ \A i \in 1..3 : i < k => UserDone(i)'
    BY <1>11, <1>15, <2>1 DEF InUsers
  <2>3. UserDone(k)
    BY <1>2, <1>15, <2>1 DEF Progress
  <2>4. UserDone(k)'
    BY <1>3, <2>3
  <2> QED BY <1>2, <2>1, <2>2, <2>4, UserOnward
<1>16. CASE Crash(s)
  BY <1>1, <1>4, <1>16, Failing DEF Crash
<1> QED BY <1>5, <1>6, <1>7, <1>8, <1>9, <1>10, <1>12, <1>13, <1>14, <1>15, <1>16 DEF Seed

\* The account is inserted, the role not yet assigned.
InHand == {"selectUserRole", "assign"}

\* The conjuncts of the invariant.
LEMMA InvParts ==
  ASSUME Inv
  PROVE  /\ Shape /\ Types /\ Seeding /\ RoleNamesUnique /\ Unedited /\ RolelessForCause
         /\ \A t \in quiet : t \in Seeders /\ Progress(t)
BY TypeParts DEF Inv, Shape, Types, Tables, Seeding, Counters

\* Only a start changes who is undisturbed.
LEMMA QuietStays ==
  ASSUME NEW s \in Seeders, Seed(s)
  PROVE  /\ quiet' = quiet \/ (Start(s) /\ quiet' = quiet \cup {s})
         /\ Start(s) => s \in quiet'
         /\ Start(s) \/ at[s] \notin Resting
<1>1. CASE Start(s)
  BY <1>1 DEF Start
<1>2. CASE \E n \in Followed : InsertPermission(s, n)
  BY <1>2 DEF InsertPermission, Resting, Start
<1>3. CASE InsertRole(s)
  BY <1>3 DEF InsertRole, Resting, Start
<1>4. CASE SelectRole(s)
  BY <1>4 DEF SelectRole, Resting, Start
<1>5. CASE SelectPermissions(s)
  BY <1>5 DEF SelectPermissions, Resting, Start
<1>6. CASE \E p \in PermIds : Grant(s, p)
  BY <1>6 DEF Grant, Resting, Start
<1>7. CASE SelectUser(s)
  BY <1>7 DEF SelectUser, Resting, Start
<1>8. CASE InsertUser(s)
  BY <1>8 DEF InsertUser, Resting, Start
<1>9. CASE SelectUserRole(s)
  BY <1>9 DEF SelectUserRole, Resting, Start
<1>10. CASE Assign(s)
  BY <1>10 DEF Assign, Resting, Start
<1>11. CASE Crash(s)
  BY <1>11 DEF Crash, Start, Resting
<1> QED BY <1>1, <1>2, <1>3, <1>4, <1>5, <1>6, <1>7, <1>8, <1>9, <1>10, <1>11 DEF Seed

\* The undisturbed seeders keep what they have put in place.
LEMMA ProgressStep ==
  ASSUME Inv, NEW s \in Seeders, Seed(s)
  PROVE  \A t \in quiet' : Progress(t)'
<1>1. /\ Shape /\ Types /\ RoleNamesUnique /\ Types' /\ Grows /\ Alone(s)
      /\ \A t \in quiet : t \in Seeders /\ Progress(t)
  BY InvParts, SeedStep
<1>2. ASSUME NEW t \in quiet, t # s
      PROVE  Progress(t)'
  <2>1. /\ t \in Seeders /\ Carries(t) /\ Progress(t)
        /\ at'[t] = at[t] /\ turn'[t] = turn[t] /\ todo'[t] = todo[t] /\ found'[t] = found[t]
    BY <1>1, <1>2 DEF Shape, Alone
  <2> QED BY <1>1, <2>1, ProgressStays
<1>3. ASSUME s \in quiet'
      PROVE  Progress(s)'
  <2>1. Start(s) \/ Progress(s)
    BY <1>1, <1>3, QuietStays
  <2> QED BY <1>1, <2>1, ProgressOwn
<1> QED BY <1>2, <1>3, QuietStays

\* An account that holds its role keeps it, if no assignment is removed.
LEMMA OwnRoleStays ==
  ASSUME Types, Types', Grows, NEW n \in Names, HoldsOwnRole(n),
         \A h \in holds : h[1] = n => h \in holds'
  PROVE  HoldsOwnRole(n)'
<1>1. PICK x \in Named(role, n) : <<n, x>> \in holds
  BY DEF HoldsOwnRole
<1>2. <<n, x>> \in holds'
  BY <1>1
<1>3. Named(role, n)' = Named(role, n)
  BY <1>1, RolesStay
<1> QED BY <1>2, <1>3 DEF HoldsOwnRole

\* A step that inserts no account.
LEMMA UneditedKept ==
  ASSUME Inv, Types', Grows, NEW s \in Seeders, Alone(s), edits = 0,
         quiet \subseteq quiet', s \in quiet', account' = account,
         \A h \in holds' : role[h[2]] = h[1], holds \subseteq holds',
         \A g \in grants' : role[g[1]] \in Privileged,
         at'[s] \in InHand => at[s] \in InHand /\ turn'[s] = turn[s],
         dropped \subseteq dropped',
         at[s] \in InHand => \/ at'[s] \in InHand /\ turn'[s] = turn[s]
                             \/ Name(s) \in dropped'
                             \/ \E n \in Names : n = Name(s) /\ HoldsOwnRole(n)'
  PROVE  Unedited' /\ RolelessForCause'
<1>1. /\ Types /\ Unedited /\ RolelessForCause /\ edits' = 0
      /\ \A x \in RoleIds : role[x] # None => role'[x] = role[x]
  BY InvParts, RowsStay DEF Grows
<1>2. \A t \in Seeders \ {s} : at'[t] = at[t] /\ turn'[t] = turn[t] /\ Name(t)' = Name(t)
  BY DEF Alone, Name
<1>3. \A t \in Seeders : at'[t] # "idle" => t \in quiet'
  BY <1>1, <1>2 DEF Unedited
<1>4. ASSUME NEW t \in Seeders, at'[t] \in InHand
      PROVE  account'[Name(t)'] = SeededBy(t)
  <2>1. at[t] \in InHand /\ turn'[t] = turn[t]
    BY <1>2, <1>4
  <2>2. Name(t)' = Name(t)
    BY <2>1 DEF Name
  <2> QED BY <1>1, <2>1, <2>2 DEF Unedited, InHand
<1>5. \A n \in Names : account'[n] # None => Live(n)'
  BY <1>1 DEF Unedited, Live
<1>6. \A h \in holds' : role'[h[2]] = h[1]
  <2>1. SUFFICES ASSUME NEW h \in holds' PROVE role'[h[2]] = h[1]
    OBVIOUS
  <2>2. h[1] \in Names /\ h[2] \in RoleIds
    BY DEF Types, Tables
  <2>3. PICK x \in RoleIds : x = h[2]
    BY <2>2
  <2>4. role[x] = h[1] /\ role[x] # None
    BY <2>2, <2>3, Sentinels
  <2> QED BY <1>1, <2>3, <2>4
<1>7. \A g \in grants' : role'[g[1]] \in Privileged
  <2>1. SUFFICES ASSUME NEW g \in grants' PROVE role'[g[1]] \in Privileged
    OBVIOUS
  <2>2. PICK x \in RoleIds : x = g[1]
    BY DEF Types, Tables
  <2>3. role[x] \in Privileged /\ Privileged \subseteq Names
    BY <2>2, Baselines DEF Privileged
  <2> QED BY <1>1, <2>2, <2>3, Sentinels
<1>8. Unedited'
  BY <1>3, <1>4, <1>5, <1>6, <1>7 DEF Unedited, InHand, SeededBy
<1>9. RolelessForCause'
  <2>1. SUFFICES ASSUME NEW n \in Names, account[n] # None, ~HoldsOwnRole(n)', n \notin dropped'
                 PROVE  \E t \in Seeders : at'[t] \in InHand /\ Name(t)' = n
    BY DEF RolelessForCause, InHand
  <2>2. ~HoldsOwnRole(n)
    BY <1>1, <2>1, OwnRoleStays
  <2>3. PICK t \in Seeders : at[t] \in InHand /\ Name(t) = n
    BY <1>1, <2>1, <2>2 DEF RolelessForCause, InHand
  <2>4. CASE t # s
    BY <1>2, <2>3, <2>4
  <2>5. CASE t = s
    <3>1. at'[s] \in InHand /\ turn'[s] = turn[s]
      BY <2>1, <2>3, <2>5
    <3> QED BY <2>3, <2>5, <3>1 DEF Name
  <2> QED BY <2>4, <2>5
<1> QED BY <1>8, <1>9

\* A new row, which holds nothing yet, while its seeder is about to assign the role.
LEMMA UneditedInsertUser ==
  ASSUME Inv, Types', Grows, NEW s \in Seeders, Alone(s), edits = 0, s \in quiet',
         ~Live(Name(s)), At(s, "selectUserRole", turn[s]),
         account' = [account EXCEPT ![Name(s)] = SeededBy(s)],
         holds' = {h \in holds : h[1] # Name(s)},
         UNCHANGED <<permission, role, grants, edits, quiet, dropped>>
  PROVE  Unedited' /\ RolelessForCause'
<1>1. Types /\ Unedited /\ RolelessForCause /\ Seeding
  BY InvParts
<1>2. PICK m \in Names : m = Name(s)
  BY <1>1, Staying
<1>3. /\ account'[m] = SeededBy(s)
      /\ \A n \in Names : n # m => account'[n] = account[n]
  BY <1>1, <1>2 DEF Types, Tables
<1>4. at'[s] = "selectUserRole" /\ Name(s)' = m
  BY <1>2 DEF At, Name
<1>5. \A t \in Seeders \ {s} : at'[t] = at[t] /\ turn'[t] = turn[t] /\ Name(t)' = Name(t)
  BY DEF Alone, Name
<1>6. SeededBy(s).live = TRUE /\ SeededBy(s) # None
  <2>1. SeededBy(s) \in Account /\ SeededBy(s).live = TRUE
    BY DEF SeededBy, Account
  <2> QED BY <2>1, Sentinels
<1>7. \A t \in Seeders : at'[t] # "idle" => t \in quiet'
  BY <1>1, <1>5 DEF Unedited
<1>8. ASSUME NEW t \in Seeders, at'[t] \in InHand
      PROVE  account'[Name(t)'] = SeededBy(t)
  <2>1. CASE t = s
    BY <1>3, <1>4, <2>1
  <2>2. CASE t # s
    <3>1. at[t] \in InHand /\ Name(t)' = Name(t) /\ Name(t) \in Names
      BY <1>1, <1>5, <1>8, <2>2, Staying
    <3>2. account[Name(t)] = SeededBy(t)
      BY <1>1, <3>1 DEF Unedited, InHand
    <3>3. SeededBy(t) \in Account /\ SeededBy(t).live = TRUE
      BY DEF SeededBy, Account
    <3>4. Live(Name(t))
      BY <3>2, <3>3, Sentinels DEF Live
    <3>5. Name(t) # m
      BY <1>2, <3>4 DEF Live
    <3> QED BY <1>3, <3>1, <3>2, <3>5
  <2> QED BY <2>1, <2>2
<1>9. \A n \in Names : account'[n] # None => Live(n)'
  BY <1>1, <1>3, <1>6 DEF Unedited, Live
<1>10. Unedited'
  BY <1>1, <1>7, <1>8, <1>9 DEF Unedited, InHand, SeededBy
<1>11. RolelessForCause'
  <2>1. SUFFICES ASSUME NEW n \in Names, account'[n] # None, ~HoldsOwnRole(n)', n \notin dropped
                 PROVE  \E t \in Seeders : at'[t] \in InHand /\ Name(t)' = n
    BY DEF RolelessForCause, InHand
  <2>2. CASE n = m
    BY <1>4, <2>2 DEF InHand
  <2>3. CASE n # m
    <3>1. \A h \in holds : h[1] = n => h \in holds'
      BY <1>2, <2>3
    <3>2. ~HoldsOwnRole(n)
      BY <1>1, <2>1, <3>1, OwnRoleStays
    <3>3. PICK t \in Seeders : at[t] \in InHand /\ Name(t) = n
      BY <1>1, <1>3, <2>1, <2>3, <3>2 DEF RolelessForCause, InHand
    <3>4. t # s
      BY <1>2, <2>3, <3>3
    <3> QED BY <1>5, <3>3, <3>4
  <2> QED BY <2>2, <2>3
<1> QED BY <1>10, <1>11

\* Every step of a seeder in a database nobody has edited.
LEMMA UneditedStep ==
  ASSUME Inv, NEW s \in Seeders, Seed(s)
  PROVE  Unedited' /\ RolelessForCause'
<1>1. /\ Shape /\ Types /\ Seeding /\ Unedited /\ RoleNamesUnique /\ Types' /\ Grows /\ Alone(s)
      /\ edits' = edits
  BY InvParts, SeedStep DEF Grows
<1>2. CASE edits # 0
  <2>1. edits' # 0 /\ edits' \in Nat
    BY <1>1, <1>2 DEF Types, Counters
  <2> QED BY <2>1 DEF Unedited, RolelessForCause
<1>3. SUFFICES ASSUME edits = 0 PROVE Unedited' /\ RolelessForCause'
  BY <1>2
<1>4. quiet \subseteq quiet' /\ s \in quiet' /\ (Start(s) \/ (Progress(s) /\ s \in quiet))
  <2>1. Start(s) \/ s \in quiet
    BY <1>1, <1>3, QuietStays DEF Unedited, Resting
  <2>2. quiet \subseteq quiet' /\ (Start(s) => s \in quiet')
    BY QuietStays
  <2>3. s \in quiet => Progress(s)
    BY InvParts
  <2>4. s \in quiet'
    BY <2>1, <2>2
  <2>5. CASE Start(s)
    BY <2>2, <2>4, <2>5
  <2>6. CASE s \in quiet
    BY <2>2, <2>3, <2>4, <2>6
  <2> QED BY <2>1, <2>5, <2>6
<1>5. /\ \A h \in holds : role[h[2]] = h[1]
      /\ \A g \in grants : role[g[1]] \in Privileged
      /\ at[s] \in InHand => account[Name(s)] = SeededBy(s)
  BY <1>1, <1>3 DEF Unedited, InHand
<1>6. ASSUME UNCHANGED <<grants, account, holds, dropped>>,
             at[s] \notin InHand, at'[s] \notin InHand
      PROVE  Unedited' /\ RolelessForCause'
  BY <1>1, <1>3, <1>4, <1>5, <1>6, UneditedKept
<1>7. ASSUME Fail(s)
      PROVE  Unedited' /\ RolelessForCause'
  <2>1. /\ UNCHANGED <<grants, account, holds>>
        /\ dropped' = IF at[s] \in InHand THEN dropped \cup {Name(s)} ELSE dropped
    BY <1>7 DEF Fail, tables, InHand
  <2>2. at'[s] \notin InHand
    BY <1>1, <1>7, Failing DEF At, InHand
  <2>3. dropped \subseteq dropped' /\ (at[s] \in InHand => Name(s) \in dropped')
    BY <2>1
  <2> QED BY <1>1, <1>3, <1>4, <1>5, <2>1, <2>2, <2>3, UneditedKept
<1>8. ASSUME NEW start \in {"insertRole", "selectUser"}, NEW after \in {"selectUser", "done"},
             Onward(s, start, after)
      PROVE  at'[s] \notin InHand
  BY <1>8 DEF Onward, At, InHand
<1>9. CASE Start(s)
  BY <1>1, <1>6, <1>9, StartMoves DEF Start, tables, At, InHand
<1>10. ASSUME NEW n \in Followed, InsertPermission(s, n)
       PROVE  Unedited' /\ RolelessForCause'
  BY <1>1, <1>6, <1>10, InsertPermissionMoves DEF InsertPermission, At, InHand
<1>11. CASE InsertRole(s)
  <2>1. at[s] \notin InHand /\ at'[s] \notin InHand
    BY <1>1, <1>8, <1>11, InsertRoleMoves DEF At, InHand
  <2> QED BY <1>6, <1>11, <2>1 DEF InsertRole
<1>12. CASE SelectRole(s)
  <2>1. at[s] \notin InHand /\ at'[s] \notin InHand
    BY <1>1, <1>8, <1>12, SelectRoleMoves DEF At, InHand
  <2> QED BY <1>6, <1>12, <2>1 DEF SelectRole, tables
<1>13. CASE SelectPermissions(s)
  <2>1. at[s] \notin InHand /\ at'[s] \notin InHand
    BY <1>1, <1>8, <1>13, SelectPermissionsMoves DEF At, InHand
  <2> QED BY <1>6, <1>13, <2>1 DEF SelectPermissions, tables
<1>14. ASSUME NEW p \in PermIds, Grant(s, p)
       PROVE  Unedited' /\ RolelessForCause'
  <2>1. CASE Fail(s)
    BY <1>7, <2>1
  <2>2. CASE ~Fail(s)
    <3>1. /\ at[s] = "grant" /\ grants' = grants \cup {<<found[s], p>>}
          /\ UNCHANGED <<permission, role, account, holds, edits, quiet, dropped>>
          /\ Onward(s, "insertRole", "selectUser") \/ At(s, "grant", turn[s])
      BY <1>1, <1>14, <2>2, GrantMoves
    <3>2. at[s] \notin InHand /\ at'[s] \notin InHand /\ ~Start(s)
      BY <1>8, <3>1 DEF At, InHand, Start
    <3>3. role[found[s]] = Name(s) /\ Name(s) \in Privileged
      BY <1>4, <3>1, <3>2 DEF Progress
    <3>4. \A g \in grants' : role[g[1]] \in Privileged
      BY <1>5, <3>1, <3>3
    <3> QED BY <1>1, <1>3, <1>4, <1>5, <3>1, <3>2, <3>4, UneditedKept
  <2> QED BY <2>1, <2>2
<1>15. CASE SelectUser(s)
  <2>1. at[s] \notin InHand /\ at'[s] \notin InHand
    BY <1>1, <1>8, <1>15, SelectUserMoves DEF At, InHand
  <2> QED BY <1>6, <1>15, <2>1 DEF SelectUser, tables
<1>16. CASE InsertUser(s)
  <2>1. CASE Fail(s)
    BY <1>7, <2>1
  <2>2. CASE ~Fail(s)
    <3>1. /\ ~Live(Name(s)) /\ At(s, "selectUserRole", turn[s])
          /\ account' = [account EXCEPT ![Name(s)] = SeededBy(s)]
          /\ holds' = {h \in holds : h[1] # Name(s)}
          /\ UNCHANGED <<permission, role, grants, edits, quiet, dropped>>
      BY <1>1, <1>16, <2>2, InsertUserMoves
    <3> QED BY <1>1, <1>3, <1>4, <3>1, UneditedInsertUser
  <2> QED BY <2>1, <2>2
<1>17. CASE SelectUserRole(s)
  <2>1. /\ at[s] = "selectUserRole"
        /\ Named(role, Name(s)) = {} \/ At(s, "assign", turn[s])
        /\ UNCHANGED <<grants, account, holds, dropped>>
    BY <1>1, <1>17, SelectUserRoleMoves DEF SelectUserRole, tables
  <2>2. ~Start(s)
    BY <2>1 DEF Start
  <2>3. PICK i \in 1..3 : i = turn[s]
    BY <1>1 DEF Seeding
  <2>4. RoleDone(i) /\ Name(s) = Baseline[i]
    BY <1>4, <2>1, <2>2, <2>3 DEF Progress, InUsers, Name
  <2>5. at'[s] = "assign" /\ turn'[s] = turn[s]
    BY <2>1, <2>4 DEF RoleDone, RoleThere, At
  <2>6. at[s] \in InHand /\ at'[s] \in InHand /\ turn'[s] = turn[s]
    BY <2>1, <2>5 DEF InHand
  <2> QED BY <1>1, <1>3, <1>4, <1>5, <2>1, <2>6, UneditedKept
<1>18. CASE Assign(s)
  <2>1. CASE Fail(s)
    BY <1>7, <2>1
  <2>2. CASE ~Fail(s)
    <3>1. /\ at[s] = "assign" /\ Onward(s, "selectUser", "done")
          /\ holds' = IF account[Name(s)].by = s THEN holds \cup {<<Name(s), found[s]>>}
                      ELSE holds
          /\ UNCHANGED <<permission, role, grants, account, edits, quiet, dropped>>
      BY <1>1, <1>18, <2>2, AssignMoves
    <3>2. ~Start(s) /\ at'[s] \notin InHand
      BY <1>8, <3>1 DEF Start
    <3>3. role[found[s]] = Name(s) /\ found[s] \in RoleIds
      BY <1>1, <1>4, <3>1, <3>2 DEF Progress, Shape, Carries
    <3>4. account[Name(s)].by = s
      BY <1>5, <3>1 DEF InHand, SeededBy
    <3>5. holds' = holds \cup {<<Name(s), found[s]>>}
      BY <3>1, <3>4
    <3>6. \A h \in holds' : role[h[2]] = h[1]
      BY <1>5, <3>3, <3>5
    <3>7. PICK n \in Names : n = Name(s)
      BY <1>1, Staying
    <3>8. found[s] \in Named(role, n)'
      BY <1>1, <3>1, <3>3, <3>7 DEF Named, Types, Tables
    <3>9. HoldsOwnRole(n)'
      BY <3>5, <3>7, <3>8 DEF HoldsOwnRole
    <3> QED BY <1>1, <1>3, <1>4, <1>5, <3>1, <3>2, <3>5, <3>6, <3>7, <3>9, UneditedKept
  <2> QED BY <2>1, <2>2
<1>19. CASE Crash(s)
  BY <1>7, <1>19 DEF Crash
<1> QED BY <1>9, <1>10, <1>11, <1>12, <1>13, <1>14, <1>15, <1>16, <1>17, <1>18, <1>19 DEF Seed

\* Every step of a seeder.
LEMMA SeedInv ==
  ASSUME Inv, NEW s \in Seeders, Seed(s)
  PROVE  Inv'
<1>1. Shape /\ Types /\ RoleNamesUnique /\ Types' /\ Grows
  BY InvParts, SeedStep
<1> QED BY <1>1, SeedShape, UniqueStays, ProgressStep, UneditedStep DEF Inv

-----------------------------------------------------------------------------
(***************************************************************************)
(* The invariant, through every edit and from the start.                   *)
(***************************************************************************)
\* What every edit does besides its change: it counts, and no run is undisturbed any more.
LEMMA Edited ==
  ASSUME Inv, NEW route, Edit(route), Tables', RoleNamesUnique'
  PROVE  Inv'
<1>1. /\ Shape /\ Types /\ Counters /\ Seeding
  BY InvParts, TypeParts
<1>2. /\ edits < MaxEdits /\ edits' = edits + 1 /\ quiet' = {}
      /\ UNCHANGED <<at, turn, todo, found, dropped>>
  BY DEF Edit, seeding
<1>3. edits' \in 0..MaxEdits /\ edits' > 0
  BY <1>1, <1>2, EditsAreBounded DEF Counters
<1>4. Counters' /\ Seeding'
  BY <1>1, <1>2, <1>3 DEF Counters, Seeding
<1>5. \A s \in Seeders : Carries(s)'
  BY <1>1, <1>2 DEF Shape, Carries
<1>6. Shape'
  BY <1>4, <1>5, TypeParts DEF Shape
<1>7. edits' # 0
  BY <1>3
<1> QED BY <1>2, <1>3, <1>6, <1>7 DEF Inv, Unedited, RolelessForCause

\* Every edit.
LEMMA AdministerInv ==
  ASSUME Inv, Administer
  PROVE  Inv'
<1>1. Types /\ Tables /\ RoleNamesUnique
  BY InvParts, TypeParts
<1>2. ASSUME UNCHANGED role, Tables'
      PROVE  RoleNamesUnique'
  BY <1>1, <1>2 DEF RoleNamesUnique
<1>3. ASSUME NEW p \in Existing(permission), RemovePermission(p)
      PROVE  Inv'
  <2>1. Tables' /\ UNCHANGED role
    BY <1>1, <1>3 DEF RemovePermission, Tables
  <2> QED BY <1>2, <1>3, <2>1, Edited DEF RemovePermission
<1>4. ASSUME NEW p \in Existing(permission), NEW n \in Followed \cup {Other}, UpdatePermission(p, n)
      PROVE  Inv'
  <2>1. Tables' /\ UNCHANGED role
    BY <1>1, <1>4 DEF UpdatePermission, Tables
  <2> QED BY <1>2, <1>4, <2>1, Edited DEF UpdatePermission
<1>5. ASSUME NEW x \in Existing(role), RemoveRole(x)
      PROVE  Inv'
  <2>1. x \in RoleIds /\ role' = [role EXCEPT ![x] = Gone]
    BY <1>1, <1>5 DEF RemoveRole, Existing, Tables
  <2>2. Tables'
    BY <1>1, <1>5 DEF RemoveRole, Tables
  <2>3. RoleNamesUnique'
    BY <1>1, <2>1, Sentinels DEF RoleNamesUnique, Tables
  <2> QED BY <1>5, <2>2, <2>3, Edited DEF RemoveRole
<1>6. ASSUME NEW x \in Existing(role), NEW n \in Names \cup {Other},
             NEW list \in SUBSET Existing(permission), UpdateRole(x, n, list)
      PROVE  Inv'
  <2>1. x \in RoleIds /\ list \subseteq PermIds
    BY <1>1 DEF Existing, Tables
  <2>2. /\ role' = [role EXCEPT ![x] = n] /\ Named(role, n) \subseteq {x}
        /\ grants' = {g \in grants : g[1] # x} \cup ({x} \X list)
        /\ UNCHANGED <<permission, account, holds>>
    BY <1>6 DEF UpdateRole, Free
  <2>3. Tables'
    <3>1. role' \in [RoleIds -> Names \cup {Other, None, Gone}]
      BY <1>1, <2>2 DEF Tables
    <3>2. grants' \subseteq RoleIds \X PermIds
      BY <1>1, <2>1, <2>2 DEF Tables
    <3> QED BY <1>1, <2>2, <3>1, <3>2 DEF Tables
  <2>4. RoleNamesUnique'
    <3>1. SUFFICES ASSUME NEW y \in RoleIds, NEW z \in RoleIds, role'[y] \in Names,
                          role'[z] = role'[y]
                   PROVE  y = z
      BY DEF RoleNamesUnique
    <3>2. \A w \in RoleIds : role'[w] = IF w = x THEN n ELSE role[w]
      BY <1>1, <2>2 DEF Tables
    <3>3. \A w \in RoleIds : role[w] = n => w = x
      BY <1>1, <2>2 DEF Named, Tables
    <3> QED BY <1>1, <3>1, <3>2, <3>3 DEF RoleNamesUnique
  <2> QED BY <1>6, <2>3, <2>4, Edited DEF UpdateRole
<1>7. ASSUME NEW n \in Names, RemoveUser(n)
      PROVE  Inv'
  <2>1. /\ Live(n) /\ account' = [account EXCEPT ![n].live = FALSE]
        /\ UNCHANGED <<permission, role, grants, holds>>
    BY <1>7 DEF RemoveUser
  <2>2. account[n] \in Account
    BY <1>1, <2>1 DEF Live, Tables
  <2>3. [account[n] EXCEPT !.live = FALSE] \in Account
    BY <2>2 DEF Account
  <2>4. Tables'
    BY <1>1, <2>1, <2>3 DEF Tables
  <2> QED BY <1>2, <1>7, <2>1, <2>4, Edited DEF RemoveUser
<1>8. ASSUME NEW n \in Names, UpdatePassword(n)
      PROVE  Inv'
  <2>1. /\ Live(n) /\ account' = [account EXCEPT ![n].password = "chosen"]
        /\ UNCHANGED <<permission, role, grants, holds>>
    BY <1>8 DEF UpdatePassword
  <2>2. account[n] \in Account
    BY <1>1, <2>1 DEF Live, Tables
  <2>3. [account[n] EXCEPT !.password = "chosen"] \in Account
    BY <2>2 DEF Account
  <2>4. Tables'
    BY <1>1, <2>1, <2>3 DEF Tables
  <2> QED BY <1>2, <1>8, <2>1, <2>4, Edited DEF UpdatePassword
<1>9. ASSUME NEW n \in Names, Register(n)
      PROVE  Inv'
  <2>1. /\ account' = [account EXCEPT ![n] = [by |-> None, live |-> TRUE, password |-> "chosen"]]
        /\ holds' = {h \in holds : h[1] # n}
        /\ UNCHANGED <<permission, role, grants>>
    BY <1>9 DEF Register
  <2>2. [by |-> None, live |-> TRUE, password |-> "chosen"] \in Account
    BY DEF Account
  <2>3. Tables'
    BY <1>1, <2>1, <2>2 DEF Tables
  <2> QED BY <1>2, <1>9, <2>1, <2>3, Edited DEF Register
<1>10. ASSUME NEW n \in Names, NEW list \in SUBSET Existing(role), UpdateUser(n, list)
       PROVE  Inv'
  <2>1. /\ holds' = {h \in holds : h[1] # n} \cup ({n} \X list)
        /\ UNCHANGED <<permission, role, grants, account>>
    BY <1>10 DEF UpdateUser
  <2>2. list \subseteq RoleIds
    BY <1>1 DEF Existing, Tables
  <2>3. holds' \subseteq Names \X RoleIds
    BY <1>1, <2>1, <2>2 DEF Tables
  <2>4. Tables'
    BY <1>1, <2>1, <2>3 DEF Tables
  <2> QED BY <1>2, <1>10, <2>1, <2>4, Edited DEF UpdateUser
<1>11. \/ \E p \in Existing(permission) :
            RemovePermission(p) \/ \E n \in Followed \cup {Other} : UpdatePermission(p, n)
       \/ \E x \in Existing(role) :
            \/ RemoveRole(x)
            \/ \E n \in Names \cup {Other}, list \in SUBSET Existing(permission) :
                 UpdateRole(x, n, list)
       \/ \E n \in Names :
            \/ RemoveUser(n) \/ UpdatePassword(n) \/ Register(n)
            \/ \E list \in SUBSET Existing(role) : UpdateUser(n, list)
  BY DEF Administer
<1> QED BY <1>3, <1>4, <1>5, <1>6, <1>7, <1>8, <1>9, <1>10, <1>11

\* The empty database.
LEMMA InitInv == Init => Inv
<1>0. SUFFICES ASSUME Init PROVE Inv
  OBVIOUS
<1>1. /\ permission = [p \in PermIds |-> None] /\ role = [x \in RoleIds |-> None]
      /\ grants = {} /\ holds = {} /\ account = [n \in Names |-> None]
      /\ at = [s \in Seeders |-> "idle"] /\ turn = [s \in Seeders |-> 1]
      /\ todo = [s \in Seeders |-> {}] /\ found = [s \in Seeders |-> None]
      /\ edits = 0 /\ quiet = {} /\ dropped = {}
  BY <1>0 DEF Init
<1>2. Tables
  BY <1>1 DEF Tables
<1>3. Seeding
  BY <1>1, PlacesAre DEF Seeding
<1>4. Counters
  BY <1>1, EditsAreBounded DEF Counters
<1>5. \A s \in Seeders : at[s] = "idle"
  BY <1>1
<1>6. Shape
  BY <1>2, <1>3, <1>4, <1>5, TypeParts DEF Shape, Carries
<1>7. RoleNamesUnique
  BY <1>1, Sentinels DEF RoleNamesUnique
<1>8. Unedited /\ RolelessForCause
  BY <1>1, <1>5 DEF Unedited, RolelessForCause
<1> QED BY <1>1, <1>6, <1>7, <1>8 DEF Inv

\* Nothing happens.
LEMMA SameInv ==
  ASSUME Inv, UNCHANGED vars
  PROVE  Inv'
<1>1. UNCHANGED <<permission, role, grants, account, holds, at, turn, todo, found, edits, quiet,
                  dropped>>
  BY DEF vars, tables, seeding
<1>2. Tables' /\ Seeding' /\ Counters'
  BY <1>1, InvParts, TypeParts DEF Tables, Seeding, Counters
<1>3. Shape'
  BY <1>1, <1>2, InvParts, TypeParts DEF Shape, Carries
<1>4. RoleNamesUnique'
  BY <1>1, InvParts DEF RoleNamesUnique
<1>5. Grows
  BY <1>1, InvParts, TablesSame DEF tables
<1>6. \A s \in quiet' : Progress(s)'
  BY <1>1, <1>3, <1>5, InvParts, ProgressStays DEF Shape
<1>7. Unedited'
  BY <1>1, InvParts DEF Unedited, Live, Name, SeededBy
<1>8. RolelessForCause'
  BY <1>1, InvParts DEF RolelessForCause, HoldsOwnRole, Named, Name
<1> QED BY <1>3, <1>4, <1>6, <1>7, <1>8 DEF Inv

\* Every step.
LEMMA StepInv == Inv /\ [Next]_vars => Inv'
BY SeedInv, AdministerInv, SameInv DEF Next

-----------------------------------------------------------------------------
(***************************************************************************)
(* What follows from it.                                                   *)
(***************************************************************************)
(***************************************************************************)
(* In every reachable state each seeder that nobody has disturbed since it *)
(* started has put in place what its position says, however many seeders   *)
(* run and wherever they die.                                              *)
(***************************************************************************)
THEOREM Invariance == Spec => []Inv
<1> QED BY InitInv, StepInv, PTL DEF Spec

(***************************************************************************)
(* Every variable keeps its type, whoever seeds and edits: the tables keep *)
(* names, the join tables ids, and a seeder a place and a position.        *)
(***************************************************************************)
THEOREM CatalogueTypeCorrect == Spec => []TypeOK
<1>1. Inv /\ opened \subseteq EditRoutes => TypeOK
  BY InvParts DEF Types, Tables, Seeding, Counters, TypeOK
<1>2. Init => opened \subseteq EditRoutes
  BY DEF Init, Opened
<1>3. opened \subseteq EditRoutes /\ [Next]_vars => (opened \subseteq EditRoutes)'
  BY DEF Next, Opened, vars
<1> QED BY <1>1, <1>2, <1>3, Invariance, PTL DEF Spec

(***************************************************************************)
(* seed/index.ts:12-18: a run that completes with no edit since it started *)
(* leaves every permission, role, grant and account in place, whatever     *)
(* other seeders do and wherever earlier ones died.                        *)
(***************************************************************************)
THEOREM RunsComplete == Spec => []CompletedRunCompletes
<1>1. Inv => CompletedRunCompletes
  <2>1. SUFFICES ASSUME Inv, NEW s \in quiet, at[s] = "done"
                 PROVE  /\ \A n \in Followed : Named(permission, n) # {}
                        /\ \A n \in Names : Named(role, n) # {} /\ account[n] # None
                        /\ \A x \in RoleIds, p \in Existing(permission) :
                             role[x] \in Privileged => <<x, p>> \in grants
    BY DEF CompletedRunCompletes
  <2>2. Seeded /\ \A i \in 1..3 : RoleDone(i) /\ UserDone(i)
    BY <2>1 DEF Inv, Progress
  <2>3. \A n \in Names : Named(role, n) # {} /\ account[n] # None
    BY <2>2, Baselines DEF RoleDone, RoleThere, UserDone
  <2>4. ASSUME NEW x \in RoleIds, NEW p \in Existing(permission), role[x] \in Privileged
        PROVE  <<x, p>> \in grants
    <3>1. PICK i \in 1..3 : role[x] = Baseline[i]
      BY <2>4, Baselines DEF Privileged
    <3>2. x \in Named(role, Baseline[i])
      BY <2>1, <3>1, InvParts DEF Named, Types, Tables
    <3> QED BY <2>2, <2>4, <3>1, <3>2 DEF RoleDone, Granted
  <2> QED BY <2>2, <2>3, <2>4 DEF Seeded
<1> QED BY <1>1, Invariance, PTL

(***************************************************************************)
(* user.seed.ts:13-58: an account that is there lacks its role because of  *)
(* an edit, because its seeder ended before assigning it, or because that  *)
(* seeder is about to; a race of two seeders never leaves it so.           *)
(***************************************************************************)
THEOREM RolelessCorrect == Spec => []RolelessForCause
<1>1. Inv => RolelessForCause
  BY DEF Inv
<1> QED BY <1>1, Invariance, PTL

\* No row that is there changes.
Keeps ==
  /\ \A p \in PermIds : permission[p] # None => permission'[p] = permission[p]
  /\ \A x \in RoleIds : role[x] # None => role'[x] = role[x]
  /\ grants \subseteq grants'
  /\ \A n \in Names : Live(n) => account'[n] = account[n]
  /\ \A h \in holds : Live(h[1]) => h \in holds'

\* A seeder replaces no live account and removes nothing it holds.
LEMMA HoldingsKept ==
  ASSUME Inv, NEW s \in Seeders, Seed(s)
  PROVE  /\ \A n \in Names : Live(n) => account'[n] = account[n]
         /\ \A h \in holds : Live(h[1]) => h \in holds'
<1>1. Seeding /\ Types
  BY InvParts
<1>2. ASSUME UNCHANGED <<account, holds>>
      PROVE  /\ \A n \in Names : Live(n) => account'[n] = account[n]
             /\ \A h \in holds : Live(h[1]) => h \in holds'
  BY <1>2
<1>3. CASE Fail(s)
  BY <1>2, <1>3 DEF Fail, tables
<1>4. CASE Start(s)
  BY <1>2, <1>4 DEF Start, tables
<1>5. CASE \E n \in Followed : InsertPermission(s, n)
  BY <1>2, <1>5 DEF InsertPermission
<1>6. CASE InsertRole(s)
  BY <1>2, <1>6 DEF InsertRole
<1>7. CASE SelectRole(s)
  BY <1>2, <1>7 DEF SelectRole, tables
<1>8. CASE SelectPermissions(s)
  BY <1>2, <1>8 DEF SelectPermissions, tables
<1>9. CASE \E p \in PermIds : Grant(s, p)
  <2>1. PICK p \in PermIds : Grant(s, p)
    BY <1>9
  <2>2. Fail(s) \/ UNCHANGED <<account, holds>>
    BY <2>1 DEF Grant
  <2> QED BY <1>2, <1>3, <2>2
<1>10. CASE SelectUser(s)
  BY <1>2, <1>10 DEF SelectUser, tables
<1>11. CASE InsertUser(s)
  <2>1. CASE Live(Name(s))
    BY <1>3, <1>11, <2>1 DEF InsertUser
  <2>2. CASE ~Live(Name(s))
    <3>1. /\ account' = [account EXCEPT ![Name(s)] = SeededBy(s)]
          /\ holds' = {h \in holds : h[1] # Name(s)}
      BY <1>11, <2>2 DEF InsertUser
    <3>2. ASSUME NEW n \in Names, Live(n)
          PROVE  n # Name(s)
      BY <2>2, <3>2
    <3>3. \A n \in Names : Live(n) => account'[n] = account[n]
      BY <1>1, <3>1, <3>2 DEF Types, Tables
    <3>4. \A h \in holds : Live(h[1]) => h \in holds'
      BY <1>1, <3>1, <3>2 DEF Types, Tables
    <3> QED BY <3>3, <3>4
  <2> QED BY <2>1, <2>2
<1>12. CASE SelectUserRole(s)
  BY <1>2, <1>12 DEF SelectUserRole, tables
<1>13. CASE Assign(s)
  <2>1. CASE role[found[s]] = Gone
    BY <1>3, <1>13, <2>1 DEF Assign
  <2>2. CASE role[found[s]] # Gone
    <3>1. account' = account /\ holds \subseteq holds'
      BY <1>13, <2>2 DEF Assign
    <3> QED BY <3>1
  <2> QED BY <2>1, <2>2
<1>14. CASE Crash(s)
  BY <1>3, <1>14 DEF Crash
<1> QED BY <1>4, <1>5, <1>6, <1>7, <1>8, <1>9, <1>10, <1>11, <1>12, <1>13, <1>14 DEF Seed

\* An edit is counted.
LEMMA AdministerEdits ==
  ASSUME Inv, Administer
  PROVE  edits' # edits
<1>1. edits \in Nat
  BY InvParts, EditsAreBounded DEF Types, Counters
<1>2. edits' = edits + 1
  BY DEF Administer, RemovePermission, UpdatePermission, RemoveRole, UpdateRole, RemoveUser,
         UpdatePassword, Register, UpdateUser, Edit
<1> QED BY <1>1, <1>2

(***************************************************************************)
(* user.seed.ts:10-12, permission.seed.ts:4-7: however often and however   *)
(* many at once seeders run, they change no name, remove no grant or       *)
(* assignment and rewrite no live account.                                 *)
(***************************************************************************)
THEOREM SeederAdds == Spec => SeederOnlyAdds
<1>1. Inv /\ [Next]_vars => [edits' = edits => Keeps]_vars
  <2>1. SUFFICES ASSUME Inv, NEW s \in Seeders, Seed(s)
                 PROVE  Keeps
    BY AdministerEdits DEF Next
  <2>2. Shape /\ Grows /\ Types
    BY <2>1, InvParts, SeedStep
  <2>3. /\ \A p \in PermIds : permission[p] # None => permission'[p] = permission[p]
        /\ \A x \in RoleIds : role[x] # None => role'[x] = role[x]
        /\ grants \subseteq grants'
    BY <2>2 DEF Grows, Adds, Types, Tables
  <2> QED BY <2>1, <2>3, HoldingsKept DEF Keeps
<1> QED BY <1>1, Invariance, PTL DEF Spec, SeederOnlyAdds, Keeps

\* Of all that a seeder does only Assign adds to the assignments.
LEMMA AssignsOwnRow ==
  ASSUME Inv, NEW s \in Seeders, Seed(s), NEW h \in holds' \ holds
  PROVE  Assign(s) /\ h[1] = Name(s) /\ account[h[1]].by = s /\ at'[s] # "assign"
<1>1. Seeding
  BY InvParts
<1>2. holds' \subseteq holds \/ Assign(s)
  BY DEF Seed, Start, InsertPermission, InsertRole, SelectRole, SelectPermissions, Grant,
         SelectUser, InsertUser, SelectUserRole, Crash, Fail, tables
<1>3. Assign(s)
  BY <1>2
<1>4. ~Fail(s)
  BY DEF Fail, tables
<1>5. /\ holds' = IF account[Name(s)].by = s THEN holds \cup {<<Name(s), found[s]>>} ELSE holds
      /\ Onward(s, "selectUser", "done")
  BY <1>1, <1>3, <1>4, AssignMoves
<1>6. h = <<Name(s), found[s]>> /\ account[Name(s)].by = s
  BY <1>5
<1>7. at'[s] # "assign"
  BY <1>5 DEF Onward, At
<1> QED BY <1>3, <1>6, <1>7

(***************************************************************************)
(* user.seed.ts:54-58: a run of the seeder gives a role only to the row it *)
(* inserted, for any number of seeders and edits between the insert and    *)
(* the assignment.                                                         *)
(***************************************************************************)
THEOREM SeederAssigns == Spec => SeederAssignsOwnRow
<1>1. Inv /\ [Next]_vars =>
        [edits' = edits => \A h \in holds' \ holds :
           \E s \in Seeders : at[s] = "assign" /\ at'[s] # "assign" /\ account[h[1]].by = s]_vars
  <2>1. SUFFICES ASSUME Inv, NEW s \in Seeders, Seed(s), NEW h \in holds' \ holds
                 PROVE  at[s] = "assign" /\ at'[s] # "assign" /\ account[h[1]].by = s
    BY AdministerEdits DEF Next
  <2> QED BY <2>1, AssignsOwnRow DEF Assign
<1> QED BY <1>1, Invariance, PTL DEF Spec, SeederAssignsOwnRow

\* What the documentation asks for is in the seeded vocabulary.
LEMMA Needed ==
  \A n \in DOMAIN DocumentedPermission : DocumentedPermission[n] \in Vocabulary
BY DEF DocumentedPermission, Vocabulary

\* In a seeded database nobody has edited, who holds what.
LEMMA SeededIdentities ==
  ASSUME Inv, edits = 0, \A n \in Names : HoldsOwnRole(n), NEW s \in Seeders, at[s] = "done"
  PROVE  /\ \A n \in Names : Identity(n).known /\ Identity(n).roles = {n}
         /\ Identity("user").permissions = {}
         /\ \A q \in Followed : q \in Identity("admin").permissions
<1>1. Types /\ Unedited /\ RoleNamesUnique /\ s \in quiet /\ Progress(s)
  BY InvParts DEF Unedited
<1>2. Seeded /\ \A i \in 1..3 : RoleDone(i) /\ UserDone(i)
  BY <1>1 DEF Progress
<1>3. \A n \in Names : Live(n)
  BY <1>1, <1>2, Baselines DEF UserDone, Unedited
<1>4. \A n \in Names, x \in RoleIds : <<n, x>> \in holds => role[x] = n
  BY <1>1 DEF Unedited
<1>5. \A n \in Names : \E x \in RoleIds : role[x] = n /\ <<n, x>> \in holds
  BY <1>1 DEF HoldsOwnRole, Named, Types, Tables
<1>6. \A n \in Names : Identity(n).known /\ Identity(n).roles = {n}
  <2>1. SUFFICES ASSUME NEW n \in Names
                 PROVE  Identity(n).known /\ Identity(n).roles = {n}
    OBVIOUS
  <2>2. /\ Identity(n).known
        /\ Identity(n).roles = {role[x] : x \in {y \in RoleIds : <<n, y>> \in holds}}
    BY <1>3 DEF Identity
  <2>3. PICK x \in RoleIds : role[x] = n /\ <<n, x>> \in holds
    BY <1>5
  <2>4. \A y \in {z \in RoleIds : <<n, z>> \in holds} : role[y] = n
    BY <1>4
  <2>5. {role[y] : y \in {z \in RoleIds : <<n, z>> \in holds}} = {n}
    BY <2>3, <2>4
  <2> QED BY <2>2, <2>5
<1>7. \A n \in Names : Identity(n).permissions =
        {permission[g[2]] : g \in {h \in grants : h[1] \in {x \in RoleIds : <<n, x>> \in holds}}}
  BY <1>3 DEF Identity
<1>8. Identity("user").permissions = {}
  <2>1. \A g \in grants : role[g[1]] # "user"
    BY <1>1 DEF Unedited, Privileged
  <2>2. \A x \in RoleIds : <<"user", x>> \in holds => role[x] = "user"
    BY <1>4, Baselines
  <2>3. {h \in grants : h[1] \in {x \in RoleIds : <<"user", x>> \in holds}} = {}
    BY <2>1, <2>2
  <2>4. Identity("user").permissions =
          {permission[g[2]] :
             g \in {h \in grants : h[1] \in {x \in RoleIds : <<"user", x>> \in holds}}}
    BY <1>7, Baselines
  <2> QED BY <2>3, <2>4
<1>9. ASSUME NEW q \in Followed
      PROVE  q \in Identity("admin").permissions
  <2>1. PICK x \in RoleIds : role[x] = "admin" /\ <<"admin", x>> \in holds
    BY <1>5, Baselines
  <2>2. PICK p \in PermIds : permission[p] = q
    BY <1>1, <1>2 DEF Seeded, Named, Types, Tables
  <2>3. p \in Existing(permission)
    BY <1>1, <2>2, Sentinels DEF Existing, Types, Tables
  <2>4. x \in Named(role, Baseline[2]) /\ Baseline[2] \in Privileged /\ 2 \in 1..3
    BY <1>1, <2>1, Baselines DEF Named, Types, Tables, Privileged
  <2>5. <<x, p>> \in grants
    BY <1>2, <2>3, <2>4 DEF RoleDone, Granted
  <2>6. <<x, p>> \in {h \in grants : h[1] \in {y \in RoleIds : <<"admin", y>> \in holds}}
    BY <2>1, <2>5
  <2>7. permission[<<x, p>>[2]] = q
    BY <2>2
  <2> QED BY <1>7, <2>6, <2>7, Baselines
<1> QED BY <1>6, <1>8, <1>9

(***************************************************************************)
(* docs/SECURITY.md:50-60: in a database that is seeded and not edited the *)
(* accounts pass exactly the gates the documentation says, for every route *)
(* of the table and whichever part of the vocabulary is followed.          *)
(***************************************************************************)
THEOREM SeededCorrect == Spec => []SeededGatesOpen
<1>1. Inv => SeededGatesOpen
  <2>1. SUFFICES ASSUME Inv, edits = 0, \A n \in Names : HoldsOwnRole(n),
                        \E s \in Seeders : at[s] = "done"
                 PROVE  /\ \A name \in DOMAIN DocumentedPermission :
                             LET needed == Declared(Routes[name], "permissions")
                             IN  /\ needed \subseteq Vocabulary
                                 /\ needed \subseteq Followed => Passes(name, Identity("admin"))
                                 /\ Passes(name, Identity("superuser"))
                                 /\ ~Passes(name, Identity("user"))
                        /\ \A name \in DocumentedSuperuser :
                             Passes(name, Identity("superuser")) /\ ~Passes(name, Identity("admin"))
    BY DEF SeededGatesOpen
  <2>2. PICK a, su, u : a = Identity("admin") /\ su = Identity("superuser") /\ u = Identity("user")
    OBVIOUS
  <2>3. /\ a.known /\ su.known /\ u.known
        /\ a.roles = {"admin"} /\ su.roles = {"superuser"} /\ u.roles = {"user"}
        /\ u.permissions = {} /\ \A q \in Followed : q \in a.permissions
    BY <2>1, <2>2, SeededIdentities, Baselines
  <2>4. ASSUME NEW name \in DOMAIN DocumentedPermission
        PROVE  /\ Declared(Routes[name], "permissions") \subseteq Vocabulary
               /\ Declared(Routes[name], "permissions") \subseteq Followed => Passes(name, a)
               /\ Passes(name, su) /\ ~Passes(name, u)
    <3>1. PICK q : q = DocumentedPermission[name]
      OBVIOUS
    <3>2. Asks(name, {q}, {}) /\ Declared(Routes[name], "permissions") = {q}
      BY <3>1, PermissionRoutesAsk DEF Asks
    <3>3. q \in Vocabulary
      BY <3>1, Needed
    <3>4. ({q} \subseteq Followed => Passes(name, a)) /\ Passes(name, su)
      BY <2>3, <3>2, KnownAnswer DEF Passes
    <3>5. ~Passes(name, u)
      BY <2>3, <3>2, KnownAnswer DEF Passes
    <3> QED BY <3>2, <3>3, <3>4, <3>5
  <2>5. ASSUME NEW name \in DocumentedSuperuser
        PROVE  Passes(name, su) /\ ~Passes(name, a)
    <3>1. Asks(name, {}, {"superuser"})
      BY SuperuserRoutesAsk
    <3>2. Passes(name, su)
      BY <2>3, <3>1, KnownAnswer DEF Passes
    <3>3. ~Passes(name, a)
      BY <2>3, <3>1, KnownAnswer DEF Passes
    <3> QED BY <3>2, <3>3
  <2> QED BY <2>2, <2>4, <2>5
<1> QED BY <1>1, Invariance, PTL
=============================================================================
