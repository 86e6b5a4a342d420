-------------------------- MODULE RbacCacheProofs --------------------------
(***************************************************************************)
(* Theorems about RbacCache, for every value of its constants: any number  *)
(* of users, roles, permissions, names and requests.  The invariant joins  *)
(* what a request carries, the foreign keys, and the rule that a cached    *)
(* identity, or one on its way to the cache, is wrong about roles or       *)
(* grants only while its delete is owed or because it was lost.            *)
(***************************************************************************)
EXTENDS RbacCache, TLAPS

(***************************************************************************)
(* What a request under way carries: which kind of row it is about, the    *)
(* list it was given, and an identity or users to forget only where the    *)
(* code has them in hand.                                                  *)
(***************************************************************************)
Carries(r) ==
  /\ pc[r] \in {"authRead", "authFill", "assign"} => subject[r] \in Users
  /\ pc[r] \in {"regrant", "findHolders", "removeRole"} => subject[r] \in Roles
  /\ pc[r] \in {"rename", "removePermission"} => subject[r] \in Perms
  /\ pc[r] = "assign" => wanted[r] \subseteq Roles
  /\ pc[r] = "regrant" => wanted[r] \subseteq Perms
  /\ fill[r] # None => pc[r] = "authFill"
  /\ todo[r] # {} => pc[r] \in {"removeRole", "drop"}

\* The foreign keys of the two join tables.
Anchored ==
  /\ \A h \in holds : h[2] \in roles
  /\ \A g \in grants : g[1] \in roles /\ name[g[2]] # None

\* StaleRolesExcusedEverywhere, of every user an identity may be about.
Sound ==
  /\ \A u \in Users : Excused(cache[u], u)
  /\ \A r \in Requests, u \in Users : subject[r] = u => Excused(fill[r], u)

Shape == TypeOK /\ Anchored /\ \A r \in Requests : Carries(r)

Inv == Shape /\ Sound

-----------------------------------------------------------------------------
(***************************************************************************)
(* What a request carries, and the foreign keys, step by step.             *)
(***************************************************************************)
\* A request that takes no part in a step, though a change may mark the
\* identity it carries.
Unmoved(q) ==
  /\ pc'[q] = pc[q] /\ subject'[q] = subject[q] /\ wanted'[q] = wanted[q] /\ todo'[q] = todo[q]
  /\ fill'[q] # None => fill[q] # None

Others(r) == \A q \in Requests \ {r} : Unmoved(q)

TypedTables ==
  /\ roles \subseteq Roles
  /\ name \in [Perms -> Names \cup {None}]
  /\ holds \subseteq Users \X Roles
  /\ grants \subseteq Roles \X Perms

LEMMA TablesSame ==
  ASSUME Shape, UNCHANGED tables
  PROVE  TypedTables' /\ Anchored'
BY DEF Shape, TypeOK, TypedTables, Anchored, tables

LEMMA ShapeMoved ==
  ASSUME Shape, NEW r \in Requests, TypeOK', Anchored', Carries(r)', Others(r)
  PROVE  Shape'
<1>1. ASSUME NEW q \in Requests \ {r}
      PROVE  Carries(q)'
  BY <1>1 DEF Shape, Carries, Others, Unmoved
<1> QED BY <1>1 DEF Shape

LEMMA BeginEffect ==
  ASSUME TypeOK, NEW r \in Requests, NEW place \in Places,
         NEW about \in Users \cup Roles \cup Perms, NEW list \in SUBSET (Roles \cup Perms),
         Begin(r, place, about, list)
  PROVE  /\ pc[r] = "idle" /\ pc'[r] = place /\ subject'[r] = about /\ wanted'[r] = list
         /\ pc' \in [Requests -> Places]
         /\ subject' \in [Requests -> Users \cup Roles \cup Perms \cup {None}]
         /\ wanted' \in [Requests -> SUBSET (Roles \cup Perms)]
         /\ \A q \in Requests \ {r} :
              pc'[q] = pc[q] /\ subject'[q] = subject[q] /\ wanted'[q] = wanted[q]
BY DEF Begin, Goto, TypeOK

LEMMA FinishEffect ==
  ASSUME TypeOK, NEW r \in Requests, NEW place \in Places, Finish(r, place)
  PROVE  /\ pc'[r] = place /\ subject'[r] = None /\ wanted'[r] = {}
         /\ pc' \in [Requests -> Places]
         /\ subject' \in [Requests -> Users \cup Roles \cup Perms \cup {None}]
         /\ wanted' \in [Requests -> SUBSET (Roles \cup Perms)]
         /\ \A q \in Requests \ {r} :
              pc'[q] = pc[q] /\ subject'[q] = subject[q] /\ wanted'[q] = wanted[q]
BY DEF Finish, Goto, TypeOK

LEMMA OwesEffect ==
  ASSUME TypeOK, NEW r \in Requests, NEW users \in SUBSET Users, Owes(r, users)
  PROVE  /\ pc'[r] = (IF users = {} THEN "idle" ELSE "drop")
         /\ subject'[r] = None /\ wanted'[r] = {} /\ todo'[r] = users
         /\ pc' \in [Requests -> Places]
         /\ subject' \in [Requests -> Users \cup Roles \cup Perms \cup {None}]
         /\ wanted' \in [Requests -> SUBSET (Roles \cup Perms)]
         /\ todo' \in [Requests -> SUBSET Users]
         /\ \A q \in Requests \ {r} :
              /\ pc'[q] = pc[q] /\ subject'[q] = subject[q] /\ wanted'[q] = wanted[q]
              /\ todo'[q] = todo[q]
<1>1. Finish(r, IF users = {} THEN "idle" ELSE "drop") /\ todo' = [todo EXCEPT ![r] = users]
  BY DEF Owes
<1>2. (IF users = {} THEN "idle" ELSE "drop") \in Places
  BY DEF Places
<1>3. PICK place \in Places : place = (IF users = {} THEN "idle" ELSE "drop")
  BY <1>2
<1>4. Finish(r, place)
  BY <1>1, <1>3 DEF Finish, Goto
<1>5. /\ pc'[r] = place /\ subject'[r] = None /\ wanted'[r] = {}
      /\ pc' \in [Requests -> Places]
      /\ subject' \in [Requests -> Users \cup Roles \cup Perms \cup {None}]
      /\ wanted' \in [Requests -> SUBSET (Roles \cup Perms)]
      /\ \A q \in Requests \ {r} :
           pc'[q] = pc[q] /\ subject'[q] = subject[q] /\ wanted'[q] = wanted[q]
  BY <1>4, FinishEffect
<1>6. /\ todo'[r] = users /\ todo' \in [Requests -> SUBSET Users]
      /\ \A q \in Requests \ {r} : todo'[q] = todo[q]
  BY <1>1 DEF TypeOK
<1> QED BY <1>3, <1>5, <1>6

-----------------------------------------------------------------------------
\* A request arrives: it changes no row, no cached identity, and owes nothing.
ArriveEffect(r) ==
  /\ UNCHANGED <<tables, cache, fill, abandoned>>
  /\ pc[r] = "idle" /\ pc'[r] \notin {"idle", "drop", "findHolders"}
  /\ Others(r) /\ Carries(r)' /\ TypeOK'

LEMMA ArriveStep ==
  ASSUME Shape, NEW r \in Requests, Arrive(r)
  PROVE  ArriveEffect(r)
<1>1. TypeOK /\ Carries(r)
  BY DEF Shape
<1>2. ASSUME NEW place \in {"authRead", "assign", "regrant", "rename", "removePermission"},
             NEW about \in Users \cup Roles \cup Perms, NEW list \in SUBSET (Roles \cup Perms),
             Begin(r, place, about, list), UNCHANGED <<tables, cache, fill, todo, abandoned>>,
             place \in {"authRead", "assign"} => about \in Users,
             place = "regrant" => about \in Roles,
             place \in {"rename", "removePermission"} => about \in Perms,
             place = "assign" => list \subseteq Roles,
             place = "regrant" => list \subseteq Perms
      PROVE  ArriveEffect(r)
  <2>1. place \in Places
    BY DEF Places
  <2>2. /\ pc[r] = "idle" /\ pc'[r] = place /\ subject'[r] = about /\ wanted'[r] = list
        /\ pc' \in [Requests -> Places]
        /\ subject' \in [Requests -> Users \cup Roles \cup Perms \cup {None}]
        /\ wanted' \in [Requests -> SUBSET (Roles \cup Perms)]
        /\ \A q \in Requests \ {r} :
             pc'[q] = pc[q] /\ subject'[q] = subject[q] /\ wanted'[q] = wanted[q]
    BY <1>1, <1>2, <2>1, BeginEffect
  <2>3. TypeOK'
    BY <1>1, <1>2, <2>2 DEF TypeOK, tables
  <2>4. Carries(r)'
    BY <1>1, <1>2, <2>2 DEF Carries
  <2>5. Others(r)
    BY <1>2, <2>2 DEF Others, Unmoved
  <2> QED BY <1>2, <2>2, <2>3, <2>4, <2>5 DEF ArriveEffect
<1>3. ASSUME NEW u \in Users, Authenticate(r, u)
      PROVE  ArriveEffect(r)
  BY <1>2, <1>3 DEF Authenticate
<1>4. ASSUME NEW u \in Users, NEW list \in SUBSET Roles, UpdateUser(r, u, list)
      PROVE  ArriveEffect(r)
  BY <1>2, <1>4 DEF UpdateUser
<1>5. ASSUME NEW role \in Roles, NEW list \in SUBSET Perms, UpdateRole(r, role, list)
      PROVE  ArriveEffect(r)
  BY <1>2, <1>5 DEF UpdateRole
<1>6. ASSUME NEW p \in Perms, UpdatePermission(r, p) \/ RemovePermission(r, p)
      PROVE  ArriveEffect(r)
  BY <1>2, <1>6 DEF UpdatePermission, RemovePermission
<1>7. ASSUME NEW role \in Roles, RemoveRole(r, role)
      PROVE  ArriveEffect(r)
  <2>1. /\ "removeRole" \in Places /\ Begin(r, "removeRole", role, {})
        /\ UNCHANGED <<tables, cache, fill, abandoned>>
        /\ todo' = [todo EXCEPT ![r] = Holders(role)]
    BY <1>7 DEF Places, RemoveRole
  <2>2. /\ pc[r] = "idle" /\ pc'[r] = "removeRole" /\ subject'[r] = role /\ wanted'[r] = {}
        /\ pc' \in [Requests -> Places]
        /\ subject' \in [Requests -> Users \cup Roles \cup Perms \cup {None}]
        /\ wanted' \in [Requests -> SUBSET (Roles \cup Perms)]
        /\ \A q \in Requests \ {r} :
             pc'[q] = pc[q] /\ subject'[q] = subject[q] /\ wanted'[q] = wanted[q]
    BY <1>1, <2>1, BeginEffect
  <2>3. /\ todo' \in [Requests -> SUBSET Users]
        /\ \A q \in Requests \ {r} : todo'[q] = todo[q]
    BY <1>1, <2>1 DEF TypeOK, Holders
  <2>4. TypeOK'
    BY <1>1, <2>1, <2>2, <2>3 DEF TypeOK, tables
  <2>5. Carries(r)'
    BY <1>1, <2>1, <2>2 DEF Carries
  <2>6. Others(r)
    BY <2>1, <2>2, <2>3 DEF Others, Unmoved
  <2> QED BY <2>1, <2>2, <2>4, <2>5, <2>6 DEF ArriveEffect
<1> QED BY <1>3, <1>4, <1>5, <1>6, <1>7 DEF Arrive

-----------------------------------------------------------------------------
\* A request that goes to another await with what it has.
LEMMA GotoEffect ==
  ASSUME TypeOK, NEW r \in Requests, NEW place \in Places, Goto(r, place)
  PROVE  /\ pc'[r] = place /\ pc' \in [Requests -> Places]
         /\ \A q \in Requests \ {r} : pc'[q] = pc[q]
BY DEF TypeOK, Goto

LEMMA AuthShape ==
  ASSUME Shape, NEW r \in Requests, AuthRead(r) \/ AuthFill(r)
  PROVE  Shape' /\ Others(r)
<1>1. TypeOK /\ Carries(r)
  BY DEF Shape
<1>2. CASE AuthRead(r)
  <2>1. /\ pc[r] = "authRead" /\ subject[r] \in Users
        /\ Goto(r, "authFill") /\ "authFill" \in Places
        /\ fill' = [fill EXCEPT ![r] = UserInformation(subject[r])]
        /\ UNCHANGED <<tables, cache, subject, wanted, todo, abandoned>>
    BY <1>1, <1>2 DEF AuthRead, Carries, Places
  <2>2. PICK u \in Users : u = subject[r]
    BY <2>1
  <2>3. ASSUME NEW p \in PermsOf(u)
        PROVE  p \in Perms /\ name[p] \in Names
    BY <1>1, <2>3 DEF Shape, TypeOK, Anchored, PermsOf, RolesOf
  <2>4. RolesOf(u) \subseteq Roles
    BY DEF RolesOf
  <2>5. UserInformation(u) \in Entry
    BY <2>3, <2>4 DEF UserInformation, Entry
  <2>6. /\ fill' \in [Requests -> Entry \cup {None}]
        /\ \A q \in Requests \ {r} : fill'[q] = fill[q]
    BY <1>1, <2>1, <2>2, <2>5 DEF TypeOK
  <2>7. /\ pc'[r] = "authFill" /\ pc' \in [Requests -> Places]
        /\ \A q \in Requests \ {r} : pc'[q] = pc[q]
    BY <1>1, <2>1, GotoEffect
  <2>8. TypeOK' /\ Carries(r)' /\ Others(r)
    <3>1. TypeOK'
      BY <1>1, <2>1, <2>6, <2>7 DEF TypeOK, tables
    <3>2. Carries(r)'
      BY <1>1, <2>1, <2>7 DEF Carries
    <3> QED BY <2>1, <2>6, <2>7, <3>1, <3>2 DEF Others, Unmoved
  <2>9. Anchored'
    BY <2>1, TablesSame DEF tables
  <2> QED BY <2>8, <2>9, ShapeMoved
<1>3. CASE AuthFill(r)
  <2>1. /\ pc[r] = "authFill" /\ subject[r] \in Users /\ Finish(r, "idle") /\ "idle" \in Places
        /\ cache' = [cache EXCEPT ![subject[r]] = fill[r]]
        /\ fill' = [fill EXCEPT ![r] = None]
        /\ UNCHANGED <<tables, todo, abandoned>>
    BY <1>1, <1>3 DEF AuthFill, Carries, Places
  <2>2. /\ pc'[r] = "idle" /\ subject'[r] = None /\ wanted'[r] = {}
        /\ pc' \in [Requests -> Places]
        /\ subject' \in [Requests -> Users \cup Roles \cup Perms \cup {None}]
        /\ wanted' \in [Requests -> SUBSET (Roles \cup Perms)]
        /\ \A q \in Requests \ {r} :
             pc'[q] = pc[q] /\ subject'[q] = subject[q] /\ wanted'[q] = wanted[q]
    BY <1>1, <2>1, FinishEffect
  <2>3. /\ cache' \in [Users -> Entry \cup {None}] /\ fill' \in [Requests -> Entry \cup {None}]
        /\ fill'[r] = None /\ \A q \in Requests \ {r} : fill'[q] = fill[q]
    BY <1>1, <2>1 DEF TypeOK
  <2>4. TypeOK'
    BY <1>1, <2>1, <2>2, <2>3 DEF TypeOK, tables
  <2>5. Carries(r)' /\ Others(r)
    BY <1>1, <2>1, <2>2, <2>3 DEF Carries, Others, Unmoved
  <2>6. Anchored'
    BY <2>1, TablesSame DEF tables
  <2> QED BY <2>4, <2>5, <2>6, ShapeMoved
<1> QED BY <1>2, <1>3

-----------------------------------------------------------------------------
\* The end of a request, or of its transaction, that leaves its list of users alone.
LEMMA FinishShape ==
  ASSUME Shape, NEW r \in Requests, NEW place \in {"idle", "serverError"}, Finish(r, place),
         todo[r] = {}, UNCHANGED <<cache, fill, todo, abandoned>>, fill[r] = None,
         TypedTables', Anchored'
  PROVE  Shape' /\ Others(r)
<1>1. TypeOK /\ place \in Places
  BY DEF Shape, Places
<1>2. /\ pc'[r] = place /\ subject'[r] = None /\ wanted'[r] = {}
      /\ pc' \in [Requests -> Places]
      /\ subject' \in [Requests -> Users \cup Roles \cup Perms \cup {None}]
      /\ wanted' \in [Requests -> SUBSET (Roles \cup Perms)]
      /\ \A q \in Requests \ {r} :
           pc'[q] = pc[q] /\ subject'[q] = subject[q] /\ wanted'[q] = wanted[q]
  BY <1>1, FinishEffect
<1>3. TypeOK'
  BY <1>1, <1>2 DEF TypeOK, TypedTables
<1>4. Carries(r)' /\ Others(r)
  BY <1>2 DEF Carries, Others, Unmoved
<1> QED BY <1>3, <1>4, ShapeMoved

LEMMA OwesShape ==
  ASSUME Shape, NEW r \in Requests, NEW users \in SUBSET Users, Owes(r, users), fill'[r] = None,
         \A q \in Requests : fill'[q] # None => fill[q] # None,
         cache' \in [Users -> Entry \cup {None}], fill' \in [Requests -> Entry \cup {None}],
         UNCHANGED abandoned, TypedTables', Anchored'
  PROVE  Shape' /\ Others(r)
<1>1. TypeOK
  BY DEF Shape
<1>2. /\ pc'[r] = (IF users = {} THEN "idle" ELSE "drop")
      /\ subject'[r] = None /\ wanted'[r] = {} /\ todo'[r] = users
      /\ pc' \in [Requests -> Places]
      /\ subject' \in [Requests -> Users \cup Roles \cup Perms \cup {None}]
      /\ wanted' \in [Requests -> SUBSET (Roles \cup Perms)]
      /\ todo' \in [Requests -> SUBSET Users]
      /\ \A q \in Requests \ {r} :
           /\ pc'[q] = pc[q] /\ subject'[q] = subject[q] /\ wanted'[q] = wanted[q]
           /\ todo'[q] = todo[q]
  BY <1>1, OwesEffect
<1>3. TypeOK'
  BY <1>1, <1>2 DEF TypeOK, TypedTables
<1>4. Carries(r)' /\ Others(r)
  BY <1>2 DEF Carries, Others, Unmoved
<1> QED BY <1>3, <1>4, ShapeMoved

LEMMA AssignShape ==
  ASSUME Shape, NEW r \in Requests, AssignRoles(r)
  PROVE  Shape' /\ Others(r)
<1>1. /\ TypeOK /\ Carries(r) /\ Anchored /\ pc[r] = "assign" /\ subject[r] \in Users
      /\ fill[r] = None /\ todo[r] = {} /\ wanted[r] \subseteq Roles
      /\ UNCHANGED <<cache, fill, abandoned>>
  BY DEF Shape, AssignRoles, Carries
<1>2. CASE wanted[r] \subseteq roles
  <2>1. /\ holds' = {h \in holds : h[1] # subject[r]} \cup ({subject[r]} \X wanted[r])
        /\ Owes(r, {subject[r]}) /\ UNCHANGED <<roles, name, grants>>
    BY <1>2 DEF AssignRoles
  <2>2. TypedTables' /\ Anchored'
    BY <1>1, <1>2, <2>1 DEF TypeOK, TypedTables, Anchored
  <2>3. PICK u \in Users : u = subject[r]
    BY <1>1
  <2>4. Owes(r, {u})
    BY <2>1, <2>3 DEF Owes, Finish, Goto
  <2>5. cache' \in [Users -> Entry \cup {None}] /\ fill' \in [Requests -> Entry \cup {None}]
    BY <1>1 DEF TypeOK
  <2> QED BY <1>1, <2>2, <2>4, <2>5, OwesShape
<1>3. CASE ~(wanted[r] \subseteq roles)
  <2>1. Finish(r, "serverError") /\ UNCHANGED <<tables, todo>>
    BY <1>3 DEF AssignRoles, Refused
  <2> QED BY <1>1, <2>1, TablesSame, FinishShape
<1> QED BY <1>2, <1>3

LEMMA GrantShape ==
  ASSUME Shape, NEW r \in Requests, GrantPermissions(r)
  PROVE  Shape' /\ Others(r)
<1>1. /\ TypeOK /\ Carries(r) /\ Anchored /\ pc[r] = "regrant" /\ subject[r] \in Roles
      /\ fill[r] = None /\ todo[r] = {} /\ wanted[r] \subseteq Perms
      /\ UNCHANGED <<cache, fill, abandoned>>
  BY DEF Shape, GrantPermissions, Carries
<1>2. CASE wanted[r] = {} \/ (subject[r] \in roles /\ wanted[r] \subseteq Existing)
  <2>1. /\ grants' = {g \in grants : g[1] # subject[r]} \cup ({subject[r]} \X wanted[r])
        /\ Goto(r, "findHolders") /\ UNCHANGED <<roles, name, holds, subject, wanted, todo>>
    BY <1>2 DEF GrantPermissions
  <2>2. TypedTables' /\ Anchored'
    BY <1>1, <1>2, <2>1 DEF TypeOK, TypedTables, Anchored, Existing
  <2>3. /\ pc'[r] = "findHolders" /\ pc' \in [Requests -> Places]
        /\ \A q \in Requests \ {r} : pc'[q] = pc[q]
    BY <1>1, <2>1, GotoEffect DEF Places
  <2>4. TypeOK'
    BY <1>1, <2>1, <2>2, <2>3 DEF TypeOK, TypedTables
  <2>5. Carries(r)' /\ Others(r)
    BY <1>1, <2>1, <2>3 DEF Carries, Others, Unmoved
  <2> QED BY <2>2, <2>4, <2>5, ShapeMoved
<1>3. CASE ~(wanted[r] = {} \/ (subject[r] \in roles /\ wanted[r] \subseteq Existing))
  <2>1. Finish(r, "serverError") /\ UNCHANGED <<tables, todo>>
    BY <1>3 DEF GrantPermissions, Refused
  <2> QED BY <1>1, <2>1, TablesSame, FinishShape
<1> QED BY <1>2, <1>3

LEMMA InvalidateShape ==
  ASSUME Shape, NEW r \in Requests, InvalidateRoleHolders(r)
  PROVE  Shape' /\ Others(r)
<1>1. /\ TypeOK /\ Carries(r) /\ pc[r] = "findHolders" /\ fill[r] = None
      /\ Owes(r, Holders(subject[r])) /\ UNCHANGED <<tables, cache, fill, abandoned>>
  BY DEF Shape, InvalidateRoleHolders, Carries
<1>2. PICK users \in SUBSET Users : users = Holders(subject[r])
  BY DEF Holders
<1>3. Owes(r, users)
  BY <1>1, <1>2 DEF Owes, Finish, Goto
<1>4. cache' \in [Users -> Entry \cup {None}] /\ fill' \in [Requests -> Entry \cup {None}]
  BY <1>1 DEF TypeOK
<1>5. TypedTables' /\ Anchored'
  BY <1>1, TablesSame
<1> QED BY <1>1, <1>3, <1>4, <1>5, OwesShape

\* What the marking of uncounted holders leaves of an entry.
LEMMA UncountedEntry ==
  ASSUME NEW e \in Entry \cup {None}, NEW c
  PROVE  /\ Uncounted(e, c) \in Entry \cup {None}
         /\ e = None => Uncounted(e, c) = None
         /\ c => Uncounted(e, c) = e
         /\ ~c /\ e # None => Uncounted(e, c).lost = "uncounted"
BY DEF Uncounted, Entry

LEMMA DeleteShape ==
  ASSUME Shape, NEW r \in Requests, DeleteRole(r)
  PROVE  Shape' /\ Others(r)
<1>1. /\ TypeOK /\ Carries(r) /\ Anchored /\ pc[r] = "removeRole" /\ fill[r] = None
      /\ todo[r] \in SUBSET Users
      /\ Owes(r, todo[r]) /\ UNCHANGED <<name, abandoned>>
  BY DEF Shape, DeleteRole, Carries, TypeOK
<1>2. PICK users \in SUBSET Users : users = todo[r]
  BY <1>1
<1>3. Owes(r, users)
  BY <1>1, <1>2 DEF Owes, Finish, Goto
<1>4. TypedTables' /\ Anchored'
  BY <1>1 DEF DeleteRole, TypeOK, TypedTables, Anchored
<1>5. cache' \in [Users -> Entry \cup {None}]
  BY <1>1, UncountedEntry DEF DeleteRole, TypeOK
<1>6. /\ fill' \in [Requests -> Entry \cup {None}]
      /\ \A q \in Requests : fill[q] = None => fill'[q] = None
  BY <1>1, UncountedEntry DEF DeleteRole, TypeOK
<1> QED BY <1>1, <1>3, <1>4, <1>5, <1>6, OwesShape

LEMMA PermissionShape ==
  ASSUME Shape, NEW r \in Requests,
         (\E n \in Names : RenamePermission(r, n)) \/ DeletePermission(r)
  PROVE  Shape' /\ Others(r)
<1>1. /\ TypeOK /\ Carries(r) /\ Anchored /\ pc[r] \in {"rename", "removePermission"}
      /\ subject[r] \in Perms /\ fill[r] = None /\ todo[r] = {}
      /\ UNCHANGED <<cache, fill, abandoned>>
  BY DEF Shape, RenamePermission, DeletePermission, Carries
<1>2. CASE DeletePermission(r)
  <2>1. TypedTables' /\ Anchored'
    BY <1>1, <1>2 DEF DeletePermission, TypeOK, TypedTables, Anchored
  <2> QED BY <1>1, <1>2, <2>1, FinishShape DEF DeletePermission
<1>3. ASSUME NEW n \in Names, RenamePermission(r, n)
      PROVE  Shape' /\ Others(r)
  <2>1. n # None
    BY NoneIsNothing
  <2>2. TypedTables' /\ Anchored'
    BY <1>1, <1>3, <2>1
    DEF RenamePermission, Refused, tables, TypeOK, TypedTables, Anchored
  <2>3. \/ Finish(r, "serverError") /\ UNCHANGED todo
        \/ Finish(r, "idle") /\ UNCHANGED todo
    BY <1>3 DEF RenamePermission, Refused
  <2> QED BY <1>1, <2>2, <2>3, FinishShape
<1> QED BY <1>2, <1>3

LEMMA DeletedShape ==
  ASSUME Shape, NEW r \in Requests, NEW u \in Users, DeleteIdentity(r, u) \/ DeleteFails(r, u)
  PROVE  Shape' /\ Others(r)
<1>1. /\ TypeOK /\ Carries(r) /\ pc[r] = "drop" /\ u \in todo[r] /\ fill[r] = None
      /\ todo' = [todo EXCEPT ![r] = @ \ {u}]
      /\ pc' = [pc EXCEPT ![r] = IF todo[r] = {u} THEN "idle" ELSE "drop"]
      /\ UNCHANGED <<tables, subject, wanted>>
  BY DEF Shape, DeleteIdentity, DeleteFails, Deleted, Goto, Carries
<1>2. /\ pc' \in [Requests -> Places] /\ todo' \in [Requests -> SUBSET Users]
      /\ pc'[r] \in {"idle", "drop"} /\ (pc'[r] = "idle" => todo'[r] = {})
      /\ \A q \in Requests \ {r} : pc'[q] = pc[q] /\ todo'[q] = todo[q]
  BY <1>1 DEF TypeOK, Places
<1>3. /\ cache' \in [Users -> Entry \cup {None}] /\ abandoned' \subseteq Users
      /\ fill' \in [Requests -> Entry \cup {None}]
      /\ \A q \in Requests : fill[q] = None => fill'[q] = None
  <2>1. ASSUME NEW e \in Entry
        PROVE  [e EXCEPT !.lost = "overtaken"] \in Entry
    BY DEF Entry
  <2>2. CASE DeleteIdentity(r, u)
    BY <1>1, <2>1, <2>2 DEF DeleteIdentity, TypeOK
  <2>3. CASE DeleteFails(r, u)
    BY <1>1, <2>3 DEF DeleteFails, TypeOK
  <2> QED BY <2>2, <2>3
<1>4. TypedTables' /\ Anchored'
  BY <1>1, TablesSame
<1>5. TypeOK'
  BY <1>1, <1>2, <1>3, <1>4 DEF TypeOK, TypedTables
<1>6. Carries(r)' /\ Others(r)
  BY <1>1, <1>2, <1>3 DEF Carries, Others, Unmoved
<1> QED BY <1>4, <1>5, <1>6, ShapeMoved

LEMMA EndShape ==
  ASSUME Shape, NEW r \in Requests, Crash(r) \/ AnswerError(r)
  PROVE  Shape' /\ Others(r)
<1>1. TypeOK /\ Carries(r) /\ UNCHANGED <<tables, cache>>
  BY DEF Shape, Crash, AnswerError
<1>2. TypedTables' /\ Anchored'
  BY <1>1, TablesSame
<1>3. CASE Crash(r)
  <2>1. /\ Finish(r, "idle") /\ fill' = [fill EXCEPT ![r] = None]
        /\ todo' = [todo EXCEPT ![r] = {}] /\ "idle" \in Places
        /\ abandoned' = abandoned \cup (IF pc[r] = "findHolders" THEN Holders(subject[r]) ELSE {})
    BY <1>3 DEF Crash, Places
  <2>2. /\ pc'[r] = "idle" /\ subject'[r] = None /\ wanted'[r] = {}
        /\ pc' \in [Requests -> Places]
        /\ subject' \in [Requests -> Users \cup Roles \cup Perms \cup {None}]
        /\ wanted' \in [Requests -> SUBSET (Roles \cup Perms)]
        /\ \A q \in Requests \ {r} :
             pc'[q] = pc[q] /\ subject'[q] = subject[q] /\ wanted'[q] = wanted[q]
    BY <1>1, <2>1, FinishEffect
  <2>3. /\ fill' \in [Requests -> Entry \cup {None}] /\ todo' \in [Requests -> SUBSET Users]
        /\ abandoned' \subseteq Users /\ fill'[r] = None /\ todo'[r] = {}
        /\ \A q \in Requests \ {r} : fill'[q] = fill[q] /\ todo'[q] = todo[q]
    BY <1>1, <2>1 DEF TypeOK, Holders
  <2>4. TypeOK'
    BY <1>1, <1>2, <2>2, <2>3 DEF TypeOK, TypedTables
  <2>5. Carries(r)' /\ Others(r)
    BY <2>2, <2>3 DEF Carries, Others, Unmoved
  <2> QED BY <1>2, <2>4, <2>5, ShapeMoved
<1>4. CASE AnswerError(r)
  <2>1. /\ pc[r] = "serverError" /\ Goto(r, "idle") /\ "idle" \in Places
        /\ UNCHANGED <<tables, cache, subject, wanted, fill, todo, abandoned>>
    BY <1>4 DEF AnswerError, Places
  <2>2. /\ pc'[r] = "idle" /\ pc' \in [Requests -> Places]
        /\ \A q \in Requests \ {r} : pc'[q] = pc[q]
    BY <1>1, <2>1, GotoEffect
  <2>3. TypeOK'
    BY <1>1, <1>2, <2>1, <2>2 DEF TypeOK, TypedTables
  <2>4. Carries(r)' /\ Others(r)
    BY <1>1, <2>1, <2>2 DEF Carries, Others, Unmoved
  <2> QED BY <1>2, <2>3, <2>4, ShapeMoved
<1> QED BY <1>3, <1>4

-----------------------------------------------------------------------------
(***************************************************************************)
(* The identities, step by step.                                           *)
(***************************************************************************)
\* What makes the delete of a user's identity owed, request by request.
OwedBy(q, u) ==
  \/ pc[q] = "drop" /\ u \in todo[q]
  \/ pc[q] = "findHolders" /\ <<u, subject[q]>> \in holds

LEMMA OwedSplit ==
  ASSUME NEW u \in Users
  PROVE  /\ Owed(u) = (u \in abandoned \/ \E q \in Requests : OwedBy(q, u))
         /\ Owed(u)' = (u \in abandoned' \/ \E q \in Requests : OwedBy(q, u)')
BY DEF Owed, OwedBy, Holders

\* What a step leaves of the roles a user has and of what they grant.
Undisturbed(u) ==
  /\ RolesOf(u)' = RolesOf(u)
  /\ Existing' \subseteq Existing
  /\ PermsOf(u)' = PermsOf(u) \cap Existing'

LEMMA Grantable ==
  ASSUME Shape, NEW u
  PROVE  PermsOf(u) \subseteq Existing
BY DEF Shape, Anchored, PermsOf, Existing

LEMMA TablesUndisturbed ==
  ASSUME Shape, UNCHANGED tables, NEW u \in Users
  PROVE  Undisturbed(u)
<1>1. Existing' = Existing /\ RolesOf(u)' = RolesOf(u)
  BY DEF tables, Existing, RolesOf
<1>2. PermsOf(u)' = PermsOf(u)
  BY <1>1 DEF tables, PermsOf
<1> QED BY <1>1, <1>2, Grantable DEF Undisturbed

(***************************************************************************)
(* Why an identity may be cached, or on its way to the cache, after a step *)
(* that leaves the user's rows alone or after one that makes its delete    *)
(* owed.  Kept is about a user whose delete stays owed if it was.          *)
(***************************************************************************)
Kept(u) == Undisturbed(u) /\ (Owed(u) => Owed(u)')

CacheFate(u) ==
  \/ cache'[u] = None \/ Owed(u)' \/ cache'[u].lost # "no"
  \/ cache'[u] = cache[u] /\ Kept(u)

FillFate(q, u) ==
  subject'[q] = u =>
    \/ fill'[q] = None \/ Owed(u)' \/ fill'[q].lost # "no"
    \/ subject[q] = u /\ fill'[q] = fill[q] /\ Kept(u)

LEMMA Excuse ==
  ASSUME Shape, NEW u \in Users, NEW e, Excused(e, u), Kept(u), ~Owed(u)', e # None, e.lost = "no"
  PROVE  e.roles = RolesOf(u)' /\ {x[1] : x \in e.perms} \cap Existing' = PermsOf(u)'
<1>1. Describes(e, u)
  BY DEF Excused, Kept
<1>2. /\ e.roles = RolesOf(u) /\ {x[1] : x \in e.perms} \cap Existing = PermsOf(u)
  BY <1>1 DEF Describes
<1> QED BY <1>2 DEF Kept, Undisturbed

LEMMA CacheExcused ==
  ASSUME Shape, NEW u \in Users, Excused(cache[u], u), CacheFate(u)
  PROVE  Excused(cache[u], u)'
<1>1. SUFFICES ASSUME cache'[u] # None, ~Owed(u)', cache'[u].lost = "no"
               PROVE  /\ cache'[u].roles = RolesOf(u)'
                      /\ {x[1] : x \in cache'[u].perms} \cap Existing' = PermsOf(u)'
  BY DEF Excused, Describes
<1>2. cache'[u] = cache[u] /\ Kept(u)
  BY <1>1 DEF CacheFate
<1>3. PICK e : e = cache[u]
  OBVIOUS
<1>4. Excused(e, u)
  BY <1>3
<1> QED BY <1>1, <1>2, <1>3, <1>4, Excuse

LEMMA FillExcused ==
  ASSUME Shape, NEW q \in Requests, NEW u \in Users, subject[q] = u => Excused(fill[q], u),
         FillFate(q, u)
  PROVE  (subject[q] = u => Excused(fill[q], u))'
<1>1. SUFFICES ASSUME subject'[q] = u, fill'[q] # None, ~Owed(u)', fill'[q].lost = "no"
               PROVE  /\ fill'[q].roles = RolesOf(u)'
                      /\ {x[1] : x \in fill'[q].perms} \cap Existing' = PermsOf(u)'
  BY DEF Excused, Describes
<1>2. subject[q] = u /\ fill'[q] = fill[q] /\ Kept(u)
  BY <1>1 DEF FillFate
<1>3. PICK e : e = fill[q]
  OBVIOUS
<1>4. Excused(e, u)
  BY <1>2, <1>3
<1> QED BY <1>1, <1>2, <1>3, <1>4, Excuse

LEMMA SoundMoved ==
  ASSUME Inv, \A u \in Users : CacheFate(u), \A q \in Requests, u \in Users : FillFate(q, u)
  PROVE  Sound'
<1>1. ASSUME NEW u \in Users
      PROVE  Excused(cache[u], u)'
  BY <1>1, CacheExcused DEF Inv, Sound
<1>2. ASSUME NEW q \in Requests, NEW u \in Users
      PROVE  (subject[q] = u => Excused(fill[q], u))'
  BY <1>2, FillExcused DEF Inv, Sound
<1> QED BY <1>1, <1>2 DEF Sound

-----------------------------------------------------------------------------
\* A step of request r that changes no row and no cached identity, where r
\* owes as much after it as before.
LEMMA QuietStep ==
  ASSUME Inv, NEW r \in Requests, Others(r), UNCHANGED <<tables, cache>>,
         abandoned \subseteq abandoned',
         \A q \in Requests \ {r} : fill'[q] = fill[q],
         fill'[r] = None,
         \A u \in Users : OwedBy(r, u) => OwedBy(r, u)' \/ u \in abandoned'
  PROVE  Sound'
<1>1. ASSUME NEW u \in Users
      PROVE  Kept(u)
  <2>1. ASSUME NEW q \in Requests, OwedBy(q, u)
        PROVE  OwedBy(q, u)' \/ u \in abandoned'
    <3>1. CASE q = r
      BY <2>1, <3>1
    <3>2. CASE q # r
      BY <2>1, <3>2 DEF Others, Unmoved, OwedBy, tables
    <3> QED BY <3>1, <3>2
  <2>2. Owed(u) => Owed(u)'
    BY <2>1, OwedSplit
  <2> QED BY <2>2, TablesUndisturbed DEF Kept, Inv
<1>2. ASSUME NEW u \in Users
      PROVE  CacheFate(u)
  BY <1>1 DEF CacheFate
<1>3. ASSUME NEW q \in Requests, NEW u \in Users
      PROVE  FillFate(q, u)
  BY <1>1 DEF FillFate, Others, Unmoved
<1> QED BY <1>2, <1>3, SoundMoved

LEMMA ArriveSound ==
  ASSUME Inv, NEW r \in Requests, ArriveEffect(r)
  PROVE  Sound'
<1>1. fill'[r] = None /\ \A u \in Users : ~OwedBy(r, u)
  BY DEF ArriveEffect, Inv, Shape, Carries, OwedBy
<1>2. abandoned' = abandoned /\ fill' = fill
  BY DEF ArriveEffect
<1> QED BY <1>1, <1>2, QuietStep DEF ArriveEffect

LEMMA RefusedSound ==
  ASSUME Inv, NEW r \in Requests, Others(r), UNCHANGED <<tables, cache, fill, abandoned>>,
         pc[r] \notin {"authFill", "drop", "findHolders"}
  PROVE  Sound'
<1>1. fill'[r] = None /\ \A u \in Users : ~OwedBy(r, u)
  BY DEF Inv, Shape, Carries, OwedBy
<1> QED BY <1>1, QuietStep

LEMMA EndSound ==
  ASSUME Inv, NEW r \in Requests, Crash(r) \/ AnswerError(r)
  PROVE  Sound'
<1>1. Others(r) /\ Shape /\ TypeOK
  BY EndShape DEF Inv, Shape
<1>2. CASE AnswerError(r)
  BY <1>1, <1>2, RefusedSound DEF AnswerError
<1>3. CASE Crash(r)
  <2>1. /\ fill' = [fill EXCEPT ![r] = None] /\ pc[r] # "drop" /\ UNCHANGED <<tables, cache>>
        /\ abandoned' = abandoned \cup (IF pc[r] = "findHolders" THEN Holders(subject[r]) ELSE {})
    BY <1>3 DEF Crash
  <2>2. fill'[r] = None /\ \A q \in Requests \ {r} : fill'[q] = fill[q]
    BY <1>1, <2>1 DEF TypeOK
  <2>3. ASSUME NEW u \in Users, OwedBy(r, u)
        PROVE  u \in abandoned'
    BY <2>1, <2>3 DEF OwedBy, Holders
  <2> QED BY <1>1, <2>1, <2>2, <2>3, QuietStep
<1> QED BY <1>2, <1>3

\* What is read from the database agrees with it.
LEMMA Fresh ==
  ASSUME Shape, NEW u
  PROVE  Describes(UserInformation(u), u)
<1>1. {x[1] : x \in {<<p, name[p]>> : p \in PermsOf(u)}} = PermsOf(u)
  <2>1. ASSUME NEW p \in PermsOf(u)
        PROVE  p \in {x[1] : x \in {<<q, name[q]>> : q \in PermsOf(u)}}
    <3>1. <<p, name[p]>> \in {<<q, name[q]>> : q \in PermsOf(u)} /\ <<p, name[p]>>[1] = p
      OBVIOUS
    <3> QED BY <3>1
  <2>2. ASSUME NEW x \in {<<q, name[q]>> : q \in PermsOf(u)}
        PROVE  x[1] \in PermsOf(u)
    <3>1. PICK p \in PermsOf(u) : x = <<p, name[p]>>
      OBVIOUS
    <3> QED BY <3>1
  <2> QED BY <2>1, <2>2
<1> QED BY <1>1, Grantable DEF Describes, UserInformation

LEMMA AuthSound ==
  ASSUME Inv, NEW r \in Requests, AuthRead(r) \/ AuthFill(r)
  PROVE  Sound'
<1>1. /\ Others(r) /\ Shape /\ TypeOK /\ Carries(r) /\ UNCHANGED <<tables, todo, abandoned>>
      /\ pc[r] \in {"authRead", "authFill"} /\ pc'[r] \in {"authFill", "idle"}
      /\ subject[r] \in Users
  BY AuthShape DEF Inv, Shape, AuthRead, AuthFill, Carries, Goto, Finish, TypeOK
<1>2. ASSUME NEW u \in Users
      PROVE  Kept(u)
  <2>1. ASSUME NEW q \in Requests, OwedBy(q, u)
        PROVE  OwedBy(q, u)'
    BY <1>1, <2>1 DEF Others, Unmoved, OwedBy, tables
  <2>2. Owed(u) => Owed(u)'
    BY <1>1, <2>1, OwedSplit
  <2> QED BY <1>1, <2>2, TablesUndisturbed DEF Kept
<1>3. CASE AuthRead(r)
  <2>1. /\ fill' = [fill EXCEPT ![r] = UserInformation(subject[r])]
        /\ UNCHANGED <<cache, subject>>
    BY <1>3 DEF AuthRead
  <2>2. PICK v \in Users : v = subject[r]
    BY <1>1
  <2>3. fill'[r] = UserInformation(v) /\ \A q \in Requests \ {r} : fill'[q] = fill[q]
    BY <1>1, <2>1, <2>2 DEF TypeOK
  <2>4. ASSUME NEW u \in Users
        PROVE  Excused(cache[u], u)'
    BY <1>1, <1>2, <2>1, <2>4, CacheExcused DEF CacheFate, Inv, Sound
  <2>5. ASSUME NEW q \in Requests \ {r}, NEW u \in Users
        PROVE  (subject[q] = u => Excused(fill[q], u))'
    <3>1. FillFate(q, u)
      BY <1>2, <2>1, <2>3 DEF FillFate
    <3> QED BY <1>1, <3>1, FillExcused DEF Inv, Sound
  <2>6. ASSUME NEW u \in Users, subject'[r] = u
        PROVE  Excused(fill[r], u)'
    <3>1. u = v
      BY <2>1, <2>2, <2>6
    <3>2. PICK e : e = UserInformation(v)
      OBVIOUS
    <3>3. Describes(e, v)
      BY <1>1, <3>2, Fresh
    <3>4. e.roles = RolesOf(v) /\ {x[1] : x \in e.perms} \cap Existing = PermsOf(v)
      BY <3>3 DEF Describes
    <3>5. e.roles = RolesOf(v)' /\ {x[1] : x \in e.perms} \cap Existing' = PermsOf(v)'
      <4>1. Undisturbed(v)
        BY <1>2 DEF Kept
      <4> QED BY <3>4, <4>1 DEF Undisturbed
    <3>6. fill'[r] = e
      BY <2>3, <3>2
    <3> QED BY <3>1, <3>5, <3>6 DEF Excused, Describes
  <2> QED BY <2>4, <2>5, <2>6 DEF Sound
<1>4. CASE AuthFill(r)
  <2>1. /\ cache' = [cache EXCEPT ![subject[r]] = fill[r]]
        /\ fill' = [fill EXCEPT ![r] = None]
    BY <1>4 DEF AuthFill
  <2>2. PICK v \in Users : v = subject[r]
    BY <1>1
  <2>3. /\ cache'[v] = fill[r] /\ \A u \in Users \ {v} : cache'[u] = cache[u]
        /\ fill'[r] = None /\ \A q \in Requests \ {r} : fill'[q] = fill[q]
    BY <1>1, <2>1, <2>2 DEF TypeOK
  <2>4. ASSUME NEW u \in Users
        PROVE  Excused(cache[u], u)'
    <3>1. CASE u # v
      BY <1>1, <1>2, <2>3, <3>1, CacheExcused DEF CacheFate, Inv, Sound
    <3>2. CASE u = v
      <4>1. PICK e : e = fill[r]
        OBVIOUS
      <4>2. Excused(e, v)
        BY <2>2, <4>1 DEF Inv, Sound
      <4>3. e # None /\ ~Owed(v)' /\ e.lost = "no"
              => e.roles = RolesOf(v)' /\ {x[1] : x \in e.perms} \cap Existing' = PermsOf(v)'
        BY <1>1, <1>2, <4>2, Excuse
      <4>4. cache'[v] = e
        BY <2>3, <4>1
      <4> QED BY <3>2, <4>3, <4>4 DEF Excused, Describes
    <3> QED BY <3>1, <3>2
  <2>5. ASSUME NEW q \in Requests, NEW u \in Users
        PROVE  (subject[q] = u => Excused(fill[q], u))'
    <3>1. FillFate(q, u)
      BY <1>1, <1>2, <2>3 DEF FillFate, Others, Unmoved
    <3> QED BY <1>1, <3>1, FillExcused DEF Inv, Sound
  <2> QED BY <2>4, <2>5 DEF Sound
<1> QED BY <1>3, <1>4

-----------------------------------------------------------------------------
\* A change of rows by request r: every user keeps their roles and grants, or
\* the delete of their identity is owed now.
LEMMA ChangeSound ==
  ASSUME Inv, NEW r \in Requests, Others(r), UNCHANGED <<cache, fill>>, fill[r] = None,
         \A u \in Users : Kept(u) \/ Owed(u)'
  PROVE  Sound'
<1>1. ASSUME NEW u \in Users
      PROVE  CacheFate(u)
  BY DEF CacheFate
<1>2. ASSUME NEW q \in Requests, NEW u \in Users
      PROVE  FillFate(q, u)
  BY DEF FillFate, Others, Unmoved
<1> QED BY <1>1, <1>2, SoundMoved

\* The users that no request but r owes anything to, and that r does not forget.
LEMMA StillOwed ==
  ASSUME NEW u \in Users, NEW r \in Requests, Others(r), abandoned \subseteq abandoned',
         OwedBy(r, u) => OwedBy(r, u)' \/ u \in abandoned',
         \A role \in Roles : <<u, role>> \in holds => <<u, role>> \in holds',
         \A q \in Requests : Carries(q)
  PROVE  Owed(u) => Owed(u)'
<1>1. ASSUME NEW q \in Requests, OwedBy(q, u)
      PROVE  OwedBy(q, u)' \/ u \in abandoned'
  <2>1. CASE q = r
    BY <1>1, <2>1
  <2>2. CASE q # r
    <3>1. Unmoved(q) /\ Carries(q)
      BY <2>2 DEF Others
    <3> QED BY <1>1, <3>1 DEF Unmoved, OwedBy, Carries
  <2> QED BY <2>1, <2>2
<1> QED BY <1>1, OwedSplit

LEMMA AssignSound ==
  ASSUME Inv, NEW r \in Requests, AssignRoles(r)
  PROVE  Sound'
<1>1. /\ Others(r) /\ Shape /\ TypeOK /\ Carries(r) /\ pc[r] = "assign" /\ subject[r] \in Users
      /\ fill[r] = None /\ UNCHANGED <<cache, fill, abandoned>>
  BY AssignShape DEF Inv, Shape, Carries, AssignRoles
<1>2. CASE ~(wanted[r] \subseteq roles)
  <2>1. UNCHANGED tables
    BY <1>2 DEF AssignRoles, Refused
  <2> QED BY <1>1, <2>1, RefusedSound
<1>3. CASE wanted[r] \subseteq roles
  <2>1. /\ holds' = {h \in holds : h[1] # subject[r]} \cup ({subject[r]} \X wanted[r])
        /\ Owes(r, {subject[r]}) /\ UNCHANGED <<roles, name, grants>>
    BY <1>3 DEF AssignRoles
  <2>2. PICK v \in Users : v = subject[r]
    BY <1>1
  <2>3. pc'[r] = "drop" /\ v \in todo'[r]
    BY <1>1, <2>1, <2>2 DEF Owes, Finish, Goto, TypeOK
  <2>4. Owed(v)'
    BY <2>3, OwedSplit DEF OwedBy
  <2>5. ASSUME NEW u \in Users, u # v
        PROVE  Kept(u)
    <3>1. \A role : (<<u, role>> \in holds') = (<<u, role>> \in holds)
      BY <2>1, <2>2, <2>5
    <3>2. RolesOf(u)' = RolesOf(u)
      BY <3>1 DEF RolesOf
    <3>3. Undisturbed(u)
      <4>1. PermsOf(u)' = PermsOf(u) /\ Existing' = Existing
        BY <2>1, <3>2 DEF PermsOf, Existing
      <4> QED BY <1>1, <3>2, <4>1, Grantable DEF Undisturbed
    <3>4. ~OwedBy(r, u)
      BY <1>1 DEF OwedBy
    <3>5. Owed(u) => Owed(u)'
      BY <1>1, <3>1, <3>4, StillOwed DEF Shape
    <3> QED BY <3>3, <3>5 DEF Kept
  <2> QED BY <1>1, <2>4, <2>5, ChangeSound
<1> QED BY <1>2, <1>3

LEMMA GrantSound ==
  ASSUME Inv, NEW r \in Requests, GrantPermissions(r)
  PROVE  Sound'
<1>1. /\ Others(r) /\ Shape /\ TypeOK /\ Carries(r) /\ pc[r] = "regrant" /\ subject[r] \in Roles
      /\ fill[r] = None /\ UNCHANGED <<cache, fill, abandoned>>
  BY GrantShape DEF Inv, Shape, Carries, GrantPermissions
<1>2. CASE ~(wanted[r] = {} \/ (subject[r] \in roles /\ wanted[r] \subseteq Existing))
  <2>1. UNCHANGED tables
    BY <1>2 DEF GrantPermissions, Refused
  <2> QED BY <1>1, <2>1, RefusedSound
<1>3. CASE wanted[r] = {} \/ (subject[r] \in roles /\ wanted[r] \subseteq Existing)
  <2>1. /\ grants' = {g \in grants : g[1] # subject[r]} \cup ({subject[r]} \X wanted[r])
        /\ Goto(r, "findHolders") /\ UNCHANGED <<roles, name, holds, subject, wanted, todo>>
    BY <1>3 DEF GrantPermissions
  <2>2. PICK x \in Roles : x = subject[r]
    BY <1>1
  <2>3. pc'[r] = "findHolders" /\ subject'[r] = x /\ holds' = holds
    BY <1>1, <2>1, <2>2 DEF Goto, TypeOK
  <2>4. ASSUME NEW u \in Users, <<u, x>> \in holds
        PROVE  Owed(u)'
    <3>1. OwedBy(r, u)'
      BY <2>3, <2>4 DEF OwedBy
    <3> QED BY <3>1, OwedSplit
  <2>5. ASSUME NEW u \in Users, <<u, x>> \notin holds
        PROVE  Kept(u)
    <3>1. RolesOf(u)' = RolesOf(u) /\ x \notin RolesOf(u) /\ Existing' = Existing
      BY <2>1, <2>5 DEF RolesOf, Existing
    <3>2. \A role \in RolesOf(u) : \A p : <<role, p>> \in grants' <=> <<role, p>> \in grants
      BY <2>1, <2>2, <3>1
    <3>3. \A p \in Perms : p \in PermsOf(u)' <=> p \in PermsOf(u)
      BY <3>1, <3>2 DEF PermsOf
    <3>4. PermsOf(u)' = PermsOf(u)
      BY <3>3 DEF PermsOf
    <3>5. ~OwedBy(r, u)
      BY <1>1 DEF OwedBy
    <3>6. Owed(u) => Owed(u)'
      BY <1>1, <2>3, <3>5, StillOwed DEF Shape
    <3> QED BY <1>1, <3>1, <3>6, <3>4, Grantable DEF Kept, Undisturbed
  <2> QED BY <1>1, <2>4, <2>5, ChangeSound
<1> QED BY <1>2, <1>3

LEMMA InvalidateSound ==
  ASSUME Inv, NEW r \in Requests, InvalidateRoleHolders(r)
  PROVE  Sound'
<1>1. /\ Others(r) /\ Shape /\ TypeOK /\ Carries(r) /\ pc[r] = "findHolders"
      /\ fill[r] = None /\ UNCHANGED <<tables, cache, fill, abandoned>>
      /\ Owes(r, Holders(subject[r]))
  BY InvalidateShape DEF Inv, Shape, Carries, InvalidateRoleHolders
<1>2. ASSUME NEW u \in Users, OwedBy(r, u)
      PROVE  OwedBy(r, u)'
  <2>1. u \in Holders(subject[r])
    BY <1>1, <1>2 DEF OwedBy, Holders
  <2>2. pc'[r] = "drop" /\ u \in todo'[r]
    BY <1>1, <2>1 DEF Owes, Finish, Goto, TypeOK
  <2> QED BY <2>2 DEF OwedBy
<1> QED BY <1>1, <1>2, QuietStep

-----------------------------------------------------------------------------
\* Renaming a permission, or deleting it with its grants, leaves every user
\* the roles they have and the permissions that remain.
LEMMA PermissionSound ==
  ASSUME Inv, NEW r \in Requests, (\E n \in Names : RenamePermission(r, n)) \/ DeletePermission(r)
  PROVE  Sound'
<1>1. /\ Others(r) /\ Shape /\ TypeOK /\ Carries(r) /\ pc[r] \in {"rename", "removePermission"}
      /\ subject[r] \in Perms /\ fill[r] = None /\ holds' = holds
      /\ UNCHANGED <<cache, fill, abandoned>>
  BY PermissionShape
  DEF Inv, Shape, Carries, RenamePermission, DeletePermission, Refused, tables
<1>2. ASSUME NEW u \in Users
      PROVE  RolesOf(u)' = RolesOf(u) /\ (Owed(u) => Owed(u)')
  <2>1. ~OwedBy(r, u)
    BY <1>1 DEF OwedBy
  <2>2. Owed(u) => Owed(u)'
    BY <1>1, <2>1, StillOwed DEF Shape
  <2> QED BY <1>1, <2>2 DEF RolesOf
<1>3. CASE DeletePermission(r)
  <2>1. PICK x \in Perms : x = subject[r]
    BY <1>1
  <2>2. /\ name' = [name EXCEPT ![x] = None] /\ grants' = {g \in grants : g[2] # x}
    BY <1>3, <2>1 DEF DeletePermission
  <2>3. Existing' = Existing \ {x}
    BY <1>1, <2>2 DEF Existing, TypeOK
  <2>4. ASSUME NEW u \in Users
        PROVE  PermsOf(u)' = PermsOf(u) \ {x}
    BY <1>2, <2>2 DEF PermsOf
  <2>5. ASSUME NEW u \in Users
        PROVE  Kept(u)
    <3>1. PermsOf(u) \subseteq Existing
      BY <1>1, Grantable
    <3> QED BY <1>2, <2>3, <2>4, <3>1 DEF Kept, Undisturbed
  <2> QED BY <1>1, <2>5, ChangeSound
<1>4. ASSUME NEW n \in Names, RenamePermission(r, n)
      PROVE  Sound'
  <2>1. Existing' = Existing
    BY <1>1, <1>4, NoneIsNothing DEF RenamePermission, Refused, tables, Existing, TypeOK
  <2>2. ASSUME NEW u \in Users
        PROVE  PermsOf(u)' = PermsOf(u)
    BY <1>2, <1>4 DEF RenamePermission, Refused, tables, PermsOf
  <2>3. ASSUME NEW u \in Users
        PROVE  Kept(u)
    BY <1>1, <1>2, <2>1, <2>2, Grantable DEF Kept, Undisturbed
  <2> QED BY <1>1, <2>3, ChangeSound
<1> QED BY <1>3, <1>4

(***************************************************************************)
(* Deleting a role.  Its holders lose it: the delete of each is owed by    *)
(* this request, or the holder was not collected, and then the identity    *)
(* that the step could leave wrong is marked.  Nobody else is disturbed.   *)
(***************************************************************************)
LEMMA DeleteRoleSound ==
  ASSUME Inv, NEW r \in Requests, DeleteRole(r)
  PROVE  Sound'
<1>1. /\ Others(r) /\ Shape /\ TypeOK /\ Carries(r) /\ pc[r] = "removeRole"
      /\ subject[r] \in Roles /\ fill[r] = None /\ Owes(r, todo[r]) /\ UNCHANGED <<name, abandoned>>
      /\ todo[r] \subseteq Users
  BY DeleteShape DEF Inv, Shape, Carries, DeleteRole, TypeOK
<1>2. PICK x \in Roles : x = subject[r]
  BY <1>1
<1>3. PICK users \in SUBSET Users : users = todo[r]
  BY <1>1
<1>4. /\ holds' = {h \in holds : h[2] # x} /\ grants' = {g \in grants : g[1] # x}
      /\ \A u \in Users : cache'[u] = Uncounted(cache[u], u \in users \/ <<u, x>> \notin holds)
      /\ \A q \in Requests, u \in Users : subject[q] = u =>
           fill'[q] = IF fill[q] = None THEN None
                      ELSE Uncounted(fill[q], u \in users \/ <<u, x>> \notin holds)
  <2>1. /\ holds' = {h \in holds : h[2] # x} /\ grants' = {g \in grants : g[1] # x}
    BY <1>2 DEF DeleteRole
  <2>2. \A u \in Users : (u \in todo[r] \cup (Users \ Holders(subject[r])))
                           = (u \in users \/ <<u, x>> \notin holds)
    BY <1>2, <1>3 DEF Holders
  <2>3. ASSUME NEW u \in Users
        PROVE  cache'[u] = Uncounted(cache[u], u \in users \/ <<u, x>> \notin holds)
    BY <2>2 DEF DeleteRole, Uncounted
  <2>4. ASSUME NEW q \in Requests, NEW u \in Users, subject[q] = u
        PROVE  fill'[q] = IF fill[q] = None THEN None
                          ELSE Uncounted(fill[q], u \in users \/ <<u, x>> \notin holds)
    BY <2>2, <2>4 DEF DeleteRole, Uncounted
  <2> QED BY <2>1, <2>3, <2>4
<1>5. ASSUME NEW u \in Users, u \in users
      PROVE  Owed(u)'
  <2>1. pc'[r] = "drop" /\ u \in todo'[r]
    BY <1>1, <1>3, <1>5 DEF Owes, Finish, Goto, TypeOK
  <2> QED BY <2>1, OwedSplit DEF OwedBy
<1>6. ASSUME NEW u \in Users, <<u, x>> \notin holds
      PROVE  Kept(u)
  <2>1. \A role : (<<u, role>> \in holds') = (<<u, role>> \in holds)
    BY <1>4, <1>6
  <2>2. RolesOf(u)' = RolesOf(u) /\ x \notin RolesOf(u)
    BY <1>6, <2>1 DEF RolesOf
  <2>3. \A role \in RolesOf(u) : \A p : (<<role, p>> \in grants') = (<<role, p>> \in grants)
    BY <1>4, <2>2
  <2>4. PermsOf(u)' = PermsOf(u) /\ Existing' = Existing
    BY <1>1, <2>2, <2>3 DEF PermsOf, Existing
  <2>5. ~OwedBy(r, u)
    BY <1>1 DEF OwedBy
  <2>6. Owed(u) => Owed(u)'
    BY <1>1, <2>1, <2>5, StillOwed DEF Shape
  <2> QED BY <1>1, <2>2, <2>4, <2>6, Grantable DEF Kept, Undisturbed
<1>7. ASSUME NEW u \in Users
      PROVE  CacheFate(u)
  <2>1. PICK e \in Entry \cup {None} : e = cache[u]
    BY <1>1 DEF TypeOK
  <2>2. PICK c \in BOOLEAN : c = (u \in users \/ <<u, x>> \notin holds)
    OBVIOUS
  <2>3. cache'[u] = Uncounted(e, c)
    BY <1>4, <2>1, <2>2 DEF Uncounted
  <2>4. /\ e = None => cache'[u] = None
        /\ c => cache'[u] = e
        /\ ~c /\ e # None => cache'[u].lost = "uncounted"
    BY <2>3, UncountedEntry
  <2> QED BY <1>5, <1>6, <2>1, <2>2, <2>4 DEF CacheFate
<1>8. ASSUME NEW q \in Requests, NEW u \in Users
      PROVE  FillFate(q, u)
  <2>1. SUFFICES ASSUME subject'[q] = u, fill'[q] # None
                 PROVE  \/ Owed(u)' \/ fill'[q].lost # "no"
                        \/ subject[q] = u /\ fill'[q] = fill[q] /\ Kept(u)
    BY DEF FillFate
  <2>2. fill[q] # None /\ subject[q] = u
    <3>1. q # r
      BY <1>1, <2>1 DEF DeleteRole
    <3> QED BY <2>1, <3>1, <1>1 DEF Others, Unmoved
  <2>3. PICK e \in Entry \cup {None} : e = fill[q]
    BY <1>1 DEF TypeOK
  <2>4. PICK c \in BOOLEAN : c = (u \in users \/ <<u, x>> \notin holds)
    OBVIOUS
  <2>5. fill'[q] = Uncounted(e, c)
    BY <1>4, <2>2, <2>3, <2>4 DEF Uncounted
  <2>6. /\ c => fill'[q] = e
        /\ ~c => fill'[q].lost = "uncounted"
    BY <2>2, <2>3, <2>5, UncountedEntry
  <2> QED BY <1>5, <1>6, <2>2, <2>3, <2>4, <2>6
<1> QED BY <1>7, <1>8, SoundMoved

(***************************************************************************)
(* One of the deletes, or its failure.  What was read before and is not    *)
(* cached yet is marked if it is wrong.                                    *)
(***************************************************************************)
LEMMA DropSound ==
  ASSUME Inv, NEW r \in Requests, NEW v \in Users, DeleteIdentity(r, v) \/ DeleteFails(r, v)
  PROVE  Sound'
<1>1. /\ Others(r) /\ Shape /\ TypeOK /\ Carries(r) /\ pc[r] = "drop" /\ v \in todo[r]
      /\ fill[r] = None /\ todo' = [todo EXCEPT ![r] = @ \ {v}]
      /\ pc' = [pc EXCEPT ![r] = IF todo[r] = {v} THEN "idle" ELSE "drop"]
      /\ UNCHANGED <<tables, subject>>
  BY DeletedShape DEF Inv, Shape, DeleteIdentity, DeleteFails, Deleted, Goto, Carries
<1>2. ASSUME NEW u \in Users, u # v \/ v \in abandoned',
             abandoned \ {v} \subseteq abandoned'
      PROVE  Kept(u)
  <2>1. ASSUME NEW q \in Requests, OwedBy(q, u)
        PROVE  OwedBy(q, u)' \/ u \in abandoned'
    <3>1. CASE u = v
      BY <1>2, <3>1
    <3>2. CASE u # v /\ q = r
      <4>1. u \in todo[r]
        BY <1>1, <2>1, <3>2 DEF OwedBy
      <4>2. pc'[r] = "drop" /\ u \in todo'[r]
        BY <1>1, <3>2, <4>1 DEF TypeOK
      <4> QED BY <3>2, <4>2 DEF OwedBy
    <3>3. CASE u # v /\ q # r
      BY <1>1, <2>1, <3>3 DEF Others, Unmoved, OwedBy, tables
    <3> QED BY <3>1, <3>2, <3>3
  <2>2. Owed(u) => Owed(u)'
    BY <1>2, <2>1, OwedSplit
  <2> QED BY <1>1, <2>2, TablesUndisturbed DEF Kept
<1>3. CASE DeleteFails(r, v)
  <2>1. /\ abandoned' = abandoned \cup {v} /\ UNCHANGED <<cache, fill>>
    BY <1>3 DEF DeleteFails
  <2>2. ASSUME NEW u \in Users
        PROVE  Kept(u)
    BY <1>2, <2>1
  <2> QED BY <1>1, <2>1, <2>2, ChangeSound
<1>4. CASE DeleteIdentity(r, v)
  <2>1. /\ cache' = [cache EXCEPT ![v] = None] /\ abandoned' = abandoned \ {v}
        /\ fill' = [q \in Requests |->
                      IF fill[q] # None /\ subject[q] = v /\ ~Describes(fill[q], v)
                      THEN [fill[q] EXCEPT !.lost = "overtaken"] ELSE fill[q]]
    BY <1>4 DEF DeleteIdentity
  <2>2. ASSUME NEW u \in Users, u # v
        PROVE  Kept(u)
    BY <1>2, <2>1, <2>2
  <2>3. ASSUME NEW u \in Users
        PROVE  Excused(cache[u], u)'
    <3>1. CacheFate(u)
      BY <1>1, <2>1, <2>2 DEF CacheFate, TypeOK
    <3> QED BY <1>1, <3>1, CacheExcused DEF Inv, Sound
  <2>4. ASSUME NEW q \in Requests, NEW u \in Users
        PROVE  (subject[q] = u => Excused(fill[q], u))'
    <3>1. CASE u # v
      <4>1. FillFate(q, u)
        BY <1>1, <2>1, <2>2, <3>1 DEF FillFate
      <4> QED BY <1>1, <4>1, FillExcused DEF Inv, Sound
    <3>2. CASE u = v
      <4>1. SUFFICES ASSUME subject[q] = v, fill'[q] # None, fill'[q].lost = "no"
                     PROVE  /\ fill'[q].roles = RolesOf(v)'
                            /\ {y[1] : y \in fill'[q].perms} \cap Existing' = PermsOf(v)'
        BY <1>1, <3>2 DEF Excused, Describes
      <4>2. PICK e \in Entry \cup {None} : e = fill[q]
        BY <1>1 DEF TypeOK
      <4>3. fill'[q] = IF e # None /\ ~Describes(e, v) THEN [e EXCEPT !.lost = "overtaken"] ELSE e
        BY <2>1, <4>1, <4>2
      <4>4. e # None => [e EXCEPT !.lost = "overtaken"].lost = "overtaken"
        BY <4>2 DEF Entry
      <4>5. fill'[q] = e /\ Describes(e, v)
        BY <4>1, <4>3, <4>4
      <4>6. e.roles = RolesOf(v) /\ {y[1] : y \in e.perms} \cap Existing = PermsOf(v)
        BY <4>5 DEF Describes
      <4>7. Undisturbed(v)
        BY <1>1, TablesUndisturbed
      <4> QED BY <4>5, <4>6, <4>7 DEF Undisturbed
    <3> QED BY <3>1, <3>2
  <2> QED BY <2>3, <2>4 DEF Sound
<1> QED BY <1>3, <1>4

-----------------------------------------------------------------------------
(***************************************************************************)
(* The invariant, and what follows.                                        *)
(***************************************************************************)
LEMMA ExpireInv ==
  ASSUME Inv, NEW v \in Users, ExpireIdentity(v)
  PROVE  Inv'
<1>1. /\ cache' = [cache EXCEPT ![v] = None] /\ TypeOK /\ Shape
      /\ UNCHANGED <<tables, pc, subject, wanted, fill, todo, abandoned>>
  BY DEF ExpireIdentity, Inv, Shape
<1>2. TypedTables' /\ Anchored'
  BY <1>1, TablesSame
<1>3. TypeOK'
  BY <1>1, <1>2 DEF TypeOK, TypedTables
<1>4. Shape'
  BY <1>1, <1>2, <1>3 DEF Shape, Carries
<1>5. ASSUME NEW u \in Users
      PROVE  Kept(u)
  <2>1. Owed(u) => Owed(u)'
    BY <1>1, OwedSplit DEF OwedBy, tables
  <2> QED BY <1>1, <2>1, TablesUndisturbed DEF Kept
<1>6. ASSUME NEW u \in Users
      PROVE  CacheFate(u)
  BY <1>1, <1>5 DEF CacheFate, TypeOK
<1>7. ASSUME NEW q \in Requests, NEW u \in Users
      PROVE  FillFate(q, u)
  BY <1>1, <1>5 DEF FillFate
<1>8. Sound'
  BY <1>6, <1>7, SoundMoved
<1> QED BY <1>4, <1>8 DEF Inv

LEMMA InitInv == Init => Inv
<1>1. SUFFICES ASSUME Init
               PROVE  Inv
  OBVIOUS
<1>2. TypeOK
  BY <1>1 DEF Init, TypeOK, Places
<1>3. Anchored
  BY <1>1, NoneIsNothing DEF Init, Anchored
<1>4. \A r \in Requests : Carries(r)
  BY <1>1 DEF Init, Carries
<1>5. Sound
  BY <1>1 DEF Init, Sound, Excused
<1> QED BY <1>2, <1>3, <1>4, <1>5 DEF Inv, Shape

LEMMA NextInv == Inv /\ [Next]_vars => Inv'
<1>1. SUFFICES ASSUME Inv, [Next]_vars
               PROVE  Inv'
  OBVIOUS
<1>2. Shape
  BY <1>1 DEF Inv
<1>3. ASSUME NEW r \in Requests, Arrive(r)
      PROVE  Inv'
  <2>1. ArriveEffect(r)
    BY <1>2, <1>3, ArriveStep
  <2>2. TypeOK' /\ Carries(r)' /\ Others(r) /\ UNCHANGED tables
    BY <2>1 DEF ArriveEffect
  <2>3. Shape'
    BY <1>2, <2>2, TablesSame, ShapeMoved
  <2> QED BY <1>1, <2>1, <2>3, ArriveSound DEF Inv
<1>4. ASSUME NEW r \in Requests, Continue(r)
      PROVE  Inv'
  <2>1. CASE AuthRead(r) \/ AuthFill(r)
    BY <1>1, <1>2, <2>1, AuthShape, AuthSound DEF Inv
  <2>2. CASE AssignRoles(r)
    BY <1>1, <1>2, <2>2, AssignShape, AssignSound DEF Inv
  <2>3. CASE GrantPermissions(r)
    BY <1>1, <1>2, <2>3, GrantShape, GrantSound DEF Inv
  <2>4. CASE InvalidateRoleHolders(r)
    BY <1>1, <1>2, <2>4, InvalidateShape, InvalidateSound DEF Inv
  <2>5. CASE DeleteRole(r)
    BY <1>1, <1>2, <2>5, DeleteShape, DeleteRoleSound DEF Inv
  <2>6. CASE (\E n \in Names : RenamePermission(r, n)) \/ DeletePermission(r)
    BY <1>1, <1>2, <2>6, PermissionShape, PermissionSound DEF Inv
  <2>7. CASE \E u \in Users : DeleteIdentity(r, u) \/ DeleteFails(r, u)
    BY <1>1, <1>2, <2>7, DeletedShape, DropSound DEF Inv
  <2>8. CASE Crash(r) \/ AnswerError(r)
    BY <1>1, <1>2, <2>8, EndShape, EndSound DEF Inv
  <2> QED BY <1>4, <2>1, <2>2, <2>3, <2>4, <2>5, <2>6, <2>7, <2>8 DEF Continue
<1>5. CASE \E u \in Users : ExpireIdentity(u)
  BY <1>1, <1>5, ExpireInv
<1>6. CASE UNCHANGED vars
  <2>1. UNCHANGED <<tables, roles, name, holds, grants, cache, pc, subject, wanted, fill, todo,
                    abandoned>>
    BY <1>6 DEF vars, tables
  <2>2. Shape'
    BY <1>2, <2>1 DEF Shape, TypeOK, Anchored, Carries
  <2>3. ASSUME NEW u \in Users
        PROVE  Kept(u)
    <3>1. Owed(u) => Owed(u)'
      BY <2>1, OwedSplit DEF OwedBy
    <3> QED BY <1>2, <2>1, <3>1, TablesUndisturbed DEF Kept
  <2>4. Sound'
    BY <1>1, <2>1, <2>3, SoundMoved DEF CacheFate, FillFate
  <2> QED BY <2>2, <2>4 DEF Inv
<1> QED BY <1>1, <1>3, <1>4, <1>5, <1>6 DEF Next

(***************************************************************************)
(* In every reachable state a request carries what its next await needs,   *)
(* join rows refer to roles and permissions that exist, and a wrong        *)
(* identity, cached or in flight, has its delete owed or was lost.         *)
(***************************************************************************)
THEOREM Invariance == Spec => []Inv
BY InitInv, NextInv, PTL DEF Spec

(***************************************************************************)
(* Every variable keeps its type: what is cached is an identity made of    *)
(* roles and of permissions with their names, of a user.                   *)
(***************************************************************************)
THEOREM CacheTypeCorrect == Spec => []TypeOK
<1>1. Inv => TypeOK
  BY DEF Inv, Shape
<1> QED BY <1>1, Invariance, PTL

(***************************************************************************)
(* roles.service.ts:28-31, 135, users.service.ts:234-236: in every         *)
(* interleaving of assignments, role updates and deletions, permission     *)
(* edits, authentications, failed deletes and deaths of processes, an      *)
(* identity that disagrees with the roles and grants in the database has   *)
(* its delete still owed or given up, or was lost to one of the two named  *)
(* races.                                                                  *)
(***************************************************************************)
THEOREM StaleRolesCorrect == Spec => []StaleRolesExcusedEverywhere
<1>1. Inv => StaleRolesExcusedEverywhere
  <2>1. SUFFICES ASSUME Inv
                 PROVE  StaleRolesExcusedEverywhere
    OBVIOUS
  <2>2. StaleRolesAreOwedOrLost
    BY <2>1 DEF Inv, Sound, StaleRolesAreOwedOrLost
  <2>3. ASSUME NEW r \in Requests
        PROVE  Excused(fill[r], subject[r])
    <3>1. CASE fill[r] = None
      BY <3>1 DEF Excused
    <3>2. CASE fill[r] # None
      <4>1. subject[r] \in Users
        BY <2>1, <3>2 DEF Inv, Shape, Carries
      <4> QED BY <2>1, <4>1 DEF Inv, Sound
    <3> QED BY <3>1, <3>2
  <2> QED BY <2>2, <2>3 DEF StaleRolesExcusedEverywhere
<1> QED BY <1>1, Invariance, PTL
============================================================================
