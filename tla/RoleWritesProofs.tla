--------------------------- MODULE RoleWritesProofs --------------------------
(***************************************************************************)
(* Theorems about RoleWrites, for every value of its constants: any number *)
(* of requests, roles, permissions, users and names.  One inductive        *)
(* invariant says, for each request, what it carries, which rows its       *)
(* transaction has written at which statement and with which value, and,   *)
(* for each two requests, that neither has what the other holds; each step *)
(* preserves it, and from it follow the types, the uniqueness of names,    *)
(* the anchoring of join rows, the refinement of RoleStore and, with what  *)
(* it says of the order of the locks, who can wait for whom in a circle.   *)
(***************************************************************************)
EXTENDS RoleWrites, TLAPS

Creates(r) == call[r] \in {"createRole", "createUser", "createPermissions"}
Updates(r) == call[r] \in {"updateRole", "updatePermission", "updateUser"}
Removes(r) == call[r] \in {"removeRole", "removePermission"}

(***************************************************************************)
(* What a request carries and where it can be, by the operation it asks    *)
(* for.                                                                    *)
(***************************************************************************)
Assigns == {"grant", "refer", "commit"}

MayBeAt(what, place) ==
  /\ what \in {"createRole", "createUser"} =>
       place \in {"checkName", "checkList", "insert"} \cup Assigns
  /\ what \in {"updateRole", "updateUser"} =>
       place \in {"checkName", "checkList", "rewrite", "enter", "scan", "remove"} \cup Assigns
  /\ what = "createPermissions" => place \in {"checkNames", "insert", "commit"}
  /\ what = "updatePermission" => place \in {"rewrite", "enter", "commit"}
  /\ what \in {"removeRole", "removePermission"} =>
       place \in {"strike", "scan", "remove", "commit"}
  /\ what = None => place \in {"idle"} \cup Answers

Payload(r) ==
  /\ call[r] \in {"createRole", "updateRole"} =>
       target[r] \in Roles /\ DOMAIN put[r] = {target[r]} /\ list[r] \subseteq Perms
  /\ call[r] \in {"createUser", "updateUser"} =>
       target[r] \in Users /\ DOMAIN put[r] = {target[r]} /\ list[r] \subseteq Roles
  /\ call[r] = "createPermissions" =>
       target[r] = None /\ DOMAIN put[r] \subseteq Perms /\ DOMAIN put[r] # {} /\ list[r] = {}
  /\ call[r] = "updatePermission" =>
       target[r] \in Perms /\ DOMAIN put[r] = {target[r]} /\ list[r] = {}
  /\ Removes(r) =>
       /\ target[r] \in IF call[r] = "removeRole" THEN Roles ELSE Perms
       /\ DOMAIN put[r] = {} /\ list[r] = {}
  /\ call[r] = None => list[r] = {}

Carries(r) == MayBeAt(call[r], at[r]) /\ Payload(r)

(***************************************************************************)
(* The rows a transaction is about: new ones are written as they are       *)
(* inserted; an updated row is locked unless it was gone when its turn     *)
(* came, and users are never gone; a deleted row is locked before its join *)
(* rows are looked for.                                                    *)
(***************************************************************************)
Parent(r) ==
  /\ at[r] \in Before \cup Answers \cup {"rewrite", "strike"} => DOMAIN mine[r] = {}
  /\ DOMAIN mine[r] \subseteq Join \cup DOMAIN put[r] \cup {target[r]}
  /\ Creates(r) =>
       \A x \in DOMAIN put[r] :
         /\ db[x] = None
         /\ x \in DOMAIN mine[r] => mine[r][x] = put[r][x]
         /\ x \in DOMAIN mine[r] \/ (at[r] \in Before \cup {"insert"} /\ x \in left[r])
  /\ Creates(r) /\ at[r] \in Before \cup {"insert"} => left[r] \subseteq DOMAIN put[r]
  /\ Updates(r) /\ target[r] \in DOMAIN mine[r] =>
       /\ db[target[r]] # None
       /\ mine[r][target[r]] = IF target[r] \in DOMAIN put[r] THEN put[r][target[r]]
                               ELSE db[target[r]]
  /\ Updates(r) /\ at[r] \notin Before \cup {"rewrite"} /\ target[r] \notin DOMAIN mine[r] =>
       db[target[r]] = None
  /\ call[r] = "updateUser" => db[target[r]] # None
  /\ Removes(r) /\ target[r] \in DOMAIN mine[r] =>
       db[target[r]] # None /\ mine[r][target[r]] = None
  /\ Removes(r) /\ at[r] \in {"scan", "remove"} => target[r] \in DOMAIN mine[r]
  /\ Removes(r) /\ target[r] \notin DOMAIN mine[r] => DOMAIN mine[r] = {}

(***************************************************************************)
(* Its join rows: those of the old list are deleted, those of the new one  *)
(* inserted after that.                                                    *)
(***************************************************************************)
NewRows(r) == IF at[r] \in {"refer", "commit"} THEN {target[r]} \X list[r] ELSE {}

Joins(r) ==
  /\ \A j \in Join \cap DOMAIN mine[r] :
       /\ mine[r][j] = IF j \in NewRows(r) THEN "present" ELSE None
       /\ j \in JoinRows(r)
       /\ call[r] \notin {"createPermissions", "updatePermission"}
       /\ call[r] \in {"createRole", "createUser"} => j \in {target[r]} \X list[r]
  /\ NewRows(r) \subseteq DOMAIN mine[r]
  /\ at[r] = "remove" => left[r] \subseteq JoinRows(r)

Cleared(r) ==
  /\ call[r] \in {"updateRole", "updateUser", "removeRole", "removePermission"}
  /\ at[r] \in {"remove", "grant", "refer", "commit"}
  /\ target[r] \in DOMAIN mine[r]
  => \A j \in JoinRows(r) :
       Sees(r, j) # None => j \in NewRows(r) \/ (at[r] = "remove" /\ j \in left[r])

(***************************************************************************)
(* The rows its foreign keys have locked.                                  *)
(***************************************************************************)
Referred(r) ==
  /\ shared[r] \subseteq list[r]
  /\ shared[r] # {} => at[r] \in {"refer", "commit"} /\ Sees(r, target[r]) # None
  /\ \A y \in shared[r] : db[y] # None
  /\ at[r] = "commit" => list[r] \subseteq shared[r]
  /\ at[r] = "refer" => left[r] \subseteq list[r] /\ list[r] \subseteq shared[r] \cup left[r]

\* The names it has taken are nobody's, as it sees the tables.
OwnNames(r) ==
  at[r] # "enter" =>
    \A x \in Entities \cap DOMAIN mine[r] : mine[r][x] # None =>
      \A y \in TableOf(x) \ {x} : Sees(r, y) # mine[r][x]

Local(r) ==
  Carries(r) /\ Parent(r) /\ Joins(r) /\ Cleared(r) /\ Referred(r) /\ OwnNames(r)

(***************************************************************************)
(* What two requests owe each other.                                       *)
(***************************************************************************)
LocksApart(q, r) == DOMAIN mine[q] \cap DOMAIN mine[r] = {}

NamesApart(q, r) ==
  at[q] # "enter" /\ at[r] # "enter" =>
    \A x \in Entities \cap DOMAIN mine[q] : mine[q][x] # None =>
      \A y \in TableOf(x) \cap DOMAIN mine[r] : x # y => mine[q][x] # mine[r][y]

SharedKept(q, r) == \A y \in shared[r] \cap DOMAIN mine[q] : mine[q][y] = db[y]

IdsApart(q, r) ==
  Creates(q) => /\ Creates(r) => DOMAIN put[q] \cap DOMAIN put[r] = {}
                /\ Updates(r) => target[r] \notin DOMAIN put[q]

Apart(q, r) == LocksApart(q, r) /\ NamesApart(q, r) /\ SharedKept(q, r) /\ IdsApart(q, r)

Kinds ==
  /\ \A x \in Entities : db[x] \in Names \cup {None}
  /\ \A j \in Join : db[j] \in {"present", None}

FreshIds ==
  /\ \A x \in fresh : db[x] = None
  /\ \A r \in Requests : Creates(r) => DOMAIN put[r] \cap fresh = {}
  /\ \A r \in Requests : Updates(r) => target[r] \notin fresh

Inv ==
  /\ TypeOK /\ Kinds /\ FreshIds /\ UniqueNames(db) /\ Anchored(db)
  /\ \A r \in Requests : Local(r)
  /\ \A r \in Requests : \A q \in Others(r) : Apart(q, r)

-----------------------------------------------------------------------------
\* What a request can have asked for, by where it is.
LEMMA CallsByPlace ==
  ASSUME TypeOK, NEW r \in Requests, Carries(r)
  PROVE  /\ at[r] \in {"checkName", "checkList", "grant", "refer"} =>
              call[r] \in {"createRole", "createUser", "updateRole", "updateUser"}
         /\ at[r] = "checkNames" => call[r] = "createPermissions"
         /\ at[r] = "insert" => Creates(r)
         /\ at[r] \in {"rewrite", "enter"} => Updates(r)
         /\ at[r] = "strike" => Removes(r)
         /\ at[r] \in {"scan", "remove"} =>
              call[r] \in {"updateRole", "updateUser", "removeRole", "removePermission"}
         /\ at[r] \notin {"idle"} \cup Answers => call[r] \in Calls
<1>1. call[r] \in Calls \cup {None} /\ MayBeAt(call[r], at[r])
  BY DEF TypeOK, Carries
<1>2. CASE call[r] \in {"createRole", "createUser"}
  BY <1>1, <1>2 DEF MayBeAt, Assigns, Creates, Calls
<1>3. CASE call[r] \in {"updateRole", "updateUser"}
  BY <1>1, <1>3 DEF MayBeAt, Assigns, Updates, Calls
<1>4. CASE call[r] = "createPermissions"
  BY <1>1, <1>4 DEF MayBeAt, Creates, Calls
<1>5. CASE call[r] = "updatePermission"
  BY <1>1, <1>5 DEF MayBeAt, Updates, Calls
<1>6. CASE call[r] \in {"removeRole", "removePermission"}
  BY <1>1, <1>6 DEF MayBeAt, Removes, Calls
<1>7. CASE call[r] = None
  BY <1>1, <1>7 DEF MayBeAt, Answers
<1> QED BY <1>1, <1>2, <1>3, <1>4, <1>5, <1>6, <1>7 DEF Calls

\* A request that moves to a place its call allows carries what it carried.
LEMMA CarriesOn ==
  ASSUME NEW r \in Requests, Carries(r), MayBeAt(call[r], at'[r]), UNCHANGED request
  PROVE  Carries(r)'
BY DEF Carries, Payload, MayBeAt, Removes, request

-----------------------------------------------------------------------------
(***************************************************************************)
(* A step of r that commits nothing.                                       *)
(***************************************************************************)
Untouched(q) ==
  /\ mine'[q] = mine[q] /\ shared'[q] = shared[q] /\ at'[q] = at[q]
  /\ call'[q] = call[q] /\ target'[q] = target[q] /\ put'[q] = put[q]
  /\ list'[q] = list[q] /\ left'[q] = left[q]

Uncommitted(r) ==
  /\ TypeOK' /\ db' = db /\ FreshIds'
  /\ \A q \in Others(r) : Untouched(q)
  /\ Local(r)'
  /\ \A q \in Others(r) : Apart(q, r)' /\ Apart(r, q)'

LEMMA LocalKept ==
  ASSUME NEW q \in Requests, Local(q), Untouched(q), db' = db
  PROVE  Local(q)'
<1> USE DEF Untouched, Local
<1>1. \A x : Sees(q, x)' = Sees(q, x)
  BY DEF Sees
<1>2. NewRows(q)' = NewRows(q) /\ JoinRows(q)' = JoinRows(q)
  BY DEF NewRows, JoinRows
<1>3. Carries(q)'
  BY DEF Carries, Payload, Removes
<1>4. Parent(q)'
  BY DEF Parent, Creates, Updates, Removes
<1>5. Joins(q)'
  BY <1>2 DEF Joins
<1>6. Cleared(q)'
  BY <1>1, <1>2 DEF Cleared
<1>7. Referred(q)'
  BY <1>1 DEF Referred
<1>8. OwnNames(q)'
  BY <1>1 DEF OwnNames
<1> QED BY <1>3, <1>4, <1>5, <1>6, <1>7, <1>8

LEMMA Assembled ==
  ASSUME Inv, NEW r \in Requests, Uncommitted(r)
  PROVE  Inv'
<1>1. Kinds' /\ UniqueNames(db)' /\ Anchored(db)'
  BY DEF Inv, Uncommitted, Kinds, UniqueNames, Anchored
<1>2. ASSUME NEW q \in Requests PROVE Local(q)'
  BY LocalKept DEF Inv, Uncommitted, Others
<1>3. ASSUME NEW p \in Requests, NEW q \in Others(p) PROVE Apart(q, p)'
  <2>1. CASE p = r \/ q = r
    BY <2>1 DEF Uncommitted, Others
  <2>2. CASE p # r /\ q # r
    <3>1. Apart(q, p) /\ Untouched(p) /\ Untouched(q) /\ db' = db
      BY <2>2 DEF Inv, Uncommitted, Others
    <3> QED BY <3>1 DEF Apart, LocksApart, NamesApart, SharedKept, IdsApart, Untouched,
                        Creates, Updates
  <2> QED BY <2>1, <2>2
<1> QED BY <1>1, <1>2, <1>3 DEF Inv, Uncommitted

-----------------------------------------------------------------------------
\* A request that has no transaction, and carries nothing.
LEMMA Emptied ==
  ASSUME NEW r \in Requests,
         DOMAIN mine'[r] = {}, shared'[r] = {}, at'[r] \in Answers, call'[r] = None,
         DOMAIN put'[r] = {}, list'[r] = {}, left'[r] = {}
  PROVE  Local(r)' /\ \A q \in Others(r) : Apart(q, r)' /\ Apart(r, q)'
<1>1. Carries(r)'
  BY NoneIsNothing DEF Carries, MayBeAt, Payload, Removes, Calls
<1>2. Parent(r)'
  BY NoneIsNothing DEF Parent, Creates, Updates, Removes, Calls
<1>3. Joins(r)' /\ Cleared(r)' /\ Referred(r)' /\ OwnNames(r)'
  BY DEF Joins, NewRows, Cleared, Referred, OwnNames, Answers
<1>4. ASSUME NEW q \in Others(r) PROVE Apart(q, r)' /\ Apart(r, q)'
  <2>1. LocksApart(q, r)' /\ LocksApart(r, q)' BY DEF LocksApart
  <2>2. NamesApart(q, r)' /\ NamesApart(r, q)' BY DEF NamesApart
  <2>3. SharedKept(q, r)' /\ SharedKept(r, q)' BY DEF SharedKept
  <2>4. IdsApart(q, r)' /\ IdsApart(r, q)'
    BY NoneIsNothing DEF IdsApart, Creates, Updates, Calls
  <2> QED BY <2>1, <2>2, <2>3, <2>4 DEF Apart
<1> QED BY <1>1, <1>2, <1>3, <1>4 DEF Local

\* A transaction ends: what is left of its request.
LEMMA ReleaseEffect ==
  ASSUME TypeOK, NEW r \in Requests, NEW answer \in Answers, Release(r, answer)
  PROVE  /\ DOMAIN mine'[r] = {} /\ shared'[r] = {} /\ at'[r] = answer /\ call'[r] = None
         /\ DOMAIN put'[r] = {} /\ list'[r] = {} /\ left'[r] = {} /\ fresh' = fresh
         /\ \A q \in Others(r) : Untouched(q)
         /\ db' \in [Row -> Value] => TypeOK'
<1> USE DEF Release, Goto, Nothing
<1>1. /\ DOMAIN mine'[r] = {} /\ shared'[r] = {} /\ at'[r] = answer /\ call'[r] = None
      /\ DOMAIN put'[r] = {} /\ list'[r] = {} /\ left'[r] = {} /\ fresh' = fresh
  BY DEF TypeOK
<1>2. \A q \in Others(r) : Untouched(q)
  BY DEF TypeOK, Others, Untouched
<1>3. db' \in [Row -> Value] => TypeOK'
  BY DEF TypeOK
<1> QED BY <1>1, <1>2, <1>3

LEMMA Released ==
  ASSUME Inv, NEW r \in Requests, NEW answer \in Answers, RollBack(r, answer)
  PROVE  Uncommitted(r)
<1>1. TypeOK /\ FreshIds /\ db' = db /\ Release(r, answer)
  BY DEF Inv, RollBack
<1>2. /\ DOMAIN mine'[r] = {} /\ shared'[r] = {} /\ at'[r] = answer /\ call'[r] = None
      /\ DOMAIN put'[r] = {} /\ list'[r] = {} /\ left'[r] = {} /\ fresh' = fresh
      /\ \A q \in Others(r) : Untouched(q)
      /\ db' \in [Row -> Value] => TypeOK'
  BY <1>1, ReleaseEffect
<1>3. TypeOK'
  BY <1>1, <1>2 DEF TypeOK
<1>4. FreshIds'
  BY <1>1, <1>2, NoneIsNothing DEF FreshIds, Creates, Updates, Others, Untouched, Calls
<1>5. Local(r)' /\ \A q \in Others(r) : Apart(q, r)' /\ Apart(r, q)'
  BY <1>2, Emptied
<1> QED BY <1>1, <1>2, <1>3, <1>4, <1>5 DEF Uncommitted

(***************************************************************************)
(* A request arrives.                                                      *)
(***************************************************************************)
LEMMA Arrived ==
  ASSUME Inv, NEW r \in Requests, NEW what \in Calls,
         NEW place \in (Before \ {"idle"}) \cup {"rewrite", "strike"},
         NEW x \in Entities \cup {None}, NEW names,
         NEW items \in SUBSET (Roles \cup Perms),
         Arrive(r, what, place, x, names, items),
         DOMAIN names \subseteq Entities, \A y \in DOMAIN names : names[y] \in Names,
         Carries(r)',
         what \in {"createRole", "createUser", "createPermissions"} => DOMAIN names \subseteq fresh,
         what \in {"updateRole", "updatePermission", "updateUser"} => db[x] # None
  PROVE  Uncommitted(r)
<1>1. TypeOK /\ FreshIds /\ Local(r)
  BY DEF Inv
<1>2. at[r] = "idle" /\ DOMAIN mine[r] = {} /\ shared[r] = {}
  BY <1>1 DEF Arrive, Local, Parent, Referred, Before
<1>3. /\ mine' = mine /\ shared' = shared /\ db' = db /\ at'[r] = place /\ call'[r] = what
      /\ target'[r] = x /\ put'[r] = names /\ list'[r] = items
      /\ left'[r] = DOMAIN names \cap fresh /\ fresh' = fresh \ DOMAIN names
  BY <1>1 DEF Arrive, Goto, TypeOK
<1>4. \A q \in Others(r) : Untouched(q)
  BY <1>1 DEF Arrive, Goto, TypeOK, Others, Untouched
<1>5. TypeOK'
  <2>1. DOMAIN put' = Requests
    BY <1>1 DEF TypeOK, Arrive
  <2>2. ASSUME NEW q \in Requests
        PROVE  /\ DOMAIN put'[q] \subseteq Entities
               /\ \A y \in DOMAIN put'[q] : put'[q][y] \in Names
    BY <1>1, <1>3, <1>4, <2>2 DEF TypeOK, Others, Untouched, Entities
  <2>3. at' \in [Requests -> Before \cup Statements \cup Answers]
    BY <1>1 DEF TypeOK, Arrive, Goto, Statements
  <2>4. left' \in [Requests -> SUBSET Row]
    BY <1>1 DEF TypeOK, Arrive, Row, Entities
  <2> QED BY <1>1, <1>3, <2>1, <2>2, <2>3, <2>4 DEF TypeOK, Arrive
<1>6. FreshIds'
  <2>1. \A q \in Others(r) : \A y : y \notin fresh => y \notin fresh'
    BY <1>3
  <2>2. what \in {"updateRole", "updatePermission", "updateUser"} => x \notin fresh
    BY <1>1 DEF FreshIds
  <2>3. Creates(r)' => DOMAIN put'[r] \cap fresh' = {}
    BY <1>3
  <2>4. Updates(r)' => target'[r] \notin fresh'
    BY <1>3, <2>2 DEF Updates
  <2>5. ASSUME NEW q \in Others(r)
        PROVE  /\ Creates(q)' => DOMAIN put'[q] \cap fresh' = {}
               /\ Updates(q)' => target'[q] \notin fresh'
    BY <1>1, <1>3, <1>4 DEF FreshIds, Creates, Updates, Untouched, Others
  <2> QED BY <1>1, <1>3, <2>3, <2>4, <2>5 DEF FreshIds, Others
<1>7. Local(r)'
  <2>1. Parent(r)'
    <3>1. Creates(r)' => \A y \in DOMAIN names : db[y] = None /\ y \in left'[r]
      BY <1>1, <1>3 DEF Creates, FreshIds
    <3>3. at'[r] \notin Answers \cup {"scan", "remove"}
      BY <1>3 DEF Before, Answers
    <3>4. DOMAIN mine'[r] = {}
      BY <1>2, <1>3
    <3>5. Removes(r)' => at'[r] \notin {"scan", "remove"}
      BY <3>3
    <3>6. Creates(r)' => at'[r] \in Before \cup {"insert"}
      BY <1>3 DEF Creates, Carries, MayBeAt, Payload, Removes, Before, Assigns
    <3>7. Creates(r)' => left'[r] \subseteq DOMAIN put'[r]
      BY <1>3
    <3>8. Updates(r)' => at'[r] \in Before \cup {"rewrite"}
      BY <1>3 DEF Updates, Carries, MayBeAt, Payload, Before, Assigns
    <3>9. call'[r] = "updateUser" => db'[target'[r]] # None
      BY <1>3
    <3> QED BY <1>3, <3>1, <3>4, <3>5, <3>6, <3>7, <3>8, <3>9 DEF Parent
  <2>2. Joins(r)' /\ Cleared(r)' /\ Referred(r)' /\ OwnNames(r)'
    BY <1>2, <1>3 DEF Joins, NewRows, Cleared, Referred, OwnNames, Before
  <2> QED BY <2>1, <2>2 DEF Local
<1>8. ASSUME NEW q \in Others(r) PROVE Apart(q, r)' /\ Apart(r, q)'
  <2>0. q \in Requests /\ q # r /\ Untouched(q) /\ Local(q) /\ r \in Others(q)
    BY <1>4 DEF Others, Inv
  <2>1. LocksApart(q, r)' /\ LocksApart(r, q)' BY <1>2, <1>3 DEF LocksApart
  <2>2. NamesApart(q, r)' /\ NamesApart(r, q)' BY <1>2, <1>3 DEF NamesApart
  <2>3. SharedKept(q, r)' /\ SharedKept(r, q)' BY <1>2, <1>3 DEF SharedKept
  <2>4. IdsApart(q, r)'
    <3>1. Creates(q) => DOMAIN put[q] \cap fresh = {} /\ \A y \in DOMAIN put[q] : db[y] = None
      BY <1>1, <2>0 DEF FreshIds, Local, Parent
    <3> QED BY <1>3, <2>0, <3>1 DEF IdsApart, Creates, Updates, Untouched
  <2>5. IdsApart(r, q)'
    <3>1. Creates(q) => DOMAIN put[q] \cap fresh = {}
      BY <1>1, <2>0 DEF FreshIds
    <3>2. Updates(q) => target[q] \notin fresh
      BY <1>1, <2>0 DEF FreshIds
    <3> QED BY <1>3, <2>0, <3>1, <3>2 DEF IdsApart, Creates, Updates, Untouched
  <2> QED BY <2>1, <2>2, <2>3, <2>4, <2>5 DEF Apart
<1> QED BY <1>3, <1>4, <1>5, <1>6, <1>7, <1>8 DEF Uncommitted

LEMMA ArriveEffect ==
  ASSUME TypeOK, NEW r \in Requests, NEW what, NEW place, NEW x, NEW names, NEW items,
         Arrive(r, what, place, x, names, items)
  PROVE  /\ at'[r] = place /\ call'[r] = what /\ target'[r] = x /\ put'[r] = names
         /\ list'[r] = items
BY DEF Arrive, Goto, TypeOK

LEMMA CallingStep ==
  ASSUME Inv, NEW r \in Requests, Calling(r)
  PROVE  Uncommitted(r)
<1>0. TypeOK /\ fresh \subseteq Entities /\ \A c \in Calls : c # None
  BY NoneIsNothing DEF Inv, TypeOK, Entities
<1>1. ASSUME NEW role \in Roles,
             RemoveRole(r, role)
      PROVE  Uncommitted(r)
  <2>1. Arrive(r, "removeRole", "strike", role, Nothing, {})
    BY <1>1 DEF RemoveRole
  <2>2. DOMAIN Nothing = {}
    BY DEF Nothing
  <2>3. /\ at'[r] = "strike" /\ call'[r] = "removeRole" /\ target'[r] = role
        /\ put'[r] = Nothing /\ list'[r] = {}
    BY <1>0, <2>1, ArriveEffect
  <2>4. Carries(r)'
    BY <1>0, <2>2, <2>3 DEF Carries, MayBeAt, Payload, Removes, Assigns, Calls
  <2> QED BY <1>0, <2>1, <2>2, <2>4, Arrived DEF Calls, Before, Entities
<1>2. ASSUME NEW role \in Roles, NEW n \in Names, NEW items \in SUBSET Perms,
             CreateRole(r, role, n, items)
      PROVE  Uncommitted(r)
  <2>1. Arrive(r, "createRole", "checkName", role, Named(role, n), items) /\ role \in fresh
    BY <1>2 DEF CreateRole
  <2>2. DOMAIN Named(role, n) = {role} /\ Named(role, n)[role] = n
    BY DEF Named
  <2>3. /\ at'[r] = "checkName" /\ call'[r] = "createRole" /\ target'[r] = role
        /\ put'[r] = Named(role, n) /\ list'[r] = items
    BY <1>0, <2>1, ArriveEffect
  <2>4. Carries(r)'
    BY <1>0, <2>2, <2>3 DEF Carries, MayBeAt, Payload, Removes, Assigns, Calls
  <2> QED BY <1>0, <2>1, <2>2, <2>4, Arrived DEF Calls, Before, Entities
<1>3. ASSUME NEW role \in Roles, NEW n \in Names, NEW items \in SUBSET Perms,
             UpdateRole(r, role, n, items)
      PROVE  Uncommitted(r)
  <2>1. Arrive(r, "updateRole", "checkName", role, Named(role, n), items) /\ db[role] # None
    BY <1>3 DEF UpdateRole
  <2>2. DOMAIN Named(role, n) = {role} /\ Named(role, n)[role] = n
    BY DEF Named
  <2>3. /\ at'[r] = "checkName" /\ call'[r] = "updateRole" /\ target'[r] = role
        /\ put'[r] = Named(role, n) /\ list'[r] = items
    BY <1>0, <2>1, ArriveEffect
  <2>4. Carries(r)'
    BY <1>0, <2>2, <2>3 DEF Carries, MayBeAt, Payload, Removes, Assigns, Calls
  <2> QED BY <1>0, <2>1, <2>2, <2>4, Arrived DEF Calls, Before, Entities
<1>4. ASSUME NEW new \in SUBSET Perms, NEW names \in [Perms -> Names],
             CreatePermissions(r, new, names)
      PROVE  Uncommitted(r)
  <2> DEFINE given == [p \in new |-> names[p]]
  <2>1. /\ Arrive(r, "createPermissions", "checkNames", None, given, {})
        /\ new # {} /\ new \subseteq fresh
    BY <1>4 DEF CreatePermissions
  <2>2. DOMAIN given = new /\ \A y \in new : given[y] \in Names
    OBVIOUS
  <2> HIDE DEF given
  <2>3. /\ at'[r] = "checkNames" /\ call'[r] = "createPermissions" /\ target'[r] = None
        /\ put'[r] = given /\ list'[r] = {}
    BY <1>0, <2>1, ArriveEffect
  <2>4. Carries(r)'
    BY <1>0, <2>1, <2>2, <2>3 DEF Carries, MayBeAt, Payload, Removes, Assigns, Calls
  <2>5. DOMAIN given \subseteq fresh /\ \A y \in DOMAIN given : given[y] \in Names
    BY <2>1, <2>2
  <2>6. DOMAIN given \subseteq Entities
    BY <2>2 DEF Entities
  <2>7. "createPermissions" \in Calls /\ "checkNames" \in Before \ {"idle"}
    BY DEF Calls, Before
  <2> QED BY <2>1, <2>4, <2>5, <2>6, <2>7, Arrived
<1>5. ASSUME NEW p \in Perms,
             RemovePermission(r, p)
      PROVE  Uncommitted(r)
  <2>1. Arrive(r, "removePermission", "strike", p, Nothing, {})
    BY <1>5 DEF RemovePermission
  <2>2. DOMAIN Nothing = {}
    BY DEF Nothing
  <2>3. /\ at'[r] = "strike" /\ call'[r] = "removePermission" /\ target'[r] = p
        /\ put'[r] = Nothing /\ list'[r] = {}
    BY <1>0, <2>1, ArriveEffect
  <2>4. Carries(r)'
    BY <1>0, <2>2, <2>3 DEF Carries, MayBeAt, Payload, Removes, Assigns, Calls
  <2> QED BY <1>0, <2>1, <2>2, <2>4, Arrived DEF Calls, Before, Entities
<1>6. ASSUME NEW p \in Perms, NEW n \in Names,
             UpdatePermission(r, p, n)
      PROVE  Uncommitted(r)
  <2>1. Arrive(r, "updatePermission", "rewrite", p, Named(p, n), {}) /\ db[p] # None
    BY <1>6 DEF UpdatePermission
  <2>2. DOMAIN Named(p, n) = {p} /\ Named(p, n)[p] = n
    BY DEF Named
  <2>3. /\ at'[r] = "rewrite" /\ call'[r] = "updatePermission" /\ target'[r] = p
        /\ put'[r] = Named(p, n) /\ list'[r] = {}
    BY <1>0, <2>1, ArriveEffect
  <2>4. Carries(r)'
    BY <1>0, <2>2, <2>3 DEF Carries, MayBeAt, Payload, Removes, Assigns, Calls
  <2> QED BY <1>0, <2>1, <2>2, <2>4, Arrived DEF Calls, Before, Entities
<1>7. ASSUME NEW u \in Users, NEW n \in Names, NEW items \in SUBSET Roles,
             CreateUser(r, u, n, items)
      PROVE  Uncommitted(r)
  <2>1. Arrive(r, "createUser", "checkName", u, Named(u, n), items) /\ u \in fresh
    BY <1>7 DEF CreateUser
  <2>2. DOMAIN Named(u, n) = {u} /\ Named(u, n)[u] = n
    BY DEF Named
  <2>3. /\ at'[r] = "checkName" /\ call'[r] = "createUser" /\ target'[r] = u
        /\ put'[r] = Named(u, n) /\ list'[r] = items
    BY <1>0, <2>1, ArriveEffect
  <2>4. Carries(r)'
    BY <1>0, <2>2, <2>3 DEF Carries, MayBeAt, Payload, Removes, Assigns, Calls
  <2> QED BY <1>0, <2>1, <2>2, <2>4, Arrived DEF Calls, Before, Entities
<1>8. ASSUME NEW u \in Users, NEW n \in Names, NEW items \in SUBSET Roles,
             UpdateUser(r, u, n, items)
      PROVE  Uncommitted(r)
  <2>1. Arrive(r, "updateUser", "checkName", u, Named(u, n), items) /\ db[u] # None
    BY <1>8 DEF UpdateUser
  <2>2. DOMAIN Named(u, n) = {u} /\ Named(u, n)[u] = n
    BY DEF Named
  <2>3. /\ at'[r] = "checkName" /\ call'[r] = "updateUser" /\ target'[r] = u
        /\ put'[r] = Named(u, n) /\ list'[r] = items
    BY <1>0, <2>1, ArriveEffect
  <2>4. Carries(r)'
    BY <1>0, <2>2, <2>3 DEF Carries, MayBeAt, Payload, Removes, Assigns, Calls
  <2> QED BY <1>0, <2>1, <2>2, <2>4, Arrived DEF Calls, Before, Entities
<1> QED BY <1>1, <1>2, <1>3, <1>4, <1>5, <1>6, <1>7, <1>8 DEF Calling

(***************************************************************************)
(* What the place of a request and the locks it waits for say.             *)
(***************************************************************************)
LEMMA Waits ==
  ASSUME NEW r \in Requests, NEW x
  PROVE  /\ At(r, "insert", x) =>
              at[r] = "insert" /\ x \in left[r] /\ NameWriters(r, x) = {}
         /\ At(r, "enter", x) => at[r] = "enter" /\ NameWriters(r, x) = {}
         /\ At(r, "rewrite", x) =>
              at[r] = "rewrite" /\ Writers(r, x) = {} /\ (Renames(r) => Sharers(r, x) = {})
         /\ At(r, "strike", x) =>
              at[r] = "strike" /\ Writers(r, x) = {} /\ Sharers(r, x) = {}
         /\ At(r, "remove", x) =>
              at[r] = "remove" /\ x \in left[r] /\ Writers(r, x) = {}
         /\ At(r, "refer", x) =>
              /\ at[r] = "refer" /\ x \in left[r]
              /\ {q \in Others(r) : ChangesKey(q, x)} = {}
<1>1. At(r, "insert", x) =>
        at[r] = "insert" /\ x \in left[r] /\ NameWriters(r, x) = {}
  BY DEF At, Candidates, BlockedOn
<1>2. At(r, "enter", x) => at[r] = "enter" /\ NameWriters(r, x) = {}
  BY DEF At, Candidates, BlockedOn
<1>3. At(r, "rewrite", x) =>
        at[r] = "rewrite" /\ Writers(r, x) = {} /\ (Renames(r) => Sharers(r, x) = {})
  BY DEF At, Candidates, BlockedOn
<1>4. At(r, "strike", x) => at[r] = "strike" /\ Writers(r, x) = {} /\ Sharers(r, x) = {}
  BY DEF At, Candidates, BlockedOn
<1>5. At(r, "remove", x) => at[r] = "remove" /\ x \in left[r] /\ Writers(r, x) = {}
  BY DEF At, Candidates, BlockedOn
<1>6. At(r, "refer", x) =>
        at[r] = "refer" /\ x \in left[r] /\ {q \in Others(r) : ChangesKey(q, x)} = {}
  BY DEF At, Candidates, BlockedOn
<1> QED BY <1>1, <1>2, <1>3, <1>4, <1>5, <1>6

LEMMA WaitsToGrant ==
  ASSUME NEW r \in Requests, NEW x, At(r, "grant", x)
  PROVE  at[r] = "grant" /\ \A y \in list[r] : Writers(r, <<x, y>>) = {}
<1>1. at[r] = "grant" /\ x = target[r] /\ BlockedOn(r, x) = {}
  BY DEF At, Candidates
<1>2. UNION {Writers(r, <<x, y>>) : y \in list[r]} = {}
  BY <1>1 DEF BlockedOn
<1> QED BY <1>1, <1>2

\* The table of each row.
LEMMA TableOfRow ==
  /\ \A x \in Roles : TableOf(x) = Roles
  /\ \A x \in Perms : TableOf(x) = Perms
  /\ \A x \in Users : TableOf(x) = Users
BY RowsOfOneTable DEF TableOf

LEMMA TableOfOther ==
  ASSUME NEW x \in Entities, NEW y \in TableOf(x)
  PROVE  y \in Entities /\ x \in TableOf(y) /\ x \in TableOf(x)
BY TableOfRow DEF Entities

\* A transaction that has written a row that does not exist inserted it.
LEMMA OnlyCreatorsWriteNew ==
  ASSUME Inv, NEW q \in Requests, NEW x \in Entities \cap DOMAIN mine[q], db[x] = None
  PROVE  Creates(q) /\ x \in DOMAIN put[q]
<1>1. Carries(q) /\ Parent(q) /\ TypeOK
  BY DEF Inv, Local
<1>2. x \in DOMAIN put[q] \cup {target[q]}
  BY <1>1, RowsOfOneTable DEF Parent, Entities
<1>3. call[q] # None
  BY <1>1 DEF Carries, MayBeAt, Payload, Parent, Before
<1>4. Creates(q) \/ Updates(q) \/ Removes(q)
  BY <1>1, <1>3 DEF TypeOK, Calls, Creates, Updates, Removes
<1>5. ~Updates(q)
  BY <1>1, <1>2 DEF Updates, Parent, Carries, MayBeAt, Payload
<1>6. ~Removes(q)
  BY <1>1, <1>2 DEF Removes, Parent, Carries, MayBeAt, Payload
<1>7. Creates(q)
  BY <1>4, <1>5, <1>6
<1>8. target[q] \in DOMAIN put[q] \/ target[q] = None
  BY <1>1, <1>7 DEF Creates, Carries, MayBeAt, Payload
<1> QED BY <1>2, <1>7, <1>8, NoneIsNothing DEF Entities

-----------------------------------------------------------------------------
(***************************************************************************)
(* A step that leaves the request itself alone.                            *)
(***************************************************************************)
LEMMA Stepped ==
  ASSUME Inv, NEW r \in Requests, UNCHANGED <<db, fresh, request>>, TypeOK',
         \A q \in Others(r) : /\ mine'[q] = mine[q] /\ shared'[q] = shared[q]
                              /\ at'[q] = at[q] /\ left'[q] = left[q],
         Local(r)',
         \A q \in Others(r) : /\ LocksApart(q, r)'
                              /\ NamesApart(q, r)' /\ NamesApart(r, q)'
                              /\ SharedKept(q, r)' /\ SharedKept(r, q)'
  PROVE  Uncommitted(r)
<1>1. FreshIds'
  BY DEF Inv, request, FreshIds, Creates, Updates
<1>2. \A q \in Others(r) : Untouched(q)
  BY DEF request, Untouched
<1>3. ASSUME NEW q \in Others(r) PROVE Apart(q, r)' /\ Apart(r, q)'
  <2>1. IdsApart(q, r)' /\ IdsApart(r, q)'
    BY DEF Inv, Apart, IdsApart, request, Creates, Updates, Others
  <2>2. LocksApart(r, q)'
    BY DEF LocksApart
  <2> QED BY <2>1, <2>2 DEF Apart
<1> QED BY <1>1, <1>2, <1>3 DEF Uncommitted

\* A step that only goes on to another place.
LEMMA Moved ==
  ASSUME Inv, NEW r \in Requests, UNCHANGED <<db, fresh, mine, shared, request>>,
         TypeOK', at[r] # "enter",
         \A q \in Others(r) : at'[q] = at[q] /\ left'[q] = left[q],
         Local(r)'
  PROVE  Uncommitted(r)
<1>1. ASSUME NEW q \in Others(r)
      PROVE  /\ LocksApart(q, r)'
             /\ NamesApart(q, r)' /\ NamesApart(r, q)'
             /\ SharedKept(q, r)' /\ SharedKept(r, q)'
  <2>1. q \in Requests /\ r \in Others(q)
    BY DEF Others
  <2>2. Apart(q, r) /\ Apart(r, q)
    BY <2>1 DEF Inv
  <2> QED BY <2>2 DEF Apart, LocksApart, NamesApart, SharedKept
<1> QED BY <1>1, Stepped

LEMMA CheckStep ==
  ASSUME Inv, NEW r \in Requests, CheckName(r) \/ CheckList(r) \/ FindExistingByNames(r)
  PROVE  Uncommitted(r)
<1> DEFINE to == IF at[r] = "checkName" THEN "checkList"
                 ELSE IF at[r] = "checkNames" \/ call[r] \in {"createRole", "createUser"}
                      THEN "insert"
                 ELSE "rewrite"
<1>1. TypeOK /\ Local(r)
  BY DEF Inv
<1>2. at[r] \in {"checkName", "checkList", "checkNames"}
  BY DEF CheckName, CheckList, FindExistingByNames, Check
<1>3. CASE \E answer \in Answers : RollBack(r, answer)
  BY <1>3, Released
<1>4. CASE Goto(r, to) /\ UNCHANGED <<db, fresh, mine, shared, request, left>>
  <2>1. at' = [at EXCEPT ![r] = to]
    BY <1>4 DEF Goto
  <2>2. at'[r] = to /\ \A q \in Others(r) : at'[q] = at[q]
    BY <1>1, <2>1 DEF TypeOK, Others
  <2>3. TypeOK'
    BY <1>1, <1>4, <2>1 DEF TypeOK, request, Before, Statements
  <2>4. to \in Before \cup {"insert", "rewrite"} /\ to \notin Assigns \cup {"remove"}
    BY DEF Before, Assigns
  <2>5. DOMAIN mine[r] = {} /\ shared[r] = {}
    BY <1>1, <1>2 DEF Local, Parent, Referred, Before
  <2>6. Carries(r)'
    <3>1. Carries(r) /\ at[r] \notin {"idle"} \cup Answers
      BY <1>1, <1>2 DEF Local, Answers
    <3>2. MayBeAt(call[r], to)
      BY <1>1, <1>2, <3>1, CallsByPlace, NoneIsNothing DEF MayBeAt, Calls
    <3> QED BY <1>4, <2>2, <3>1, <3>2, CarriesOn
  <2>7. Parent(r)'
    <3>1. at[r] \in Before
      BY <1>2 DEF Before
    <3>2. to = "insert" => Creates(r)
      BY <1>1, <1>2, CallsByPlace DEF Local, Creates
    <3>3. to = "rewrite" => ~Creates(r)
      BY <1>1, <1>2, CallsByPlace DEF Local, Creates
    <3>4. ~Removes(r)
      BY <1>1, <1>2, CallsByPlace DEF Local, Removes
    <3>5. /\ Creates(r)' = Creates(r) /\ Updates(r)' = Updates(r) /\ Removes(r)' = Removes(r)
          /\ call' = call /\ put' = put /\ target' = target /\ left' = left
      BY <1>4 DEF request, Creates, Updates, Removes
    <3>6. Creates(r) => ~Updates(r)
      BY DEF Creates, Updates
    <3> HIDE DEF to
    <3> QED BY <1>1, <1>4, <2>2, <2>4, <2>5, <3>1, <3>2, <3>3, <3>4, <3>5, <3>6
            DEF Local, Parent
  <2>8. Joins(r)' /\ Cleared(r)' /\ Referred(r)' /\ OwnNames(r)'
    BY <1>4, <2>2, <2>4, <2>5 DEF Joins, NewRows, Cleared, Referred, OwnNames, Assigns, Before
  <2>9. Local(r)'
    BY <2>6, <2>7, <2>8 DEF Local
  <2> QED BY <1>2, <1>4, <2>2, <2>3, <2>9, Moved
<1>5. CASE CheckName(r)
  BY <1>3, <1>4, <1>5 DEF CheckName, Check, RollBack, Answers
<1>6. CASE CheckList(r)
  BY <1>3, <1>4, <1>6 DEF CheckList, Check, RollBack, Answers
<1>7. CASE FindExistingByNames(r)
  BY <1>3, <1>4, <1>7 DEF FindExistingByNames, Check, RollBack, Answers
<1> QED BY <1>5, <1>6, <1>7

-----------------------------------------------------------------------------
(***************************************************************************)
(* INSERT of a role, of a user or of permissions.                          *)
(***************************************************************************)
\* Row x of r is written, with value v.
Written(r, x, v) ==
  /\ DOMAIN mine'[r] = DOMAIN mine[r] \cup {x}
  /\ \A y \in DOMAIN mine'[r] : mine'[r][y] = IF y = x THEN v ELSE mine[r][y]

LEMMA WriteEffect ==
  ASSUME TypeOK, NEW r \in Requests, NEW x, NEW v, Write(r, x, v)
  PROVE  /\ Written(r, x, v) /\ DOMAIN mine' = Requests
         /\ \A q \in Others(r) : mine'[q] = mine[q]
         /\ x \in Row /\ v \in Value =>
              \A q \in Requests : /\ DOMAIN mine'[q] \subseteq Row
                                  /\ \A y \in DOMAIN mine'[q] : mine'[q][y] \in Value
BY DEF TypeOK, Write, Written, Others

LEMMA ProcessedEffect ==
  ASSUME TypeOK, NEW r \in Requests, NEW x, NEW next, Processed(r, x, next)
  PROVE  /\ left'[r] = left[r] \ {x}
         /\ at'[r] = IF left[r] \ {x} = {} THEN next ELSE at[r]
         /\ \A q \in Others(r) : at'[q] = at[q] /\ left'[q] = left[q]
         /\ left' \in [Requests -> SUBSET Row]
         /\ next \in Statements => at' \in [Requests -> Before \cup Statements \cup Answers]
BY DEF TypeOK, Processed, Goto, Others

\* No other transaction has taken the name that row x is given.
LEMMA NameFree ==
  ASSUME Inv, NEW r \in Requests, NEW x \in Entities,
         NameWriters(r, x) = {}, ~NameTaken(r, x),
         NEW q \in Others(r), at[q] # "enter", x \notin DOMAIN mine[q],
         NEW y \in TableOf(x) \cap DOMAIN mine[q]
  PROVE  mine[q][y] # put[r][x]
<1>1. y # x /\ y \in Entities
  BY TableOfOther
<1>2. CASE mine[q][y] = db[y]
  <2>1. y \notin DOMAIN mine[r]
    BY DEF Inv, Apart, LocksApart
  <2> QED BY <1>1, <1>2, <2>1 DEF NameTaken, Sees
<1>3. CASE mine[q][y] # db[y]
  BY <1>1, <1>3 DEF NameWriters, ChangesKey, Entered
<1> QED BY <1>2, <1>3

LEMMA InsertStep ==
  ASSUME Inv, NEW r \in Requests, NEW x \in left[r], Insert(r, x)
  PROVE  Uncommitted(r)
<1>1. TypeOK /\ Carries(r) /\ Parent(r) /\ Joins(r) /\ Referred(r) /\ OwnNames(r)
  BY DEF Inv, Local
<1>2. at[r] = "insert" /\ NameWriters(r, x) = {}
  BY Waits DEF Insert
<1>3. Creates(r) /\ x \in DOMAIN put[r] /\ x \in Entities /\ shared[r] = {}
  <2>1. Creates(r)
    BY <1>1, <1>2, CallsByPlace
  <2> QED BY <1>1, <1>2, <2>1 DEF Parent, TypeOK, Entities, Referred
<1>4. /\ put[r][x] \in Names /\ put[r][x] # None /\ db[x] = None
      /\ x \in Row /\ x \notin Join /\ put[r][x] \in Value
  BY <1>1, <1>3, NoneIsNothing, RowsOfOneTable DEF TypeOK, Parent, Row, Value, Entities
<1>5. CASE NameTaken(r, x)
  BY <1>5, Released DEF Insert, Answers
<1>6. CASE ~NameTaken(r, x)
  <2>1. /\ Write(r, x, put[r][x]) /\ Processed(r, x, AfterRows(r))
        /\ UNCHANGED <<db, fresh, shared, request>>
    BY <1>6 DEF Insert
  <2>2. /\ Written(r, x, put[r][x]) /\ DOMAIN mine' = Requests
        /\ \A q \in Others(r) : mine'[q] = mine[q]
        /\ \A q \in Requests : /\ DOMAIN mine'[q] \subseteq Row
                               /\ \A y \in DOMAIN mine'[q] : mine'[q][y] \in Value
    BY <1>1, <1>4, <2>1, WriteEffect
  <2>3. AfterRows(r) \in {"commit", "grant"} /\ (AfterRows(r) = "commit" => list[r] = {})
    BY DEF AfterRows
  <2>4. /\ left'[r] = left[r] \ {x}
        /\ at'[r] = IF left[r] \ {x} = {} THEN AfterRows(r) ELSE "insert"
        /\ \A q \in Others(r) : at'[q] = at[q] /\ left'[q] = left[q]
        /\ left' \in [Requests -> SUBSET Row]
        /\ at' \in [Requests -> Before \cup Statements \cup Answers]
    BY <1>1, <1>2, <2>1, <2>3, ProcessedEffect DEF Statements
  <2>5. TypeOK'
    BY <1>1, <2>1, <2>2, <2>4 DEF TypeOK, request
  <2>6. at'[r] \in {"insert", "grant", "commit"} /\ (at'[r] = "commit" => list[r] = {})
    BY <2>3, <2>4
  <2>7. /\ put' = put /\ target' = target /\ list' = list /\ call' = call /\ db' = db
        /\ shared' = shared /\ Creates(r)' /\ ~Updates(r)' /\ ~Removes(r)'
    BY <1>3, <2>1 DEF request, Creates, Updates, Removes
  <2>8. Carries(r)'
    <3>1. call[r] = "createPermissions" => list[r] = {}
      BY <1>1 DEF Carries, MayBeAt, Payload
    <3>2. call[r] = "createPermissions" => at'[r] # "grant"
      BY <3>1, <2>4 DEF AfterRows
    <3>3. /\ call[r] \in {"createRole", "createUser", "createPermissions"}
          /\ call[r] # None
      BY <1>3, NoneIsNothing DEF Creates, Calls
    <3>4. MayBeAt(call[r], at'[r])
      BY <2>6, <3>2, <3>3, NoneIsNothing DEF MayBeAt, Assigns
    <3> QED BY <1>1, <2>1, <3>4, CarriesOn
  <2>9. Parent(r)'
    <3>1. DOMAIN mine'[r] \subseteq Join \cup DOMAIN put[r] \cup {target[r]}
      BY <1>1, <1>3, <2>2 DEF Parent, Written
    <3>2. \A y \in DOMAIN put[r] :
            /\ db[y] = None
            /\ y \in DOMAIN mine'[r] => mine'[r][y] = put[r][y]
            /\ y \in DOMAIN mine'[r] \/ (at'[r] = "insert" /\ y \in left'[r])
      BY <1>1, <1>2, <1>3, <2>2, <2>4 DEF Parent, Written
    <3>3. left'[r] \subseteq DOMAIN put[r]
      BY <1>1, <1>2, <1>3, <2>4 DEF Parent
    <3>4. at'[r] \notin Before \cup Answers \cup {"rewrite", "strike"}
      BY <2>6 DEF Before, Answers
    <3>5. call[r] # "updateUser"
      BY <1>3 DEF Creates
    <3> QED BY <2>7, <3>1, <3>2, <3>3, <3>4, <3>5 DEF Parent
  <2>10. Joins(r)'
    <3>1. NewRows(r) = {} /\ NewRows(r)' = {}
      BY <1>2, <2>6, <2>7 DEF NewRows
    <3>2. \A j \in Join \cap DOMAIN mine'[r] :
            j \in Join \cap DOMAIN mine[r] /\ mine'[r][j] = mine[r][j]
      BY <1>4, <2>2 DEF Written
    <3>3. JoinRows(r)' = JoinRows(r)
      BY <2>7 DEF JoinRows
    <3> QED BY <1>1, <2>6, <2>7, <3>1, <3>2, <3>3 DEF Joins
  <2>11. Cleared(r)' /\ Referred(r)'
    BY <1>3, <2>6, <2>7 DEF Cleared, Referred, Creates
  <2>12. \A y \in TableOf(x) \ {x} : Sees(r, y) # put[r][x]
    BY <1>6 DEF NameTaken
  <2>13. OwnNames(r)'
    <3> SUFFICES ASSUME NEW z \in Entities \cap DOMAIN mine'[r], mine'[r][z] # None,
                        NEW y \in TableOf(z) \ {z}
                 PROVE  Sees(r, y)' # mine'[r][z]
      BY DEF OwnNames
    <3>1. CASE z = x
      <4>1. Sees(r, y)' = Sees(r, y)
        BY <2>2, <2>7, <3>1 DEF Sees, Written
      <4> QED BY <2>2, <2>12, <3>1, <4>1 DEF Written
    <3>2. CASE z # x /\ y = x
      <4>1. z \in DOMAIN mine[r] /\ mine'[r][z] = mine[r][z] /\ z \in TableOf(x)
        BY <2>2, <3>2, TableOfOther DEF Written
      <4> QED BY <2>2, <2>12, <3>2, <4>1 DEF Written, Sees
    <3>3. CASE z # x /\ y # x
      <4>1. z \in DOMAIN mine[r] /\ mine'[r][z] = mine[r][z] /\ Sees(r, y)' = Sees(r, y)
        BY <2>2, <2>7, <3>3 DEF Sees, Written
      <4> QED BY <1>1, <1>2, <4>1 DEF OwnNames
    <3> QED BY <3>1, <3>2, <3>3
  <2>14. Local(r)'
    BY <2>8, <2>9, <2>10, <2>11, <2>13 DEF Local
  <2>15. ASSUME NEW q \in Others(r)
         PROVE  /\ LocksApart(q, r)'
                /\ NamesApart(q, r)' /\ NamesApart(r, q)'
                /\ SharedKept(q, r)' /\ SharedKept(r, q)'
    <3>1. /\ q \in Requests /\ q # r /\ mine'[q] = mine[q] /\ at'[q] = at[q]
          /\ Apart(q, r) /\ Apart(r, q) /\ Local(q)
      BY <2>2, <2>4 DEF Others, Inv
    <3>2. x \notin DOMAIN mine[q]
      BY <1>3, <1>4, <3>1, OnlyCreatorsWriteNew DEF Apart, IdsApart
    <3>3. LocksApart(q, r)'
      BY <2>2, <3>1, <3>2 DEF Apart, LocksApart, Written
    <3>4. SharedKept(q, r)'
      BY <1>3, <2>7 DEF SharedKept
    <3>5. SharedKept(r, q)'
      BY <1>4, <2>2, <2>7, <3>1 DEF Apart, SharedKept, Local, Referred, Written
    <3>6. ASSUME at[q] # "enter", NEW y \in TableOf(x) \cap DOMAIN mine[q]
          PROVE  mine[q][y] # put[r][x]
      BY <1>2, <1>3, <1>6, <3>2, <3>6, NameFree
    <3>7. NamesApart(r, q)'
      <4> SUFFICES ASSUME at[q] # "enter", NEW z \in Entities \cap DOMAIN mine'[r],
                          mine'[r][z] # None, NEW y \in TableOf(z) \cap DOMAIN mine[q], z # y
                   PROVE  mine'[r][z] # mine[q][y]
        BY <3>1 DEF NamesApart
      <4>1. CASE z = x
        BY <2>2, <3>6, <4>1 DEF Written
      <4>2. CASE z # x
        BY <1>2, <2>2, <3>1, <4>2 DEF Written, Apart, NamesApart
      <4> QED BY <4>1, <4>2
    <3>8. NamesApart(q, r)'
      <4> SUFFICES ASSUME at[q] # "enter", NEW y \in Entities \cap DOMAIN mine[q],
                          mine[q][y] # None, NEW z \in TableOf(y) \cap DOMAIN mine'[r], z # y
                   PROVE  mine[q][y] # mine'[r][z]
        BY <3>1 DEF NamesApart
      <4>1. CASE z = x
        <5>1. y \in TableOf(x)
          BY <4>1, TableOfOther
        <5> QED BY <2>2, <3>6, <4>1, <5>1 DEF Written
      <4>2. CASE z # x
        BY <1>2, <2>2, <3>1, <4>2 DEF Written, Apart, NamesApart
      <4> QED BY <4>1, <4>2
    <3> QED BY <3>3, <3>4, <3>5, <3>7, <3>8
  <2> QED BY <2>1, <2>2, <2>4, <2>5, <2>14, <2>15, Stepped
<1> QED BY <1>5, <1>6

-----------------------------------------------------------------------------
(***************************************************************************)
(* UPDATE of the row a request is about, and its new name's index entry.   *)
(***************************************************************************)
\* A row nobody else has written, and nobody shares unless it keeps its value,
\* is written without taking a name.
LEMMA WrittenApart ==
  ASSUME Inv, NEW r \in Requests, NEW x, NEW v, Written(r, x, v),
         UNCHANGED <<db, shared>>, Writers(r, x) = {}, v # db[x] => Sharers(r, x) = {},
         \A q \in Others(r) : mine'[q] = mine[q] /\ at'[q] = at[q],
         x \in Entities => DOMAIN mine[r] \cap Entities = {},
         x \in Entities /\ at'[r] # "enter" => v \in {db[x], None},
         x \notin Entities => at[r] # "enter"
  PROVE  \A q \in Others(r) : /\ LocksApart(q, r)'
                              /\ NamesApart(q, r)' /\ NamesApart(r, q)'
                              /\ SharedKept(q, r)' /\ SharedKept(r, q)'
<1> SUFFICES ASSUME NEW q \in Others(r)
             PROVE  /\ LocksApart(q, r)'
                    /\ NamesApart(q, r)' /\ NamesApart(r, q)'
                    /\ SharedKept(q, r)' /\ SharedKept(r, q)'
  OBVIOUS
<1>1. /\ q \in Requests /\ q # r /\ mine'[q] = mine[q] /\ at'[q] = at[q]
      /\ Apart(q, r) /\ Apart(r, q) /\ Local(q) /\ TypeOK
  BY DEF Others, Inv
<1>2. x \notin DOMAIN mine[q]
  BY DEF Writers
<1>3. LocksApart(q, r)'
  BY <1>1, <1>2 DEF Apart, LocksApart, Written
<1>4. SharedKept(q, r)'
  BY <1>1 DEF Apart, SharedKept
<1>5. SharedKept(r, q)'
  BY <1>1 DEF Apart, SharedKept, Written, Sharers
<1>6. ASSUME x \in Entities, at[q] # "enter", at'[r] # "enter",
             NEW y \in TableOf(x) \cap DOMAIN mine[q], mine[q][y] # None \/ v # None
      PROVE  mine[q][y] # v
  <2>1. y # x /\ y \in Entities /\ x \in TableOf(y)
    BY <1>2, <1>6, TableOfOther
  <2>2. mine[q][y] # None => Sees(q, x) # mine[q][y]
    BY <1>1, <1>6, <2>1 DEF Local, OwnNames
  <2>3. mine[q][y] # None => mine[q][y] # db[x]
    BY <1>2, <2>2 DEF Sees
  <2> QED BY <1>6, <2>3
<1>7. NamesApart(r, q)'
  <2> SUFFICES ASSUME at[q] # "enter", at'[r] # "enter", NEW z \in Entities \cap DOMAIN mine'[r],
                      mine'[r][z] # None, NEW y \in TableOf(z) \cap DOMAIN mine[q], z # y
               PROVE  mine'[r][z] # mine[q][y]
    BY <1>1 DEF NamesApart
  <2>1. CASE z = x
    BY <1>6, <2>1 DEF Written
  <2>2. CASE z # x
    BY <1>1, <2>2 DEF Written, Apart, NamesApart
  <2> QED BY <2>1, <2>2
<1>8. NamesApart(q, r)'
  <2> SUFFICES ASSUME at[q] # "enter", at'[r] # "enter", NEW y \in Entities \cap DOMAIN mine[q],
                      mine[q][y] # None, NEW z \in TableOf(y) \cap DOMAIN mine'[r], z # y
               PROVE  mine[q][y] # mine'[r][z]
    BY <1>1 DEF NamesApart
  <2>1. CASE z = x
    <3>1. x \in Entities /\ y \in TableOf(x)
      BY <2>1, TableOfOther
    <3> QED BY <1>6, <2>1, <3>1 DEF Written
  <2>2. CASE z # x
    <3>1. z \in Entities /\ z \in DOMAIN mine[r] /\ mine'[r][z] = mine[r][z]
      BY <2>2, TableOfOther DEF Written
    <3> QED BY <1>1, <3>1 DEF Apart, NamesApart
  <2> QED BY <2>1, <2>2
<1> QED BY <1>3, <1>4, <1>5, <1>7, <1>8

LEMMA RewriteStep ==
  ASSUME Inv, NEW r \in Requests, Rewrite(r)
  PROVE  Uncommitted(r)
<1> DEFINE x == target[r]
           v == IF Renames(r) THEN put[r][x] ELSE db[x]
<1>1. TypeOK /\ Carries(r) /\ Parent(r) /\ Joins(r) /\ Referred(r) /\ UniqueNames(db) /\ Kinds
  BY DEF Inv, Local
<1>2. at[r] = "rewrite" /\ Writers(r, x) = {} /\ (Renames(r) => Sharers(r, x) = {})
  BY Waits DEF Rewrite
<1>3. DOMAIN mine[r] = {} /\ shared[r] = {}
  BY <1>1, <1>2 DEF Parent, Referred
<1>4. call[r] \in {"updateRole", "updatePermission", "updateUser"} /\ call[r] # None
  BY <1>1, <1>2, CallsByPlace, NoneIsNothing DEF Updates, Calls
<1>5. x \in Entities /\ x \in Row /\ x \notin Join
  BY <1>1, <1>4, RowsOfOneTable DEF Carries, Payload, Entities, Row
<1>6. UNCHANGED <<db, fresh, shared, request, left>>
  BY DEF Rewrite
<1>7. /\ put' = put /\ target' = target /\ list' = list /\ call' = call /\ db' = db
      /\ shared' = shared /\ left' = left
  BY <1>6 DEF request
<1>8. ~Creates(r)' /\ Updates(r)' /\ ~Removes(r)'
  BY <1>4, <1>7 DEF Creates, Updates, Removes
<1>9. AfterUpdate(r) = IF call[r] = "updatePermission" THEN "commit" ELSE "scan"
  BY DEF AfterUpdate
<1>10. call[r] = "updatePermission" => list[r] = {}
  BY <1>1 DEF Carries, MayBeAt, Payload
<1>11. CASE db[x] = None
  <2>1. at' = [at EXCEPT ![r] = AfterUpdate(r)] /\ mine' = mine
    BY <1>11 DEF Rewrite, Goto
  <2>2. at'[r] = AfterUpdate(r) /\ \A q \in Others(r) : at'[q] = at[q]
    BY <1>1, <2>1 DEF TypeOK, Others
  <2>3. TypeOK'
    BY <1>1, <1>7, <1>6, <1>9, <2>1 DEF TypeOK, Statements
  <2>4. Carries(r)'
    BY <1>1, <1>4, <1>7, <1>8, <1>9, <2>2 DEF Carries, MayBeAt, Payload, Assigns
  <2>5. Parent(r)'
    BY <1>1, <1>3, <1>7, <1>8, <1>11, <2>1 DEF Parent
  <2>6. Joins(r)' /\ Cleared(r)' /\ Referred(r)' /\ OwnNames(r)'
    BY <1>3, <1>7, <1>9, <1>10, <2>1, <2>2
    DEF Joins, NewRows, Cleared, Referred, OwnNames
  <2>7. Local(r)'
    BY <2>4, <2>5, <2>6 DEF Local
  <2> QED BY <1>2, <1>6, <2>1, <2>2, <2>3, <2>7, Moved
<1>12. CASE db[x] # None
  <2>1. Write(r, x, v) /\ Goto(r, IF Renames(r) THEN "enter" ELSE AfterUpdate(r))
    BY <1>12 DEF Rewrite
  <2>2. v \in Value
    <3>1. Renames(r) => x \in DOMAIN put[r]
      BY DEF Renames
    <3> QED BY <1>1, <1>5, <3>1 DEF TypeOK, Value
  <2> HIDE DEF x, v
  <2>3. /\ Written(r, x, v) /\ DOMAIN mine' = Requests
        /\ \A q \in Others(r) : mine'[q] = mine[q]
        /\ \A q \in Requests : /\ DOMAIN mine'[q] \subseteq Row
                               /\ \A y \in DOMAIN mine'[q] : mine'[q][y] \in Value
    BY <1>1, <1>5, <2>1, <2>2, WriteEffect
  <2>4. DOMAIN mine'[r] = {x} /\ mine'[r][x] = v
    BY <1>3, <2>3 DEF Written
  <2>5. /\ at'[r] = IF Renames(r) THEN "enter" ELSE AfterUpdate(r)
        /\ \A q \in Others(r) : at'[q] = at[q]
        /\ at' \in [Requests -> Before \cup Statements \cup Answers]
    BY <1>1, <1>9, <2>1 DEF TypeOK, Goto, Others, Statements
  <2>6. TypeOK'
    BY <1>1, <1>6, <1>7, <2>3, <2>5 DEF TypeOK
  <2>7. at'[r] \in {"enter", "scan", "commit"}
    BY <1>9, <2>5
  <2>9. Carries(r)'
    BY <1>1, <1>4, <1>7, <1>8, <1>9, <2>5 DEF Carries, MayBeAt, Payload, Assigns
  <2>10. v = IF x \in DOMAIN put[r] THEN put[r][x] ELSE db[x]
    BY DEF v, x, Renames
  <2>11. Parent(r)'
    <3>1. at'[r] \notin Before \cup Answers \cup {"rewrite", "strike"}
      BY <2>7 DEF Before, Answers
    <3> QED BY <1>7, <1>8, <1>12, <2>4, <2>10, <3>1 DEF Parent, x
  <2>12. Joins(r)' /\ Cleared(r)' /\ Referred(r)'
    <3>1. NewRows(r)' = {}
      BY <1>7, <1>9, <1>10, <2>5 DEF NewRows
    <3>2. Joins(r)'
      BY <1>5, <2>4, <2>7, <3>1 DEF Joins
    <3>3. at'[r] = "commit" => call[r] = "updatePermission"
      BY <1>9, <2>5
    <3>4. Cleared(r)'
      BY <1>7, <2>7, <3>3 DEF Cleared
    <3> QED BY <1>3, <1>7, <1>10, <2>7, <3>2, <3>3, <3>4 DEF Referred
  <2>13. OwnNames(r)'
    <3> SUFFICES ASSUME ~Renames(r), x \in Entities, NEW y \in TableOf(x) \ {x}
                 PROVE  Sees(r, y)' # v
      BY <2>4, <2>5 DEF OwnNames
    <3>1. Sees(r, y)' = db[y]
      BY <1>7, <2>4 DEF Sees
    <3>2. v = db[x]
      BY DEF v
    <3> QED BY <1>1, <1>12, <3>1, <3>2 DEF UniqueNames, Entities
  <2>14. Local(r)'
    BY <2>9, <2>11, <2>12, <2>13 DEF Local
  <2>15. v # db[x] => Renames(r)
    BY DEF v
  <2>16. \A q \in Others(r) : /\ LocksApart(q, r)'
                              /\ NamesApart(q, r)' /\ NamesApart(r, q)'
                              /\ SharedKept(q, r)' /\ SharedKept(r, q)'
    BY <1>2, <1>3, <1>7, <2>3, <2>5, <2>15, WrittenApart
  <2> QED BY <1>6, <2>3, <2>5, <2>6, <2>14, <2>16, Stepped
<1> QED BY <1>11, <1>12

LEMMA EnterStep ==
  ASSUME Inv, NEW r \in Requests, Enter(r)
  PROVE  Uncommitted(r)
<1> DEFINE x == target[r]
<1>1. TypeOK /\ Carries(r) /\ Parent(r) /\ Joins(r) /\ Referred(r)
  BY DEF Inv, Local
<1>2. at[r] = "enter" /\ NameWriters(r, x) = {}
  BY Waits DEF Enter
<1>3. CASE NameTaken(r, x)
  BY <1>3, Released DEF Enter, Answers
<1>4. CASE ~NameTaken(r, x)
  <2>1. /\ at' = [at EXCEPT ![r] = AfterUpdate(r)]
        /\ UNCHANGED <<db, fresh, mine, shared, request, left>>
    BY <1>4 DEF Enter, Goto
  <2>2. call[r] \in {"updateRole", "updatePermission", "updateUser"} /\ call[r] # None
    BY <1>1, <1>2, CallsByPlace, NoneIsNothing DEF Updates, Calls
  <2>3. /\ put' = put /\ target' = target /\ list' = list /\ call' = call /\ db' = db
        /\ shared' = shared /\ left' = left /\ mine' = mine
        /\ ~Creates(r)' /\ Updates(r)' /\ ~Removes(r)' /\ Updates(r)
    BY <2>1, <2>2 DEF request, Creates, Updates, Removes
  <2>4. x \in Entities /\ DOMAIN put[r] = {x} /\ (call[r] = "updatePermission" => list[r] = {})
    BY <1>1, <2>2 DEF Carries, MayBeAt, Payload, Entities
  <2>5. AfterUpdate(r) = IF call[r] = "updatePermission" THEN "commit" ELSE "scan"
    BY DEF AfterUpdate
  <2>6. at'[r] = AfterUpdate(r) /\ \A q \in Others(r) : at'[q] = at[q]
    BY <1>1, <2>1 DEF TypeOK, Others
  <2>7. TypeOK'
    BY <1>1, <2>1, <2>3, <2>5 DEF TypeOK, Statements
  <2>8. Carries(r)'
    BY <1>1, <2>2, <2>3, <2>5, <2>6 DEF Carries, MayBeAt, Payload, Assigns
  <2>9. Parent(r)'
    BY <1>1, <1>2, <2>3, <2>5, <2>6 DEF Parent, Before, Answers
  <2>10. shared[r] = {}
    BY <1>1, <1>2 DEF Referred
  <2>11. Joins(r)' /\ Cleared(r)' /\ Referred(r)'
    <3>1. NewRows(r) = {} /\ NewRows(r)' = {} /\ JoinRows(r)' = JoinRows(r)
      BY <1>2, <2>3, <2>4, <2>5, <2>6 DEF NewRows, JoinRows
    <3>2. Joins(r)'
      BY <1>1, <2>3, <2>5, <2>6, <3>1 DEF Joins
    <3> QED BY <2>3, <2>4, <2>5, <2>6, <2>10, <3>2 DEF Cleared, Referred
  <2>12. \A z \in Entities \cap DOMAIN mine[r] : z = x /\ mine[r][z] = put[r][x]
    BY <1>1, <2>3, <2>4, RowsOfOneTable DEF Parent, Entities
  <2>13. OwnNames(r)'
    <3>1. \A y : Sees(r, y)' = Sees(r, y)
      BY <2>3 DEF Sees
    <3> QED BY <1>4, <2>3, <2>12, <3>1 DEF OwnNames, NameTaken
  <2>14. Local(r)'
    BY <2>8, <2>9, <2>11, <2>13 DEF Local
  <2>15. ASSUME NEW q \in Others(r)
         PROVE  /\ LocksApart(q, r)'
                /\ NamesApart(q, r)' /\ NamesApart(r, q)'
                /\ SharedKept(q, r)' /\ SharedKept(r, q)'
    <3>1. q \in Requests /\ Apart(q, r) /\ Apart(r, q) /\ at'[q] = at[q]
      BY <2>6 DEF Inv, Others
    <3>2. LocksApart(q, r)' /\ SharedKept(q, r)' /\ SharedKept(r, q)'
      BY <2>3, <3>1 DEF Apart, LocksApart, SharedKept
    <3>3. x \in DOMAIN mine[r] => x \notin DOMAIN mine[q]
      BY <3>1 DEF Apart, LocksApart
    <3>4. ASSUME x \in DOMAIN mine[r], at[q] # "enter", NEW y \in TableOf(x) \cap DOMAIN mine[q]
          PROVE  mine[q][y] # put[r][x]
      BY <1>2, <1>4, <2>4, <3>3, <3>4, NameFree
    <3>5. NamesApart(r, q)'
      BY <2>3, <2>12, <3>1, <3>4 DEF NamesApart
    <3>6. NamesApart(q, r)'
      <4> SUFFICES ASSUME at[q] # "enter", NEW y \in Entities \cap DOMAIN mine[q],
                          mine[q][y] # None, NEW z \in TableOf(y) \cap DOMAIN mine[r], z # y
                   PROVE  mine[q][y] # mine[r][z]
        BY <2>3, <3>1 DEF NamesApart
      <4>1. z \in Entities /\ y \in TableOf(z)
        BY TableOfOther
      <4> QED BY <2>12, <3>4, <4>1
    <3> QED BY <3>2, <3>5, <3>6
  <2> QED BY <2>1, <2>3, <2>6, <2>7, <2>14, <2>15, Stepped
<1> QED BY <1>3, <1>4

-----------------------------------------------------------------------------
(***************************************************************************)
(* DELETE of a role or a permission, and of join rows.                     *)
(***************************************************************************)
LEMMA StrikeStep ==
  ASSUME Inv, NEW r \in Requests, Strike(r)
  PROVE  Uncommitted(r)
<1> DEFINE x == target[r]
<1>1. TypeOK /\ Carries(r) /\ Parent(r) /\ Referred(r)
  BY DEF Inv, Local
<1>2. at[r] = "strike" /\ Writers(r, x) = {} /\ Sharers(r, x) = {}
  BY Waits DEF Strike
<1>3. DOMAIN mine[r] = {} /\ shared[r] = {}
  BY <1>1, <1>2 DEF Parent, Referred
<1>4. Removes(r) /\ call[r] # None
  BY <1>1, <1>2, CallsByPlace, NoneIsNothing DEF Removes, Calls
<1>5. x \in Entities /\ x \in Row /\ x \notin Join /\ list[r] = {}
  BY <1>1, <1>4, RowsOfOneTable DEF Carries, Payload, Entities, Row
<1>6. UNCHANGED <<db, fresh, shared, request, left>>
  BY DEF Strike
<1>7. /\ put' = put /\ target' = target /\ list' = list /\ call' = call /\ db' = db
      /\ shared' = shared /\ left' = left
      /\ ~Creates(r)' /\ ~Updates(r)' /\ Removes(r)'
  BY <1>4, <1>6 DEF request, Creates, Updates, Removes
<1>8. CASE db[x] = None
  <2>1. at' = [at EXCEPT ![r] = "commit"] /\ mine' = mine
    BY <1>8 DEF Strike, Goto
  <2>2. at'[r] = "commit" /\ \A q \in Others(r) : at'[q] = at[q]
    BY <1>1, <2>1 DEF TypeOK, Others
  <2>3. TypeOK'
    BY <1>1, <1>7, <1>6, <2>1 DEF TypeOK, Statements
  <2>4. Carries(r)'
    BY <1>1, <1>4, <1>7, <2>2 DEF Carries, MayBeAt, Payload, Removes
  <2>5. Parent(r)'
    BY <1>3, <1>4, <1>7, <2>1, <2>2 DEF Parent, Removes
  <2>6. Joins(r)' /\ Cleared(r)' /\ Referred(r)' /\ OwnNames(r)'
    BY <1>3, <1>5, <1>7, <2>1, <2>2 DEF Joins, NewRows, Cleared, Referred, OwnNames
  <2>7. Local(r)'
    BY <2>4, <2>5, <2>6 DEF Local
  <2> QED BY <1>2, <1>6, <2>1, <2>2, <2>3, <2>7, Moved
<1>9. CASE db[x] # None
  <2>1. Write(r, x, None) /\ at' = [at EXCEPT ![r] = "scan"]
    BY <1>9 DEF Strike, Goto
  <2>2. /\ Written(r, x, None) /\ DOMAIN mine' = Requests
        /\ \A q \in Others(r) : mine'[q] = mine[q]
        /\ \A q \in Requests : /\ DOMAIN mine'[q] \subseteq Row
                               /\ \A y \in DOMAIN mine'[q] : mine'[q][y] \in Value
    BY <1>1, <1>5, <2>1, WriteEffect DEF Value
  <2>3. DOMAIN mine'[r] = {x} /\ mine'[r][x] = None
    BY <1>3, <2>2 DEF Written
  <2>4. /\ at'[r] = "scan" /\ \A q \in Others(r) : at'[q] = at[q]
        /\ at' \in [Requests -> Before \cup Statements \cup Answers]
    BY <1>1, <2>1 DEF TypeOK, Others, Statements
  <2>5. TypeOK'
    BY <1>1, <1>6, <1>7, <2>2, <2>4 DEF TypeOK
  <2>6. Carries(r)'
    BY <1>1, <1>4, <1>7, <2>4 DEF Carries, MayBeAt, Payload, Removes
  <2>7. Parent(r)'
    BY <1>7, <1>9, <2>3, <2>4 DEF Parent, Before, Answers
  <2>8. Joins(r)' /\ Cleared(r)' /\ Referred(r)' /\ OwnNames(r)'
    BY <1>3, <1>5, <1>7, <2>3, <2>4 DEF Joins, NewRows, Cleared, Referred, OwnNames
  <2>9. Local(r)'
    BY <2>6, <2>7, <2>8 DEF Local
  <2>10. \A q \in Others(r) : /\ LocksApart(q, r)'
                              /\ NamesApart(q, r)' /\ NamesApart(r, q)'
                              /\ SharedKept(q, r)' /\ SharedKept(r, q)'
    BY <1>2, <1>3, <1>7, <2>2, <2>4, WrittenApart
  <2> QED BY <1>6, <2>2, <2>4, <2>5, <2>9, <2>10, Stepped
<1> QED BY <1>8, <1>9

\* The places and the target of a transaction that replaces or deletes join rows.
LEMMA Scanning ==
  ASSUME TypeOK, NEW r \in Requests, Carries(r), at[r] \in {"scan", "remove"}
  PROVE  /\ call[r] \in {"updateRole", "updateUser", "removeRole", "removePermission"}
         /\ call[r] # None /\ ~Creates(r)
         /\ JoinRows(r) \subseteq Join /\ target[r] \notin Join
         /\ Removes(r) => list[r] = {}
<1>1. call[r] \in {"updateRole", "updateUser", "removeRole", "removePermission"}
  BY CallsByPlace
<1>2. call[r] # None /\ ~Creates(r)
  BY <1>1, NoneIsNothing DEF Creates, Calls
<1>3. /\ call[r] = "updateRole" => target[r] \in Roles
      /\ call[r] = "updateUser" => target[r] \in Users
      /\ call[r] = "removeRole" => target[r] \in Roles
      /\ call[r] = "removePermission" => target[r] \in Perms
      /\ Removes(r) => list[r] = {}
  BY DEF Carries, Payload, Removes
<1>4. JoinRows(r) \subseteq Join
  BY <1>1, <1>3 DEF JoinRows, Join
<1>5. target[r] \notin Join
  BY <1>1, <1>3, RowsOfOneTable DEF Entities
<1> QED BY <1>1, <1>2, <1>3, <1>4, <1>5

LEMMA ScanStep ==
  ASSUME Inv, NEW r \in Requests, Scan(r)
  PROVE  Uncommitted(r)
<1> DEFINE found == {j \in JoinRows(r) : Sees(r, j) # None}
<1>1. TypeOK /\ Carries(r) /\ Parent(r) /\ Joins(r) /\ Referred(r) /\ OwnNames(r)
  BY DEF Inv, Local
<1>2. at[r] = "scan" /\ UNCHANGED <<db, fresh, mine, shared, request>>
  BY DEF Scan
<1>3. /\ call[r] \in {"updateRole", "updateUser", "removeRole", "removePermission"}
      /\ call[r] # None /\ ~Creates(r)
      /\ JoinRows(r) \subseteq Join /\ target[r] \notin Join
      /\ Removes(r) => list[r] = {}
  BY <1>1, <1>2, Scanning
<1>4. /\ put' = put /\ target' = target /\ list' = list /\ call' = call /\ db' = db
      /\ shared' = shared /\ mine' = mine
      /\ ~Creates(r)' /\ Updates(r)' = Updates(r) /\ Removes(r)' = Removes(r)
  BY <1>2, <1>3 DEF request, Creates, Updates, Removes
<1>5. /\ left' = [left EXCEPT ![r] = found]
      /\ at' = [at EXCEPT ![r] = IF found = {} THEN AfterRows(r) ELSE "remove"]
  BY DEF Scan, Goto
<1>6. AfterRows(r) = IF list[r] = {} THEN "commit" ELSE "grant"
  BY DEF AfterRows
<1>7. found \subseteq JoinRows(r) /\ found \subseteq Row
  BY <1>3 DEF Row
<1>8. \A j \in JoinRows(r) : Sees(r, j) # None => j \in found
  OBVIOUS
<1> HIDE DEF found
<1>9. /\ left'[r] = found /\ at'[r] = IF found = {} THEN AfterRows(r) ELSE "remove"
      /\ \A q \in Others(r) : at'[q] = at[q] /\ left'[q] = left[q]
  BY <1>1, <1>5 DEF TypeOK, Others
<1>10. TypeOK'
  BY <1>1, <1>2, <1>4, <1>5, <1>6, <1>7 DEF TypeOK, Statements
<1>11. at'[r] \in {"remove", "grant", "commit"} /\ (at'[r] = "commit" => list[r] = {})
  BY <1>6, <1>9
<1>12. Carries(r)'
  <2>1. Removes(r) => at'[r] # "grant"
    BY <1>3, <1>6, <1>9
  <2>2. MayBeAt(call[r], at'[r])
    BY <1>3, <1>11, <2>1, NoneIsNothing DEF MayBeAt, Assigns, Removes
  <2> QED BY <1>1, <1>2, <2>2, CarriesOn
<1>13. Parent(r)'
  BY <1>1, <1>2, <1>4, <1>11 DEF Parent, Before, Answers
<1>14. shared[r] = {}
  BY <1>1, <1>2 DEF Referred
<1>15. NewRows(r) = {} /\ NewRows(r)' = {} /\ JoinRows(r)' = JoinRows(r)
  BY <1>2, <1>4, <1>11 DEF NewRows, JoinRows
<1>16. Joins(r)'
  BY <1>1, <1>3, <1>4, <1>7, <1>9, <1>15 DEF Joins
<1>17. \A y : Sees(r, y)' = Sees(r, y)
  BY <1>4 DEF Sees
<1>18. Cleared(r)'
  BY <1>8, <1>9, <1>15, <1>17 DEF Cleared
<1>19. Referred(r)' /\ OwnNames(r)'
  BY <1>1, <1>2, <1>4, <1>11, <1>14, <1>17 DEF Referred, OwnNames
<1>20. Local(r)'
  BY <1>12, <1>13, <1>16, <1>18, <1>19 DEF Local
<1> QED BY <1>2, <1>9, <1>10, <1>20, Moved

LEMMA RemoveStep ==
  ASSUME Inv, NEW r \in Requests, NEW j \in left[r], Remove(r, j)
  PROVE  Uncommitted(r)
<1>1. TypeOK /\ Carries(r) /\ Parent(r) /\ Joins(r) /\ Referred(r) /\ OwnNames(r) /\ Cleared(r)
  BY DEF Inv, Local
<1>2. /\ at[r] = "remove" /\ Writers(r, j) = {}
      /\ UNCHANGED <<db, fresh, shared, request>> /\ Processed(r, j, AfterRows(r))
  BY Waits DEF Remove
<1>3. /\ call[r] \in {"updateRole", "updateUser", "removeRole", "removePermission"}
      /\ call[r] # None /\ ~Creates(r)
      /\ JoinRows(r) \subseteq Join /\ target[r] \notin Join
      /\ Removes(r) => list[r] = {}
  BY <1>1, <1>2, Scanning
<1>4. /\ put' = put /\ target' = target /\ list' = list /\ call' = call /\ db' = db
      /\ shared' = shared
      /\ ~Creates(r)' /\ Updates(r)' = Updates(r) /\ Removes(r)' = Removes(r)
  BY <1>2, <1>3 DEF request, Creates, Updates, Removes
<1>5. j \in JoinRows(r) /\ j \in Join /\ j \notin Entities /\ j \in Row
  BY <1>1, <1>2, <1>3, RowsOfOneTable DEF Joins, Entities, Row
<1>6. AfterRows(r) = IF list[r] = {} THEN "commit" ELSE "grant"
  BY DEF AfterRows
<1>7. /\ left'[r] = left[r] \ {j}
      /\ at'[r] = IF left[r] \ {j} = {} THEN AfterRows(r) ELSE "remove"
      /\ \A q \in Others(r) : at'[q] = at[q] /\ left'[q] = left[q]
      /\ left' \in [Requests -> SUBSET Row]
      /\ at' \in [Requests -> Before \cup Statements \cup Answers]
  BY <1>1, <1>2, <1>6, ProcessedEffect DEF Statements
<1>8. at'[r] \in {"remove", "grant", "commit"} /\ (at'[r] = "commit" => list[r] = {})
  BY <1>6, <1>7
<1>9. CASE db[j] = None /\ mine' = mine
  <2>1. NewRows(r) = {}
    BY <1>2 DEF NewRows
  <2>2. Sees(r, j) = None
    BY <1>1, <1>5, <1>9, <2>1 DEF Sees, Joins
  <2>3. TypeOK'
    BY <1>1, <1>2, <1>4, <1>7, <1>9 DEF TypeOK
  <2>4. Carries(r)'
    <3>1. Removes(r) => at'[r] # "grant"
      BY <1>3, <1>6, <1>7
    <3>2. MayBeAt(call[r], at'[r])
      BY <1>3, <1>8, <3>1, NoneIsNothing DEF MayBeAt, Assigns, Removes
    <3> QED BY <1>1, <1>2, <3>2, CarriesOn
  <2>5. Parent(r)'
    BY <1>1, <1>2, <1>4, <1>8, <1>9 DEF Parent, Before, Answers
  <2>6. shared[r] = {} /\ NewRows(r)' = {} /\ JoinRows(r)' = JoinRows(r)
    BY <1>1, <1>2, <1>4, <1>8 DEF Referred, NewRows, JoinRows
  <2>7. Joins(r)'
    BY <1>1, <1>2, <1>3, <1>4, <1>7, <1>9, <2>1, <2>6 DEF Joins
  <2>8. \A y : Sees(r, y)' = Sees(r, y)
    BY <1>4, <1>9 DEF Sees
  <2>9. Cleared(r)'
    BY <1>1, <1>2, <1>3, <1>4, <1>7, <1>9, <2>1, <2>2, <2>6, <2>8 DEF Cleared
  <2>10. Referred(r)' /\ OwnNames(r)'
    BY <1>1, <1>2, <1>4, <1>8, <1>9, <2>6, <2>8 DEF Referred, OwnNames
  <2>11. Local(r)'
    BY <2>4, <2>5, <2>7, <2>9, <2>10 DEF Local
  <2> QED BY <1>2, <1>7, <1>9, <2>3, <2>11, Moved
<1>10. CASE db[j] # None /\ Write(r, j, None)
  <2>1. /\ Written(r, j, None) /\ DOMAIN mine' = Requests
        /\ \A q \in Others(r) : mine'[q] = mine[q]
        /\ \A q \in Requests : /\ DOMAIN mine'[q] \subseteq Row
                               /\ \A y \in DOMAIN mine'[q] : mine'[q][y] \in Value
    BY <1>1, <1>5, <1>10, WriteEffect DEF Value
  <2>2. NewRows(r) = {} /\ NewRows(r)' = {} /\ JoinRows(r)' = JoinRows(r) /\ shared[r] = {}
    BY <1>1, <1>2, <1>4, <1>8 DEF NewRows, JoinRows, Referred
  <2>3. TypeOK'
    BY <1>1, <1>2, <1>4, <1>7, <2>1 DEF TypeOK
  <2>4. Carries(r)'
    <3>1. Removes(r) => at'[r] # "grant"
      BY <1>3, <1>6, <1>7
    <3>2. MayBeAt(call[r], at'[r])
      BY <1>3, <1>8, <3>1, NoneIsNothing DEF MayBeAt, Assigns, Removes
    <3> QED BY <1>1, <1>2, <3>2, CarriesOn
  <2>5. j # target[r]
    BY <1>3, <1>5
  <2>6. Parent(r)'
    BY <1>1, <1>2, <1>4, <1>5, <1>8, <2>1, <2>5 DEF Parent, Before, Answers, Written
  <2>7. Joins(r)'
    BY <1>1, <1>3, <1>4, <1>5, <1>7, <1>2, <2>1, <2>2 DEF Joins, Written
  <2>8. \A y : Sees(r, y)' = IF y = j THEN None ELSE Sees(r, y)
    BY <1>4, <2>1 DEF Sees, Written
  <2>9. Cleared(r)'
    <3>1. target[r] \in DOMAIN mine'[r] => target[r] \in DOMAIN mine[r]
      BY <2>1, <2>5 DEF Written
    <3> QED BY <1>1, <1>2, <1>3, <1>4, <1>7, <2>2, <2>8, <3>1 DEF Cleared
  <2>10. Referred(r)'
    BY <1>1, <1>2, <1>4, <1>8, <2>2 DEF Referred
  <2>11. OwnNames(r)'
    <3>1. \A x \in Entities \cap DOMAIN mine'[r] : x \in DOMAIN mine[r] /\ mine'[r][x] = mine[r][x]
      BY <1>5, <2>1 DEF Written
    <3>2. \A x \in Entities : \A y \in TableOf(x) : Sees(r, y)' = Sees(r, y)
      BY <1>5, <2>8, TableOfOther
    <3> QED BY <1>1, <1>2, <3>1, <3>2 DEF OwnNames
  <2>12. Local(r)'
    BY <2>4, <2>6, <2>7, <2>9, <2>10, <2>11 DEF Local
  <2>13. \A q \in Others(r) : /\ LocksApart(q, r)'
                              /\ NamesApart(q, r)' /\ NamesApart(r, q)'
                              /\ SharedKept(q, r)' /\ SharedKept(r, q)'
    <3>1. Sharers(r, j) = {}
      BY <1>1, <1>5 DEF TypeOK, Sharers, Others, Entities
    <3> QED BY <1>2, <1>4, <1>5, <1>7, <2>1, <3>1, WrittenApart
  <2> QED BY <1>2, <1>7, <2>1, <2>3, <2>12, <2>13, Stepped
<1> QED BY <1>9, <1>10 DEF Remove

-----------------------------------------------------------------------------
(***************************************************************************)
(* INSERT of join rows, and their foreign keys.                            *)
(***************************************************************************)
\* The target of a transaction that inserts join rows.
LEMMA Granting ==
  ASSUME TypeOK, NEW r \in Requests, Carries(r), at[r] \in {"grant", "refer"}
  PROVE  /\ call[r] \in {"createRole", "createUser", "updateRole", "updateUser"}
         /\ call[r] # None /\ ~Removes(r)
         /\ {target[r]} \X list[r] \subseteq JoinRows(r)
         /\ JoinRows(r) \subseteq Join
         /\ target[r] \notin Join /\ DOMAIN put[r] \cap Join = {}
<1>1. call[r] \in {"createRole", "createUser", "updateRole", "updateUser"}
  BY CallsByPlace
<1>2. call[r] # None /\ ~Removes(r)
  BY <1>1, NoneIsNothing DEF Removes, Calls
<1>3. /\ call[r] \in {"createRole", "updateRole"} =>
           target[r] \in Roles /\ list[r] \subseteq Perms
      /\ call[r] \in {"createUser", "updateUser"} =>
           target[r] \in Users /\ list[r] \subseteq Roles
  BY DEF Carries, MayBeAt, Payload
<1>4. /\ call[r] \in {"createRole", "updateRole"} => JoinRows(r) = {target[r]} \X Perms
      /\ call[r] \in {"createUser", "updateUser"} => JoinRows(r) = {target[r]} \X Roles
  BY DEF JoinRows
<1>5. {target[r]} \X list[r] \subseteq JoinRows(r) /\ JoinRows(r) \subseteq Join
  BY <1>1, <1>3, <1>4 DEF Join
<1>6. target[r] \notin Join /\ DOMAIN put[r] \cap Join = {}
  BY <1>1, <1>3, RowsOfOneTable DEF TypeOK, Entities
<1> QED BY <1>1, <1>2, <1>5, <1>6

LEMMA GrantStep ==
  ASSUME Inv, NEW r \in Requests, Grant(r)
  PROVE  Uncommitted(r)
<1> DEFINE new == {target[r]} \X list[r]
<1>1. TypeOK /\ Carries(r) /\ Parent(r) /\ Joins(r) /\ Referred(r) /\ OwnNames(r) /\ Cleared(r)
  BY DEF Inv, Local
<1>2. at[r] = "grant" /\ \A y \in list[r] : Writers(r, <<target[r], y>>) = {}
  BY WaitsToGrant DEF Grant
<1>3. /\ call[r] \in {"createRole", "createUser", "updateRole", "updateUser"}
      /\ call[r] # None /\ ~Removes(r)
      /\ new \subseteq JoinRows(r) /\ JoinRows(r) \subseteq Join
      /\ target[r] \notin Join /\ DOMAIN put[r] \cap Join = {}
  BY <1>1, <1>2, Granting
<1>4. CASE \E j \in new : Sees(r, j) # None
  BY <1>4, Released DEF Grant, Answers
<1>5. CASE ~\E j \in new : Sees(r, j) # None
  <2> DEFINE rows == [x \in DOMAIN mine[r] \cup new |->
                        IF x \in new THEN "present" ELSE mine[r][x]]
  <2>1. /\ mine' = [mine EXCEPT ![r] = rows] /\ left' = [left EXCEPT ![r] = list[r]]
        /\ at' = [at EXCEPT ![r] = "refer"] /\ UNCHANGED <<db, fresh, shared, request>>
    BY <1>5 DEF Grant, Goto
  <2>2. /\ DOMAIN rows = DOMAIN mine[r] \cup new
        /\ \A x \in DOMAIN rows : rows[x] = IF x \in new THEN "present" ELSE mine[r][x]
    OBVIOUS
  <2> HIDE DEF rows
  <2>3. /\ mine'[r] = rows /\ DOMAIN mine' = Requests /\ left'[r] = list[r] /\ at'[r] = "refer"
        /\ \A q \in Others(r) : mine'[q] = mine[q] /\ at'[q] = at[q] /\ left'[q] = left[q]
    BY <1>1, <2>1 DEF TypeOK, Others
  <2>4. /\ put' = put /\ target' = target /\ list' = list /\ call' = call /\ db' = db
        /\ shared' = shared
        /\ Creates(r)' = Creates(r) /\ Updates(r)' = Updates(r) /\ Removes(r)' = Removes(r)
        /\ JoinRows(r)' = JoinRows(r)
    BY <2>1 DEF request, Creates, Updates, Removes, JoinRows
  <2>5. new \subseteq Join /\ new \cap Entities = {} /\ new \subseteq Row
    BY <1>3, RowsOfOneTable DEF Entities, Row
  <2> HIDE DEF new
  <2>6. TypeOK'
    <3>1. ASSUME NEW q \in Requests
          PROVE  DOMAIN mine'[q] \subseteq Row /\ \A x \in DOMAIN mine'[q] : mine'[q][x] \in Value
      <4>1. CASE q = r
        BY <1>1, <2>2, <2>3, <2>5, <4>1 DEF TypeOK, Value
      <4>2. CASE q # r
        BY <1>1, <2>3, <4>2 DEF TypeOK, Others
      <4> QED BY <4>1, <4>2
    <3>2. list[r] \subseteq Row
      BY <1>1 DEF TypeOK, Row, Entities
    <3> QED BY <1>1, <2>1, <2>3, <2>4, <3>1, <3>2 DEF TypeOK, Statements
  <2>7. Carries(r)'
    BY <1>1, <1>3, <2>3, <2>4 DEF Carries, MayBeAt, Payload, Assigns
  <2>8. \A x : x \notin Join => /\ (x \in DOMAIN mine'[r]) = (x \in DOMAIN mine[r])
                                 /\ (x \in DOMAIN mine[r] => mine'[r][x] = mine[r][x])
    BY <2>2, <2>3, <2>5
  <2>9. Parent(r)'
    <3>1. DOMAIN mine'[r] \subseteq Join \cup DOMAIN put[r] \cup {target[r]}
      BY <1>1, <2>2, <2>3, <2>5 DEF Parent
    <3>2. \A x \in DOMAIN put[r] : x \notin Join
      BY <1>3
    <3>3. at'[r] \notin Before \cup Answers \cup {"insert", "rewrite", "strike"}
      BY <2>3 DEF Before, Answers
    <3>4. at[r] \notin Before \cup Answers \cup {"insert", "rewrite", "strike"}
      BY <1>2 DEF Before, Answers
    <3>5. Creates(r) => \A x \in DOMAIN put[r] :
             db[x] = None /\ x \in DOMAIN mine'[r] /\ mine'[r][x] = put[r][x]
      BY <1>1, <2>8, <3>2, <3>4 DEF Parent
    <3>6. Updates(r) /\ target[r] \in DOMAIN mine'[r] =>
            /\ db[target[r]] # None
            /\ mine'[r][target[r]] = IF target[r] \in DOMAIN put[r] THEN put[r][target[r]]
                                     ELSE db[target[r]]
      BY <1>1, <1>3, <2>8 DEF Parent
    <3>7. Updates(r) /\ target[r] \notin DOMAIN mine'[r] => db[target[r]] = None
      BY <1>1, <1>3, <2>8, <3>4 DEF Parent
    <3> QED BY <1>1, <1>3, <2>4, <3>1, <3>3, <3>5, <3>6, <3>7 DEF Parent
  <2>10. NewRows(r) = {} /\ NewRows(r)' = new
    BY <1>2, <2>3, <2>4 DEF NewRows, new
  <2>11. Joins(r)'
    <3>1. \A j \in Join \cap DOMAIN mine'[r] :
            mine'[r][j] = IF j \in new THEN "present" ELSE None
      BY <1>1, <2>2, <2>3, <2>10 DEF Joins
    <3>2. \A j \in Join \cap DOMAIN mine'[r] : j \in JoinRows(r)
      BY <1>1, <1>3, <2>2, <2>3 DEF Joins
    <3>3. call[r] \in {"createRole", "createUser"} =>
            \A j \in Join \cap DOMAIN mine'[r] : j \in new
      BY <1>1, <2>2, <2>3 DEF Joins, new
    <3>4. new \subseteq DOMAIN mine'[r]
      BY <2>2, <2>3
    <3> QED BY <1>3, <2>3, <2>4, <2>10, <3>1, <3>2, <3>3, <3>4 DEF Joins, new
  <2>12. Cleared(r)'
    <3>1. \A j : j \notin new => Sees(r, j)' = Sees(r, j)
      BY <2>2, <2>3, <2>4 DEF Sees
    <3>2. target[r] \in DOMAIN mine'[r] => target[r] \in DOMAIN mine[r]
      BY <1>3, <2>8
    <3> QED BY <1>1, <1>2, <2>4, <2>10, <3>1, <3>2 DEF Cleared
  <2>13. shared[r] = {}
    BY <1>1, <1>2 DEF Referred
  <2>14. Referred(r)'
    BY <2>3, <2>4, <2>13 DEF Referred
  <2>15. \A x \in Entities : x \notin Join
    BY RowsOfOneTable DEF Entities
  <2>16. OwnNames(r)'
    <3>1. \A x \in Entities : \A y \in TableOf(x) : Sees(r, y)' = Sees(r, y)
      BY <2>4, <2>8, <2>15, TableOfOther DEF Sees
    <3> QED BY <1>1, <1>2, <2>8, <2>15, <3>1 DEF OwnNames
  <2>17. Local(r)'
    BY <2>7, <2>9, <2>11, <2>12, <2>14, <2>16 DEF Local
  <2>18. ASSUME NEW q \in Others(r)
         PROVE  /\ LocksApart(q, r)'
                /\ NamesApart(q, r)' /\ NamesApart(r, q)'
                /\ SharedKept(q, r)' /\ SharedKept(r, q)'
    <3>1. /\ q \in Requests /\ q # r /\ mine'[q] = mine[q] /\ at'[q] = at[q]
          /\ Apart(q, r) /\ Apart(r, q)
      BY <2>3 DEF Others, Inv
    <3>2. new \cap DOMAIN mine[q] = {}
      BY <1>2 DEF Writers, new
    <3>3. LocksApart(q, r)'
      BY <2>2, <2>3, <3>1, <3>2 DEF Apart, LocksApart
    <3>4. SharedKept(q, r)'
      BY <2>4, <2>13 DEF SharedKept
    <3>5. shared[q] \subseteq Entities
      BY <1>1, <3>1 DEF TypeOK, Entities
    <3>6. SharedKept(r, q)'
      BY <2>4, <2>8, <2>15, <3>1, <3>5 DEF Apart, SharedKept
    <3>7. NamesApart(q, r)'
      BY <1>2, <2>8, <2>15, <3>1, TableOfOther DEF Apart, NamesApart
    <3>8. NamesApart(r, q)'
      BY <1>2, <2>8, <2>15, <3>1 DEF Apart, NamesApart
    <3> QED BY <3>3, <3>4, <3>6, <3>7, <3>8
  <2> QED BY <2>1, <2>3, <2>4, <2>6, <2>17, <2>18, Stepped
<1> QED BY <1>4, <1>5

LEMMA ReferStep ==
  ASSUME Inv, NEW r \in Requests, NEW x \in left[r], Refer(r, x)
  PROVE  Uncommitted(r)
<1>1. TypeOK /\ Carries(r) /\ Parent(r) /\ Joins(r) /\ Referred(r) /\ OwnNames(r) /\ Cleared(r)
  BY DEF Inv, Local
<1>2. at[r] = "refer" /\ {q \in Others(r) : ChangesKey(q, x)} = {}
  BY Waits DEF Refer
<1>3. /\ call[r] \in {"createRole", "createUser", "updateRole", "updateUser"}
      /\ call[r] # None /\ ~Removes(r)
  BY <1>1, <1>2, Granting
<1>4. CASE db[x] = None \/ Sees(r, target[r]) = None
  BY <1>4, Released DEF Refer, Answers
<1>5. CASE db[x] # None /\ Sees(r, target[r]) # None
  <2>1. /\ shared' = [shared EXCEPT ![r] = @ \cup {x}] /\ Processed(r, x, "commit")
        /\ UNCHANGED <<db, fresh, mine, request>>
    BY <1>5 DEF Refer
  <2>2. /\ left'[r] = left[r] \ {x}
        /\ at'[r] = IF left[r] \ {x} = {} THEN "commit" ELSE "refer"
        /\ \A q \in Others(r) : at'[q] = at[q] /\ left'[q] = left[q]
        /\ left' \in [Requests -> SUBSET Row]
        /\ at' \in [Requests -> Before \cup Statements \cup Answers]
    BY <1>1, <1>2, <2>1, ProcessedEffect DEF Statements
  <2>3. shared'[r] = shared[r] \cup {x} /\ \A q \in Others(r) : shared'[q] = shared[q]
    BY <1>1, <2>1 DEF TypeOK, Others
  <2>4. /\ put' = put /\ target' = target /\ list' = list /\ call' = call /\ db' = db
        /\ mine' = mine
        /\ Creates(r)' = Creates(r) /\ Updates(r)' = Updates(r) /\ Removes(r)' = Removes(r)
        /\ JoinRows(r)' = JoinRows(r)
    BY <2>1 DEF request, Creates, Updates, Removes, JoinRows
  <2>5. x \in list[r]
    BY <1>1, <1>2 DEF Referred
  <2>6. TypeOK'
    BY <1>1, <2>1, <2>2, <2>4, <2>5 DEF TypeOK
  <2>7. at'[r] \in {"refer", "commit"}
    BY <2>2
  <2>8. Carries(r)'
    BY <1>1, <1>3, <2>4, <2>7 DEF Carries, MayBeAt, Payload, Assigns
  <2>9. Parent(r)'
    BY <1>1, <1>2, <1>3, <2>4, <2>7 DEF Parent, Before, Answers
  <2>10. NewRows(r)' = NewRows(r)
    BY <1>2, <2>4, <2>7 DEF NewRows
  <2>11. \A y : Sees(r, y)' = Sees(r, y)
    BY <2>4 DEF Sees
  <2>12. Joins(r)' /\ Cleared(r)' /\ OwnNames(r)'
    BY <1>1, <1>2, <2>4, <2>7, <2>10, <2>11 DEF Joins, Cleared, OwnNames
  <2>13. Referred(r)'
    BY <1>1, <1>2, <1>5, <2>2, <2>3, <2>4, <2>5, <2>11 DEF Referred
  <2>14. Local(r)'
    BY <2>8, <2>9, <2>12, <2>13 DEF Local
  <2>15. ASSUME NEW q \in Others(r)
         PROVE  /\ LocksApart(q, r)'
                /\ NamesApart(q, r)' /\ NamesApart(r, q)'
                /\ SharedKept(q, r)' /\ SharedKept(r, q)'
    <3>1. /\ q \in Requests /\ q # r /\ at'[q] = at[q] /\ shared'[q] = shared[q]
          /\ Apart(q, r) /\ Apart(r, q)
      BY <2>2, <2>3 DEF Others, Inv
    <3>2. SharedKept(q, r)'
      BY <1>2, <2>3, <2>4, <3>1 DEF Apart, SharedKept, ChangesKey
    <3>3. SharedKept(r, q)' /\ LocksApart(q, r)'
      BY <2>4, <3>1 DEF Apart, SharedKept, LocksApart
    <3>4. NamesApart(q, r)' /\ NamesApart(r, q)'
      BY <1>2, <2>4, <3>1 DEF Apart, NamesApart
    <3> QED BY <3>2, <3>3, <3>4
  <2> QED BY <2>1, <2>2, <2>3, <2>4, <2>6, <2>14, <2>15, Stepped
<1> QED BY <1>4, <1>5

-----------------------------------------------------------------------------
(***************************************************************************)
(* The commit: what it leaves in the tables, and to the open transactions. *)
(***************************************************************************)
\* The targets of the transactions that replace or delete join rows, and these rows.
LEMMA RowsOfTarget ==
  ASSUME NEW q \in Requests, Carries(q),
         call[q] \in {"updateRole", "updateUser", "removeRole", "removePermission"},
         NEW j \in JoinRows(q)
  PROVE  /\ j \in Join
         /\ Updates(q) => j[1] = target[q]
         /\ Removes(q) => j[1] = target[q] \/ j[2] = target[q]
<1>1. /\ call[q] = "updateRole" => target[q] \in Roles
      /\ call[q] = "updateUser" => target[q] \in Users
      /\ call[q] = "removeRole" => target[q] \in Roles
      /\ call[q] = "removePermission" => target[q] \in Perms
  BY DEF Carries, Payload, Removes
<1>2. /\ call[q] = "updateRole" => JoinRows(q) = {target[q]} \X Perms
      /\ call[q] = "updateUser" => JoinRows(q) = {target[q]} \X Roles
      /\ call[q] = "removePermission" => JoinRows(q) = Roles \X {target[q]}
      /\ call[q] = "removeRole" =>
           JoinRows(q) = ({target[q]} \X Perms) \cup (Users \X {target[q]})
  BY DEF JoinRows
<1>3. CASE call[q] = "updateRole"
  BY <1>1, <1>2, <1>3 DEF Join, Updates, Removes
<1>4. CASE call[q] = "updateUser"
  BY <1>1, <1>2, <1>4 DEF Join, Updates, Removes
<1>5. CASE call[q] = "removePermission"
  BY <1>1, <1>2, <1>5 DEF Join, Updates, Removes
<1>6. CASE call[q] = "removeRole"
  BY <1>1, <1>2, <1>6 DEF Join, Updates, Removes
<1> QED BY <1>3, <1>4, <1>5, <1>6

\* A transaction that assigns something to a row it sees has written that row.
LEMMA AssigneeWritten ==
  ASSUME NEW q \in Requests, Carries(q), Parent(q), at[q] \in {"refer", "commit"},
         call[q] \in {"createRole", "createUser", "updateRole", "updateUser"},
         Sees(q, target[q]) # None
  PROVE  target[q] \in DOMAIN mine[q]
<1>1. at[q] \notin Before \cup {"insert", "rewrite"}
  BY DEF Before
<1>2. CASE call[q] \in {"createRole", "createUser"}
  BY <1>1, <1>2 DEF Carries, MayBeAt, Payload, Parent, Creates
<1>3. CASE call[q] \in {"updateRole", "updateUser"}
  BY <1>1, <1>3 DEF Parent, Updates, Sees
<1> QED BY <1>2, <1>3

\* Only these operations are given a list of what they assign.
LEMMA Assigning ==
  ASSUME TypeOK, NEW q \in Requests, Carries(q), list[q] # {}
  PROVE  /\ call[q] \in {"createRole", "createUser", "updateRole", "updateUser"}
         /\ DOMAIN put[q] = {target[q]}
         /\ \/ target[q] \in Roles /\ list[q] \subseteq Perms
            \/ target[q] \in Users /\ list[q] \subseteq Roles
BY DEF TypeOK, Calls, Carries, MayBeAt, Payload, Removes

\* What kind of value a transaction has written.
LEMMA WrittenKinds ==
  ASSUME Inv, NEW q \in Requests, NEW x \in DOMAIN mine[q]
  PROVE  /\ x \in Entities => mine[q][x] \in Names \cup {None}
         /\ x \in Users => mine[q][x] # None
         /\ x \in Join => mine[q][x] \in {"present", None}
<1>1. TypeOK /\ Kinds /\ Carries(q) /\ Parent(q) /\ Joins(q)
  BY DEF Inv, Local
<1>2. x \in Join => mine[q][x] \in {"present", None}
  BY <1>1 DEF Joins
<1>3. ASSUME x \notin Join
      PROVE  /\ x \in Entities => mine[q][x] \in Names \cup {None}
             /\ x \in Users => mine[q][x] # None
  <2>1. x \in DOMAIN put[q] \cup {target[q]}
    BY <1>1, <1>3 DEF Parent
  <2>2. call[q] # None
    BY <1>1 DEF Carries, MayBeAt, Payload, Parent, Before
  <2>3. CASE Creates(q)
    <3>1. x \in DOMAIN put[q] \/ x = None
      BY <1>1, <2>1, <2>3 DEF Carries, MayBeAt, Payload, Creates
    <3>2. x \in Row
      BY <1>1 DEF TypeOK
    <3>3. x # None
      BY <1>3, <3>2, NoneIsNothing DEF Row
    <3>4. x \in DOMAIN put[q] /\ mine[q][x] = put[q][x]
      BY <1>1, <2>3, <3>1, <3>3 DEF Parent
    <3> QED BY <1>1, <3>4, NoneIsNothing DEF TypeOK
  <2>4. CASE Updates(q)
    <3>1. DOMAIN put[q] \subseteq {target[q]} /\ target[q] # None
      BY <1>1, <2>4, NoneIsNothing DEF Carries, Payload, Updates, Entities
    <3>2. x = target[q]
      BY <2>1, <3>1
    <3>3. mine[q][x] = (IF x \in DOMAIN put[q] THEN put[q][x] ELSE db[x]) /\ db[x] # None
      BY <1>1, <2>4, <3>2 DEF Parent
    <3> QED BY <1>1, <3>3, NoneIsNothing DEF TypeOK, Kinds
  <2>5. CASE Removes(q)
    <3>1. x = target[q] /\ x \in Roles \cup Perms
      BY <1>1, <2>1, <2>5 DEF Carries, Payload, Removes
    <3> QED BY <1>1, <2>5, <3>1, RowsOfOneTable DEF Parent, Entities
  <2> QED BY <1>1, <2>2, <2>3, <2>4, <2>5 DEF TypeOK, Calls, Creates, Updates, Removes
<1> QED BY <1>2, <1>3, RowsOfOneTable DEF Entities

\* What r sees becomes what is committed.
LEMMA CommitEffect ==
  ASSUME TypeOK, NEW r \in Requests, Commit(r)
  PROVE  /\ at[r] = "commit" /\ Release(r, "done")
         /\ db' \in [Row -> Value]
         /\ \A x \in Row : db'[x] = Sees(r, x)
BY DEF TypeOK, Commit, Sees

\* The tables a commit leaves.
LEMMA CommitTables ==
  ASSUME Inv, NEW r \in Requests, Commit(r)
  PROVE  Kinds' /\ UniqueNames(db)' /\ Anchored(db)'
<1>1. /\ TypeOK /\ Kinds /\ UniqueNames(db) /\ Anchored(db)
      /\ Carries(r) /\ Parent(r) /\ Joins(r) /\ Cleared(r) /\ Referred(r) /\ OwnNames(r)
  BY DEF Inv, Local
<1>2. at[r] = "commit" /\ \A x \in Row : db'[x] = Sees(r, x)
  BY <1>1, CommitEffect
<1>3. Kinds'
  BY <1>1, <1>2, WrittenKinds DEF Kinds, Sees, Row, Entities
<1>4. UniqueNames(db)'
  <2> SUFFICES ASSUME NEW x \in Entities, NEW y \in TableOf(x) \ {x}, Sees(r, x) # None
               PROVE  Sees(r, x) # Sees(r, y)
    BY <1>2, TableOfOther DEF UniqueNames, Entities, Row
  <2>1. y \in Entities /\ x \in TableOf(y) /\ x # y
    BY TableOfOther
  <2>2. CASE x \in DOMAIN mine[r]
    BY <1>1, <1>2, <2>2 DEF OwnNames, Sees
  <2>3. CASE x \notin DOMAIN mine[r] /\ y \in DOMAIN mine[r]
    BY <1>1, <1>2, <2>1, <2>3 DEF OwnNames, Sees
  <2>4. CASE x \notin DOMAIN mine[r] /\ y \notin DOMAIN mine[r]
    BY <1>1, <2>4 DEF UniqueNames, Sees, Entities
  <2> QED BY <2>2, <2>3, <2>4
<1>5. Anchored(db)'
  <2> SUFFICES ASSUME NEW j \in Join, Sees(r, j) # None
               PROVE  Sees(r, j[1]) # None /\ Sees(r, j[2]) # None
    <3>1. \A j \in Join : j \in Row /\ j[1] \in Row /\ j[2] \in Row
      BY DEF Join, Row, Entities
    <3> QED BY <1>2, <3>1 DEF Anchored
  <2>1. /\ j[1] \in Roles \cup Users /\ j[2] \in Entities /\ j[1] \notin Join /\ j[2] \notin Join
    BY RowsOfOneTable DEF Join, Entities
  <2>2. CASE j \in DOMAIN mine[r]
    <3>1. j \in {target[r]} \X list[r]
      BY <1>1, <1>2, <2>2 DEF Joins, NewRows, Sees
    <3>2. j[1] = target[r] /\ j[2] \in list[r]
      BY <3>1
    <3>3. j[2] \in shared[r] /\ db[j[2]] # None /\ Sees(r, j[1]) # None
      BY <1>1, <1>2, <3>2 DEF Referred
    <3>4. j[2] \notin DOMAIN put[r] \cup {target[r]}
      BY <1>1, <3>2, Assigning, RowsOfOneTable
    <3>5. j[2] \notin DOMAIN mine[r]
      BY <1>1, <2>1, <3>4 DEF Parent
    <3> QED BY <3>3, <3>5 DEF Sees
  <2>3. CASE j \notin DOMAIN mine[r]
    <3>1. db[j] # None /\ db[j[1]] # None /\ db[j[2]] # None
      BY <1>1, <2>3 DEF Anchored, Sees
    <3>2. ASSUME NEW x \in {j[1], j[2]}, Sees(r, x) = None
          PROVE  FALSE
      <4>1. x \in DOMAIN mine[r] /\ mine[r][x] = None /\ x \notin Join
        BY <2>1, <3>1, <3>2 DEF Sees
      <4>2. x \in DOMAIN put[r] \cup {target[r]}
        BY <1>1, <4>1 DEF Parent
      <4>3. \A y \in DOMAIN put[r] : put[r][y] # None
        BY <1>1, NoneIsNothing DEF TypeOK
      <4>4. ~Updates(r)
        <5>1. SUFFICES ASSUME Updates(r) PROVE FALSE
          OBVIOUS
        <5>2. x = target[r]
          BY <1>1, <4>2, <5>1 DEF Carries, MayBeAt, Payload, Updates
        <5> QED BY <1>1, <3>1, <3>2, <4>1, <4>3, <5>1, <5>2 DEF Parent
      <4>5. ~Creates(r)
        <5>1. SUFFICES ASSUME Creates(r) PROVE FALSE
          OBVIOUS
        <5>2. x \in DOMAIN put[r]
          BY <1>1, <2>1, <4>2, <5>1, NoneIsNothing DEF Carries, MayBeAt, Payload, Creates, Entities
        <5> QED BY <1>1, <4>1, <4>3, <5>1, <5>2 DEF Parent
      <4>6. Removes(r)
        BY <1>1, <1>2, <4>4, <4>5, CallsByPlace DEF Calls, Creates, Updates, Removes, Answers
      <4>7. x = target[r] /\ list[r] = {}
        BY <1>1, <4>2, <4>6 DEF Carries, MayBeAt, Payload
      <4>8. j \in JoinRows(r)
        <5>1. CASE call[r] = "removeRole"
          <6>1. x \in Roles /\ JoinRows(r) = ({x} \X Perms) \cup (Users \X {x})
            BY <1>1, <4>7, <5>1 DEF Carries, Payload, Removes, JoinRows
          <6> QED BY <3>2, <6>1, RowsOfOneTable DEF Join
        <5>2. CASE call[r] = "removePermission"
          <6>1. x \in Perms /\ JoinRows(r) = Roles \X {x}
            BY <1>1, <4>7, <5>2 DEF Carries, Payload, Removes, JoinRows
          <6> QED BY <3>2, <6>1, RowsOfOneTable DEF Join
        <5> QED BY <4>6, <5>1, <5>2 DEF Removes
      <4>9. j \in NewRows(r)
        BY <1>1, <1>2, <4>1, <4>6, <4>7, <4>8 DEF Cleared, Removes
      <4> QED BY <1>2, <4>7, <4>9 DEF NewRows
    <3> QED BY <3>2
  <2> QED BY <2>2, <2>3
<1> QED BY <1>3, <1>4, <1>5

\* A commit of r, as another open transaction meets it.
LEMMA CommitForOther ==
  ASSUME Inv, NEW r \in Requests, Commit(r), NEW q \in Others(r)
  PROVE  Local(q)'
<1>1. /\ TypeOK /\ Kinds /\ Carries(r) /\ Parent(r) /\ Joins(r) /\ Referred(r)
      /\ q \in Requests /\ Local(q) /\ Apart(q, r) /\ Apart(r, q)
      /\ Carries(q) /\ Parent(q) /\ Joins(q) /\ Cleared(q) /\ Referred(q) /\ OwnNames(q)
  BY DEF Inv, Local, Others
<1>2. /\ at[r] = "commit" /\ Release(r, "done") /\ \A x \in Row : db'[x] = Sees(r, x)
  BY <1>1, CommitEffect
<1>3. Untouched(q)
  BY <1>1, <1>2, ReleaseEffect DEF Answers
<1>4. \A x \in Row : /\ x \notin DOMAIN mine[r] => db'[x] = db[x]
                     /\ x \in DOMAIN mine[r] => db'[x] = mine[r][x] /\ x \notin DOMAIN mine[q]
  BY <1>1, <1>2 DEF Sees, Apart, LocksApart
<1>5. \A x \in DOMAIN mine[q] : x \in Row /\ db'[x] = db[x]
  BY <1>1, <1>4 DEF TypeOK
<1>6. /\ Creates(q)' = Creates(q) /\ Updates(q)' = Updates(q) /\ Removes(q)' = Removes(q)
      /\ NewRows(q)' = NewRows(q) /\ JoinRows(q)' = JoinRows(q)
  BY <1>3 DEF Untouched, Creates, Updates, Removes, NewRows, JoinRows
<1>7. \A x \in Row : Sees(q, x)' = IF x \in DOMAIN mine[q] THEN mine[q][x] ELSE db'[x]
  BY <1>3 DEF Untouched, Sees
<1>8. Carries(q)' /\ Joins(q)'
  BY <1>1, <1>3, <1>6 DEF Untouched, Carries, MayBeAt, Payload, Joins
<1>9. ASSUME NEW x \in Entities, db[x] = None, x \in DOMAIN mine[r]
      PROVE  (Creates(q) => x \notin DOMAIN put[q]) /\ (Updates(q) => target[q] # x)
  <2>1. Creates(r) /\ x \in DOMAIN put[r]
    BY <1>9, OnlyCreatorsWriteNew
  <2> QED BY <1>1, <2>1 DEF Apart, IdsApart
<1>10. Parent(q)'
  <2>1. Creates(q) => \A x \in DOMAIN put[q] : db'[x] = None
    <3>1. \A x \in DOMAIN put[q] : x \in Entities /\ x \in Row
      BY <1>1 DEF TypeOK, Entities, Row
    <3> QED BY <1>1, <1>4, <1>9, <3>1 DEF Parent
  <2>2. Updates(q) /\ target[q] \in DOMAIN mine[q] =>
          /\ db'[target[q]] # None
          /\ mine[q][target[q]] = IF target[q] \in DOMAIN put[q] THEN put[q][target[q]]
                                  ELSE db'[target[q]]
    BY <1>1, <1>5 DEF Parent
  <2>3. Updates(q) /\ at[q] \notin Before \cup {"rewrite"} /\ target[q] \notin DOMAIN mine[q] =>
          db'[target[q]] = None
    <3>1. SUFFICES ASSUME Updates(q), at[q] \notin Before \cup {"rewrite"},
                          target[q] \notin DOMAIN mine[q]
                   PROVE  db'[target[q]] = None
      OBVIOUS
    <3>2. db[target[q]] = None
      BY <1>1, <3>1 DEF Parent
    <3>3. target[q] \in Entities /\ target[q] \in Row
      BY <1>1, <3>1, <3>2, NoneIsNothing DEF Carries, Payload, Updates, Kinds, Entities, Row
    <3> QED BY <1>4, <1>9, <3>1, <3>2, <3>3
  <2>4. Removes(q) /\ target[q] \in DOMAIN mine[q] => db'[target[q]] # None
    BY <1>1, <1>5 DEF Parent
  <2>5. call[q] = "updateUser" => db'[target[q]] # None
    <3>1. SUFFICES ASSUME call[q] = "updateUser" PROVE db'[target[q]] # None
      OBVIOUS
    <3>2. target[q] \in Users /\ target[q] \in Row /\ db[target[q]] # None
      BY <1>1, <3>1 DEF Carries, MayBeAt, Payload, Parent, Row, Entities
    <3>3. target[q] \in DOMAIN mine[r] => mine[r][target[q]] # None
      BY <3>2, WrittenKinds
    <3> QED BY <1>4, <3>2, <3>3
  <2> QED BY <1>1, <1>3, <1>6, <2>1, <2>2, <2>3, <2>4, <2>5 DEF Parent, Untouched
<1>11. Cleared(q)'
  <2> SUFFICES ASSUME call[q] \in {"updateRole", "updateUser", "removeRole", "removePermission"},
                      at[q] \in {"remove", "grant", "refer", "commit"},
                      target[q] \in DOMAIN mine[q],
                      NEW j \in JoinRows(q), Sees(q, j)' # None
               PROVE  j \in NewRows(q) \/ (at[q] = "remove" /\ j \in left[q])
    BY <1>3, <1>6 DEF Cleared, Untouched
  <2>1. /\ j \in Join /\ j \in Row
        /\ Updates(q) => j[1] = target[q]
        /\ Removes(q) => j[1] = target[q] \/ j[2] = target[q]
    BY <1>1, RowsOfTarget DEF Row
  <2>2. CASE j \in DOMAIN mine[r]
    <3>1. db'[j] # None /\ mine[r][j] # None
      BY <1>4, <1>7, <2>1, <2>2
    <3>2. j \in {target[r]} \X list[r]
      BY <1>1, <1>2, <2>1, <2>2, <3>1 DEF Joins, NewRows
    <3>3. j[1] = target[r] /\ j[2] \in list[r]
      BY <3>2
    <3>4. Sees(r, target[r]) # None /\ j[2] \in shared[r] /\ db[j[2]] # None
      BY <1>1, <1>2, <3>3 DEF Referred
    <3>5. target[r] \in DOMAIN mine[r]
      BY <1>1, <1>2, <3>3, <3>4, Assigning, AssigneeWritten
    <3>6. j[1] # target[q]
      BY <1>1, <3>3, <3>5 DEF Apart, LocksApart
    <3>7. Removes(q) /\ j[2] = target[q]
      BY <2>1, <3>6 DEF Updates, Removes
    <3>8. mine[q][j[2]] = None
      BY <1>1, <3>7 DEF Parent
    <3>9. mine[q][j[2]] = db[j[2]]
      BY <1>1, <3>4, <3>7 DEF Apart, SharedKept
    <3> QED BY <3>4, <3>8, <3>9
  <2>3. CASE j \notin DOMAIN mine[r]
    <3>1. Sees(q, j) # None
      BY <1>4, <1>7, <2>1, <2>3 DEF Sees
    <3> QED BY <1>1, <3>1 DEF Cleared
  <2> QED BY <2>2, <2>3
<1>12. Referred(q)'
  <2>1. shared[q] # {} => Sees(q, target[q])' # None
    <3>1. SUFFICES ASSUME shared[q] # {} PROVE Sees(q, target[q])' # None
      OBVIOUS
    <3>2. list[q] # {} /\ at[q] \in {"refer", "commit"} /\ Sees(q, target[q]) # None
      BY <1>1, <3>1 DEF Referred
    <3>3. target[q] \in DOMAIN mine[q]
      BY <1>1, <3>2, Assigning, AssigneeWritten
    <3> QED BY <1>3, <3>2, <3>3 DEF Untouched, Sees
  <2>2. ASSUME NEW y \in shared[q] PROVE db'[y] # None
    <3>1. y \in Row /\ db[y] # None
      BY <1>1 DEF TypeOK, Row, Referred, Entities
    <3>2. y \in DOMAIN mine[r] => mine[r][y] = db[y]
      BY <1>1 DEF Apart, SharedKept
    <3> QED BY <1>4, <3>1, <3>2
  <2>3. target'[q] = target[q]
    BY <1>3 DEF Untouched
  <2> QED BY <1>1, <1>3, <2>1, <2>2, <2>3 DEF Referred, Untouched
<1>13. OwnNames(q)'
  <2> SUFFICES ASSUME at[q] # "enter", NEW x \in Entities \cap DOMAIN mine[q], mine[q][x] # None,
                      NEW y \in TableOf(x) \ {x}
               PROVE  Sees(q, y)' # mine[q][x]
    BY <1>3 DEF OwnNames, Untouched
  <2>1. Sees(q, y) # mine[q][x] /\ y \in Row
    BY <1>1, TableOfOther DEF OwnNames, Entities, Row
  <2>2. y \in DOMAIN mine[r] => mine[r][y] # mine[q][x]
    BY <1>1, <1>2 DEF Apart, NamesApart
  <2> QED BY <1>4, <1>7, <2>1, <2>2 DEF Sees
<1> QED BY <1>8, <1>10, <1>11, <1>12, <1>13 DEF Local

LEMMA CommitStep ==
  ASSUME Inv, NEW r \in Requests, Commit(r)
  PROVE  Inv'
<1>1. TypeOK /\ FreshIds /\ Local(r)
  BY DEF Inv
<1>2. /\ at[r] = "commit" /\ Release(r, "done") /\ db' \in [Row -> Value]
      /\ \A x \in Row : db'[x] = Sees(r, x)
  BY <1>1, CommitEffect
<1>3. /\ DOMAIN mine'[r] = {} /\ shared'[r] = {} /\ at'[r] = "done" /\ call'[r] = None
      /\ DOMAIN put'[r] = {} /\ list'[r] = {} /\ left'[r] = {} /\ fresh' = fresh
      /\ \A q \in Others(r) : Untouched(q)
      /\ TypeOK'
  BY <1>1, <1>2, ReleaseEffect DEF Answers
<1>4. Kinds' /\ UniqueNames(db)' /\ Anchored(db)'
  BY CommitTables
<1>5. Local(r)' /\ \A q \in Others(r) : Apart(q, r)' /\ Apart(r, q)'
  BY <1>3, Emptied DEF Answers
<1>6. FreshIds'
  <2>1. ASSUME NEW x \in fresh PROVE db'[x] = None
    <3>1. x \in Entities /\ x \in Row /\ db[x] = None
      BY <1>1 DEF TypeOK, FreshIds, Entities, Row
    <3>2. x \notin DOMAIN mine[r]
      BY <1>1, <3>1, OnlyCreatorsWriteNew DEF FreshIds
    <3> QED BY <1>2, <3>1, <3>2 DEF Sees
  <2>2. ~Creates(r)' /\ ~Updates(r)'
    BY <1>3, NoneIsNothing DEF Creates, Updates, Calls
  <2>3. ASSUME NEW q \in Others(r)
        PROVE  /\ Creates(q)' => DOMAIN put'[q] \cap fresh' = {}
               /\ Updates(q)' => target'[q] \notin fresh'
    BY <1>1, <1>3 DEF FreshIds, Creates, Updates, Untouched, Others
  <2> QED BY <1>3, <2>1, <2>2, <2>3 DEF FreshIds, Others
<1>7. ASSUME NEW q \in Requests PROVE Local(q)'
  BY <1>5, CommitForOther DEF Others
<1>8. ASSUME NEW p \in Requests, NEW q \in Others(p) PROVE Apart(q, p)'
  <2>1. CASE p = r \/ q = r
    BY <1>5, <2>1 DEF Others
  <2>2. CASE p # r /\ q # r
    <3>1. /\ Apart(q, p) /\ Untouched(p) /\ Untouched(q) /\ LocksApart(q, r)
      BY <1>3, <2>2 DEF Inv, Others, Apart
    <3>2. \A y \in DOMAIN mine[q] : db'[y] = db[y]
      BY <1>1, <1>2, <2>2, <3>1 DEF TypeOK, LocksApart, Sees, Others
    <3>3. SharedKept(q, p)'
      BY <3>1, <3>2 DEF Apart, SharedKept, Untouched
    <3> QED BY <3>1, <3>3 DEF Apart, LocksApart, NamesApart, IdsApart, Untouched, Creates, Updates
  <2> QED BY <2>1, <2>2
<1> QED BY <1>3, <1>4, <1>6, <1>7, <1>8 DEF Inv

-----------------------------------------------------------------------------
(***************************************************************************)
(* The invariant holds from the start and through every step.              *)
(***************************************************************************)
LEMMA InitInv ==
  ASSUME Init
  PROVE  Inv
<1>1. PICK name \in [Entities -> Names \cup {None}], joins \in SUBSET Join :
        db = [x \in Row |-> CASE x \in Entities -> name[x]
                             [] x \in joins -> "present"
                             [] OTHER -> None]
  BY DEF Init, Stored
<1>2. ASSUME NEW x \in Row
      PROVE  /\ x \in Entities => db[x] \in Names \cup {None}
             /\ x \in Join => db[x] \in {"present", None}
  <2>1. CASE x \in Entities
    BY <1>1, <2>1, RowsOfOneTable
  <2>2. CASE x \in joins
    BY <1>1, <2>2, RowsOfOneTable
  <2>3. CASE x \in Join \ joins
    BY <1>1, <2>3, RowsOfOneTable
  <2> QED BY <2>1, <2>2, <2>3 DEF Row
<1>3. Kinds
  BY <1>2 DEF Kinds, Row, Entities
<1>4. db \in [Row -> Value]
  BY <1>1, <1>2 DEF Row, Entities, Value
<1>5. \A r \in Requests :
        /\ DOMAIN mine[r] = {} /\ shared[r] = {} /\ at[r] = "idle" /\ call[r] = None
        /\ target[r] = None /\ DOMAIN put[r] = {} /\ list[r] = {} /\ left[r] = {}
  BY DEF Init, Nothing
<1>6. TypeOK
  BY <1>4 DEF Init, Stored, TypeOK, Nothing, Before
<1>7. FreshIds
  BY <1>5, NoneIsNothing DEF Init, Stored, FreshIds, Creates, Updates, Calls
<1>8. ASSUME NEW r \in Requests PROVE Local(r)
  <2>1. Carries(r)
    BY <1>5, NoneIsNothing DEF Carries, MayBeAt, Payload, Removes, Calls
  <2>2. Parent(r)
    BY <1>5, NoneIsNothing DEF Parent, Creates, Updates, Removes, Calls
  <2>3. Joins(r) /\ Cleared(r) /\ Referred(r) /\ OwnNames(r)
    BY <1>5 DEF Joins, NewRows, Cleared, Referred, OwnNames
  <2> QED BY <2>1, <2>2, <2>3 DEF Local
<1>9. ASSUME NEW r \in Requests, NEW q \in Others(r) PROVE Apart(q, r)
  BY <1>5, NoneIsNothing
  DEF Others, Apart, LocksApart, NamesApart, SharedKept, IdsApart, Creates, Updates, Calls
<1> QED BY <1>3, <1>6, <1>7, <1>8, <1>9 DEF Init, Stored, Inv

\* A step either commits nothing, or is the commit of a request.
LEMMA StepKinds ==
  ASSUME Inv, NEW r \in Requests, Calling(r) \/ Step(r) \/ AbortVictim(r) \/ Crash(r)
  PROVE  Uncommitted(r) \/ Commit(r)
<1>1. CASE Calling(r)
  BY <1>1, CallingStep
<1>2. CASE Step(r)
  <2>1. CASE CheckName(r) \/ CheckList(r) \/ FindExistingByNames(r)
    BY <2>1, CheckStep
  <2>2. CASE \E x \in left[r] : Insert(r, x) \/ Remove(r, x) \/ Refer(r, x)
    BY <2>2, InsertStep, RemoveStep, ReferStep
  <2>3. CASE Rewrite(r)
    BY <2>3, RewriteStep
  <2>4. CASE Enter(r)
    BY <2>4, EnterStep
  <2>5. CASE Strike(r)
    BY <2>5, StrikeStep
  <2>6. CASE Scan(r)
    BY <2>6, ScanStep
  <2>7. CASE Grant(r)
    BY <2>7, GrantStep
  <2> QED BY <1>2, <2>1, <2>2, <2>3, <2>4, <2>5, <2>6, <2>7 DEF Step
<1>3. CASE AbortVictim(r)
  BY <1>3, Released DEF AbortVictim, Answers
<1>4. CASE Crash(r)
  BY <1>4, Released DEF Crash, Answers
<1> QED BY <1>1, <1>2, <1>3, <1>4

LEMMA NextInv ==
  ASSUME Inv, [Next]_vars
  PROVE  Inv'
<1>1. ASSUME NEW r \in Requests, Calling(r) \/ Step(r) \/ AbortVictim(r) \/ Crash(r)
      PROVE  Inv'
  BY <1>1, StepKinds, Assembled, CommitStep
<1>2. CASE UNCHANGED vars
  <2>1. TypeOK' /\ Kinds' /\ FreshIds' /\ UniqueNames(db)' /\ Anchored(db)'
    BY <1>2 DEF vars, Inv, TypeOK, Kinds, FreshIds, Creates, Updates, UniqueNames, Anchored
  <2>2. ASSUME NEW r \in Requests PROVE Local(r)'
    BY <1>2, LocalKept DEF vars, Inv, Untouched
  <2>3. ASSUME NEW r \in Requests, NEW q \in Others(r) PROVE Apart(q, r)'
    BY <1>2 DEF vars, Inv, Apart, LocksApart, NamesApart, SharedKept, IdsApart, Creates,
                Updates, Others
  <2> QED BY <2>1, <2>2, <2>3 DEF Inv, Others
<1> QED BY <1>1, <1>2 DEF Next

(***************************************************************************)
(* In every reachable state, each open transaction has written what its    *)
(* statements so far write, nobody else has written the same rows or taken *)
(* the same names, and the rows its foreign keys refer to are kept.        *)
(***************************************************************************)
THEOREM Invariance == Spec => []Inv
<1>1. Init => Inv
  BY InitInv
<1>2. Inv /\ [Next]_vars => Inv'
  BY NextInv
<1> QED BY <1>1, <1>2, PTL DEF Spec

(***************************************************************************)
(* Every variable keeps its type: the committed rows hold names, and open  *)
(* transactions rows of the four tables, whatever the requests do.         *)
(***************************************************************************)
THEOREM RoleTypeCorrect == Spec => []TypeOK
<1>1. Inv => TypeOK
  BY DEF Inv
<1> QED BY <1>1, Invariance, PTL

(***************************************************************************)
(* rbac.schema.ts:12-41, user.schema.ts:59-61: no two committed roles and  *)
(* no two permissions have one name, and no two users one address, though  *)
(* the services look for the name before their transaction begins, and     *)
(* updatePermission does not look at all.                                  *)
(***************************************************************************)
THEOREM NamesUnique == Spec => []NamesStayUnique
<1>1. Inv => NamesStayUnique
  BY DEF Inv, NamesStayUnique
<1> QED BY <1>1, Invariance, PTL

(***************************************************************************)
(* rbac.schema.ts:36-74: however updates, assignments and deletions        *)
(* interleave, no committed join row refers to a role or permission that   *)
(* is not there: what a foreign key was checked against cannot be deleted  *)
(* before the commit, and a deletion takes every join row with it.         *)
(***************************************************************************)
THEOREM NoDanglingRow == Spec => []JoinRowsAnchored
<1>1. Inv => JoinRowsAnchored
  BY DEF Inv, JoinRowsAnchored
<1> QED BY <1>1, Invariance, PTL

-----------------------------------------------------------------------------
(***************************************************************************)
(* RoleStore: a commit is one of its operations, or changes nothing.       *)
(***************************************************************************)
\* Whoever commits has been asked for something.
LEMMA Committing ==
  ASSUME Inv, NEW r \in Requests, at[r] = "commit"
  PROVE  call[r] \in Calls
BY DEF Inv, Local, Carries, MayBeAt, Payload, TypeOK, Answers

(***************************************************************************)
(* What a commit does to the three tables, by row.                         *)
(***************************************************************************)
LEMMA CommitRows ==
  ASSUME Inv, NEW r \in Requests, Commit(r)
  PROVE  /\ \A x \in Entities \cup Join :
              db'[x] = IF x \in DOMAIN mine[r] THEN mine[r][x] ELSE db[x]
         /\ \A x \in Entities : x \in DOMAIN mine[r] => x \in DOMAIN put[r] \cup {target[r]}
         /\ \A j \in Join \cap DOMAIN mine[r] :
              j \in JoinRows(r) /\ mine[r][j] = IF j \in {target[r]} \X list[r]
                                                THEN "present" ELSE None
         /\ {target[r]} \X list[r] \subseteq DOMAIN mine[r]
         /\ \A y \in list[r] : db[y] # None
BY RowsOfOneTable, CommitEffect
DEF Inv, Local, Parent, Joins, Referred, NewRows, Row, Entities, Sees

\* Assigned join rows are those of the list, and nobody else's change.
LEMMA CommitReplaces ==
  ASSUME Inv, NEW r \in Requests, Commit(r), target[r] \in DOMAIN mine[r],
         call[r] \in {"createRole", "createUser", "updateRole", "updateUser"}
  PROVE  /\ \A j \in JoinRows(r) : db'[j] # None <=> j \in {target[r]} \X list[r]
         /\ \A j \in Join : j[1] # target[r] => db'[j] = db[j]
         /\ {target[r]} \X list[r] \subseteq JoinRows(r)
<1>1. /\ TypeOK /\ Anchored(db) /\ Carries(r) /\ Parent(r) /\ Joins(r) /\ Cleared(r)
      /\ at[r] = "commit"
  BY CommitEffect DEF Inv, Local
<1>2. /\ call[r] \in {"createRole", "updateRole"} =>
           target[r] \in Roles /\ list[r] \subseteq Perms
      /\ call[r] \in {"createUser", "updateUser"} =>
           target[r] \in Users /\ list[r] \subseteq Roles
  BY <1>1 DEF Carries, MayBeAt, Payload
<1>3. /\ call[r] \in {"createRole", "updateRole"} => JoinRows(r) = {target[r]} \X Perms
      /\ call[r] \in {"createUser", "updateUser"} => JoinRows(r) = {target[r]} \X Roles
  BY DEF JoinRows
<1>4. /\ JoinRows(r) \subseteq Join /\ {target[r]} \X list[r] \subseteq JoinRows(r)
      /\ \A j \in JoinRows(r) : j[1] = target[r]
  BY <1>2, <1>3 DEF Join
<1>5. \A j \in Join \cap DOMAIN mine[r] : j[1] = target[r]
  BY <1>1, <1>4 DEF Joins
<1>6. \A j \in Join : j[1] # target[r] => db'[j] = db[j]
  BY <1>5, CommitRows
<1>7. ASSUME NEW j \in JoinRows(r)
      PROVE  db'[j] # None <=> j \in {target[r]} \X list[r]
  <2>1. CASE j \in DOMAIN mine[r]
    BY <1>4, <2>1, CommitRows, NoneIsNothing
  <2>2. CASE j \notin DOMAIN mine[r]
    <3>1. j \notin {target[r]} \X list[r] /\ db'[j] = db[j]
      BY <1>4, <2>2, CommitRows
    <3>2. db[j] = None
      <4>1. CASE call[r] \in {"createRole", "createUser"}
        <5>1. db[target[r]] = None
          BY <1>1, <4>1 DEF Carries, MayBeAt, Payload, Parent, Creates
        <5> QED BY <1>1, <1>4, <5>1 DEF Anchored
      <4>2. CASE call[r] \in {"updateRole", "updateUser"}
        BY <1>1, <2>2, <3>1, <4>2 DEF Cleared, NewRows, Sees
      <4> QED BY <4>1, <4>2
    <3> QED BY <3>1, <3>2
  <2> QED BY <2>1, <2>2
<1> QED BY <1>4, <1>6, <1>7

\* The name a commit gives is free.
LEMMA CommitNames ==
  ASSUME Inv, NEW r \in Requests, Commit(r), NEW x \in Entities \cap DOMAIN mine[r],
         mine[r][x] # None, NEW y \in TableOf(x) \ {x}
  PROVE  mine[r][x] # IF y \in DOMAIN mine[r] THEN mine[r][y] ELSE db[y]
BY CommitEffect DEF Inv, Local, OwnNames, Sees

\* What RoleStore's variables stand for.
NameOf == [x \in Entities |-> db[x]]
Grants == {j \in Roles \X Perms : db[j] # None}
Holds == {j \in Users \X Roles : db[j] # None}

LEMMA CommitRole ==
  ASSUME Inv, NEW r \in Requests, Commit(r), call[r] \in {"createRole", "updateRole"},
         NEW t, NEW n, NEW l, t = target[r], t \in DOMAIN mine[r], n = put[r][t], l = list[r]
  PROVE  /\ t \in Roles /\ n \in Names /\ l \subseteq Perms
         /\ call[r] = "createRole" => Store!CreateRole(t, n, l)
         /\ call[r] = "updateRole" => Store!UpdateRole(t, n, l)
<1>1. TypeOK /\ Carries(r) /\ Parent(r) /\ Joins(r) /\ Cleared(r) /\ at[r] = "commit"
  BY CommitEffect DEF Inv, Local
<1>2. t \in Roles /\ t \in Entities /\ DOMAIN put[r] = {t} /\ n \in Names /\ l \subseteq Perms
  BY <1>1 DEF Carries, MayBeAt, Payload, TypeOK, Entities
<1>3. mine[r][t] = n /\ n # None
  BY <1>1, <1>2, NoneIsNothing DEF Parent, Creates, Updates
<1>4. \A x \in Entities : x \in DOMAIN mine[r] <=> x = t
  BY <1>2, CommitRows
<1>5. \A x \in Entities : db'[x] = IF x = t THEN n ELSE db[x]
  BY <1>3, <1>4, CommitRows
<1>6. \A y \in Roles \ {t} : db[y] # n
  <2>1. TableOf(t) = Roles /\ Roles \subseteq Entities
    BY <1>2, TableOfRow DEF Entities
  <2> QED BY <1>2, <1>3, <1>4, <2>1, CommitNames
<1>7. \A y \in l : db[y] # None
  BY CommitRows
<1>8. ASSUME NEW j \in Roles \X Perms
      PROVE  db'[j] # None <=> (j[1] # t /\ db[j] # None) \/ j \in {t} \X l
  <2>1. CASE j[1] = t
    <3>1. j \in JoinRows(r)
      BY <2>1 DEF JoinRows
    <3> QED BY <2>1, <3>1, CommitReplaces
  <2>2. CASE j[1] # t
    <3>1. j \in Join /\ j \notin {t} \X l
      BY <2>2 DEF Join
    <3>2. db'[j] = db[j]
      BY <2>2, <3>1, CommitReplaces
    <3> QED BY <2>2, <3>1, <3>2
  <2> QED BY <2>1, <2>2
<1>9. \A j \in Users \X Roles : db'[j] = db[j]
  <2>1. \A j \in Users \X Roles : j \in Join /\ j[1] # t
    BY <1>2, RowsOfOneTable DEF Join
  <2> QED BY <2>1, CommitReplaces
<1>10. call[r] = "createRole" => db[t] = None
  BY <1>1, <1>2 DEF Parent, Creates
<1>11. call[r] = "updateRole" => db[t] # None
  BY <1>1 DEF Parent, Updates
<1>12. NameOf' = [NameOf EXCEPT ![t] = n]
  BY <1>2, <1>5 DEF NameOf
<1>13. Grants' = {p \in Grants : p[1] # t} \cup ({t} \X l)
  BY <1>2, <1>8 DEF Grants
<1>14. Holds' = Holds
  BY <1>9 DEF Holds
<1>15. call[r] = "createRole" => Store!CreateRole(t, n, l)
  BY <1>2, <1>6, <1>7, <1>10, <1>12, <1>13, <1>14
  DEF Store!CreateRole, Store!Free, Store!Existing, Store!Replace, NameOf, Grants, Holds, Entities
<1>16. call[r] = "updateRole" => Store!UpdateRole(t, n, l)
  BY <1>2, <1>6, <1>7, <1>11, <1>12, <1>13, <1>14
  DEF Store!UpdateRole, Store!Free, Store!Existing, Store!Replace, NameOf, Grants, Holds, Entities
<1> QED BY <1>2, <1>15, <1>16

LEMMA CommitUser ==
  ASSUME Inv, NEW r \in Requests, Commit(r), call[r] \in {"createUser", "updateUser"},
         NEW t, NEW n, NEW l, t = target[r], t \in DOMAIN mine[r], n = put[r][t], l = list[r]
  PROVE  /\ t \in Users /\ n \in Names /\ l \subseteq Roles
         /\ call[r] = "createUser" => Store!CreateUser(t, n, l)
         /\ call[r] = "updateUser" => Store!UpdateUser(t, n, l)
<1>1. TypeOK /\ Carries(r) /\ Parent(r) /\ Joins(r) /\ Cleared(r) /\ at[r] = "commit"
  BY CommitEffect DEF Inv, Local
<1>2. t \in Users /\ t \in Entities /\ DOMAIN put[r] = {t} /\ n \in Names /\ l \subseteq Roles
  BY <1>1 DEF Carries, MayBeAt, Payload, TypeOK, Entities
<1>3. mine[r][t] = n /\ n # None
  BY <1>1, <1>2, NoneIsNothing DEF Parent, Creates, Updates
<1>4. \A x \in Entities : x \in DOMAIN mine[r] <=> x = t
  BY <1>2, CommitRows
<1>5. \A x \in Entities : db'[x] = IF x = t THEN n ELSE db[x]
  BY <1>3, <1>4, CommitRows
<1>6. \A y \in Users \ {t} : db[y] # n
  <2>1. TableOf(t) = Users /\ Users \subseteq Entities
    BY <1>2, TableOfRow DEF Entities
  <2> QED BY <1>2, <1>3, <1>4, <2>1, CommitNames
<1>7. \A y \in l : db[y] # None
  BY CommitRows
<1>8. ASSUME NEW j \in Users \X Roles
      PROVE  db'[j] # None <=> (j[1] # t /\ db[j] # None) \/ j \in {t} \X l
  <2>1. CASE j[1] = t
    <3>1. j \in JoinRows(r)
      BY <2>1 DEF JoinRows
    <3> QED BY <2>1, <3>1, CommitReplaces
  <2>2. CASE j[1] # t
    <3>1. j \in Join /\ j \notin {t} \X l
      BY <2>2 DEF Join
    <3>2. db'[j] = db[j]
      BY <2>2, <3>1, CommitReplaces
    <3> QED BY <2>2, <3>1, <3>2
  <2> QED BY <2>1, <2>2
<1>9. \A j \in Roles \X Perms : db'[j] = db[j]
  <2>1. \A j \in Roles \X Perms : j \in Join /\ j[1] # t
    BY <1>2, RowsOfOneTable DEF Join
  <2> QED BY <2>1, CommitReplaces
<1>10. call[r] = "createUser" => db[t] = None
  BY <1>1, <1>2 DEF Parent, Creates
<1>11. call[r] = "updateUser" => db[t] # None
  BY <1>1 DEF Parent, Updates
<1>12. NameOf' = [NameOf EXCEPT ![t] = n]
  BY <1>2, <1>5 DEF NameOf
<1>13. Holds' = {p \in Holds : p[1] # t} \cup ({t} \X l)
  BY <1>2, <1>8 DEF Holds
<1>14. Grants' = Grants
  BY <1>9 DEF Grants
<1>15. call[r] = "createUser" => Store!CreateUser(t, n, l)
  BY <1>2, <1>6, <1>7, <1>10, <1>12, <1>13, <1>14
  DEF Store!CreateUser, Store!Free, Store!Existing, Store!Replace, NameOf, Grants, Holds, Entities
<1>16. call[r] = "updateUser" => Store!UpdateUser(t, n, l)
  BY <1>2, <1>6, <1>7, <1>11, <1>12, <1>13, <1>14
  DEF Store!UpdateUser, Store!Free, Store!Existing, Store!Replace, NameOf, Grants, Holds, Entities
<1> QED BY <1>2, <1>15, <1>16

LEMMA CommitPermission ==
  ASSUME Inv, NEW r \in Requests, Commit(r), call[r] = "updatePermission",
         NEW t, NEW n, t = target[r], t \in DOMAIN mine[r], n = put[r][t]
  PROVE  t \in Perms /\ n \in Names /\ Store!RenamePermission(t, n)
<1>1. TypeOK /\ Carries(r) /\ Parent(r) /\ Joins(r)
  BY DEF Inv, Local
<1>2. t \in Perms /\ t \in Entities /\ DOMAIN put[r] = {t} /\ n \in Names
  BY <1>1 DEF Carries, MayBeAt, Payload, TypeOK, Entities
<1>3. mine[r][t] = n /\ n # None /\ db[t] # None
  BY <1>1, <1>2, NoneIsNothing DEF Parent, Updates
<1>4. \A x \in Entities : db'[x] = IF x = t THEN n ELSE db[x]
  BY <1>2, <1>3, CommitRows
<1>5. \A j \in Join : db'[j] = db[j]
  BY <1>1, CommitRows DEF Joins
<1>6. \A y \in Perms \ {t} : db[y] # n
  <2>1. TableOf(t) = Perms /\ Perms \subseteq Entities
    BY <1>2, TableOfRow DEF Entities
  <2>2. \A y \in Perms \ {t} : y \notin DOMAIN mine[r]
    BY <1>2, <2>1, CommitRows
  <2> QED BY <1>2, <1>3, <2>1, <2>2, CommitNames
<1>7. NameOf' = [NameOf EXCEPT ![t] = n]
  BY <1>2, <1>4 DEF NameOf
<1>8. Grants' = Grants /\ Holds' = Holds
  BY <1>5 DEF Grants, Holds, Join
<1>9. Store!RenamePermission(t, n)
  BY <1>2, <1>3, <1>6, <1>7, <1>8
  DEF Store!RenamePermission, Store!Free, Store!Existing, NameOf, Grants, Holds, Entities
<1> QED BY <1>2, <1>9

LEMMA CommitPermissions ==
  ASSUME Inv, NEW r \in Requests, Commit(r), call[r] = "createPermissions"
  PROVE  \E n \in [Perms -> Names] : Store!CreatePermissions(n)
<1> DEFINE new == DOMAIN put[r]
<1>1. TypeOK /\ Carries(r) /\ Parent(r) /\ Joins(r) /\ at[r] = "commit"
  BY CommitEffect DEF Inv, Local
<1>2. /\ new \subseteq Perms /\ new # {} /\ target[r] = None
      /\ \A p \in new : put[r][p] \in Names /\ put[r][p] # None
  BY <1>1, NoneIsNothing DEF Carries, MayBeAt, Payload, TypeOK
<1>3. PICK p0 \in new : TRUE
  BY <1>2
<1>4. PICK n \in [Perms -> Names] : \A p \in new : n[p] = put[r][p]
  <2> DEFINE some == [p \in Perms |-> IF p \in new THEN put[r][p] ELSE put[r][p0]]
  <2>1. some \in [Perms -> Names] /\ \A p \in new : some[p] = put[r][p]
    BY <1>2, <1>3
  <2> QED BY <2>1
<1>5. \A p \in new : /\ p \in Entities /\ TableOf(p) = Perms /\ db[p] = None
                     /\ p \in DOMAIN mine[r] /\ mine[r][p] = n[p] /\ n[p] # None
  BY <1>1, <1>2, <1>4, TableOfRow DEF Parent, Creates, Before, Entities
<1>6. \A x \in Entities : x \in DOMAIN mine[r] <=> x \in new
  BY <1>2, <1>5, CommitRows, NoneIsNothing DEF Entities
<1>7. \A x \in Entities : db'[x] = IF x \in new THEN n[x] ELSE db[x]
  BY <1>5, <1>6, CommitRows
<1>8. \A j \in Join : db'[j] = db[j]
  BY <1>1, CommitRows DEF Joins
<1>9. \A p \in new : \A y \in Perms \ {p} :
        n[p] # db[y] /\ (y \in new => n[p] # n[y])
  <2> SUFFICES ASSUME NEW p \in new, NEW y \in Perms \ {p}
               PROVE  n[p] # db[y] /\ (y \in new => n[p] # n[y])
    OBVIOUS
  <2>1. n[p] # IF y \in DOMAIN mine[r] THEN mine[r][y] ELSE db[y]
    BY <1>5, CommitNames
  <2>2. y \in Entities
    BY DEF Entities
  <2> QED BY <1>5, <1>6, <2>1, <2>2
<1> HIDE DEF new
<1>10. NameOf' = [x \in Roles \cup Perms \cup Users |-> IF x \in new THEN n[x] ELSE NameOf[x]]
  BY <1>7 DEF NameOf, Entities
<1>11. Grants' = Grants /\ Holds' = Holds
  BY <1>8 DEF Grants, Holds, Join
<1>12. \A p \in new : NameOf[p] = None /\ n[p] # None /\ \A y \in Perms \ {p} : NameOf[y] # n[p]
  BY <1>2, <1>5, <1>9 DEF NameOf, Entities
<1>13. \A p, q \in new : n[p] = n[q] => p = q
  BY <1>2, <1>9
<1>14. Store!CreatePermissions(n)
  <2>1. /\ NameOf' = [x \in Roles \cup Perms \cup Users |->
                          IF x \in new THEN n[x] ELSE NameOf[x]]
        /\ Grants' = Grants /\ Holds' = Holds
        /\ new \in SUBSET Perms /\ new # {}
    BY <1>2, <1>10, <1>11
  <2> QED BY <1>12, <1>13, <2>1
    DEF Store!CreatePermissions, Store!Free, NameOf, Grants, Holds
<1> QED BY <1>4, <1>14

\* A commit that leaves the tables as they are.
LEMMA CommitOfNothing ==
  ASSUME Inv, NEW r \in Requests, Commit(r),
         \A x \in Entities \cup Join : db'[x] = db[x]
  PROVE  UNCHANGED Store!vars
<1>1. NameOf' = NameOf /\ Grants' = Grants /\ Holds' = Holds
  BY DEF NameOf, Grants, Holds, Entities, Join
<1> QED BY <1>1 DEF Store!vars, NameOf, Grants, Holds

\* The row to update or delete was gone: nothing is.
LEMMA CommitWithoutRow ==
  ASSUME Inv, NEW r \in Requests, Commit(r), ~Creates(r), target[r] \notin DOMAIN mine[r]
  PROVE  UNCHANGED Store!vars
<1>1. /\ TypeOK /\ Kinds /\ Anchored(db) /\ Carries(r) /\ Parent(r) /\ Joins(r) /\ Referred(r)
      /\ at[r] = "commit"
  BY CommitEffect DEF Inv, Local
<1>2. Updates(r) \/ Removes(r)
  BY <1>1, Committing DEF Calls, Creates, Updates, Removes
<1>3. CASE Removes(r)
  <2>1. DOMAIN mine[r] = {}
    BY <1>1, <1>3 DEF Parent
  <2> QED BY <2>1, CommitRows, CommitOfNothing
<1>4. CASE Updates(r)
  <2>1. db[target[r]] = None /\ target[r] \notin DOMAIN mine[r]
    BY <1>1, <1>4 DEF Parent, Before
  <2>2. list[r] = {}
    <3>1. list[r] # {} => Sees(r, target[r]) # None
      BY <1>1 DEF Referred
    <3> QED BY <2>1, <3>1 DEF Sees
  <2>3. DOMAIN put[r] \subseteq {target[r]}
    BY <1>1, <1>4 DEF Carries, MayBeAt, Payload, Updates
  <2>4. \A x \in Entities : x \notin DOMAIN mine[r]
    BY <2>1, <2>3, CommitRows
  <2>5. ASSUME NEW j \in Join \cap DOMAIN mine[r] PROVE db[j] = None
    <3>1. call[r] \in {"updateRole", "updateUser"} /\ j \in JoinRows(r)
      BY <1>1, <1>4 DEF Joins, Updates
    <3>2. j[1] = target[r]
      BY <3>1 DEF JoinRows
    <3> QED BY <1>1, <2>1, <3>2 DEF Anchored
  <2>6. \A j \in Join : db'[j] = db[j]
    BY <2>2, <2>5, CommitRows
  <2>7. \A x \in Entities : db'[x] = db[x]
    BY <2>4, CommitRows
  <2> QED BY <2>6, <2>7, CommitOfNothing
<1> QED BY <1>2, <1>3, <1>4

LEMMA CommitRemoval ==
  ASSUME Inv, NEW r \in Requests, Commit(r), Removes(r),
         NEW t, t = target[r], t \in DOMAIN mine[r]
  PROVE  /\ call[r] = "removeRole" => t \in Roles /\ Store!DeleteRole(t)
         /\ call[r] = "removePermission" => t \in Perms /\ Store!DeletePermission(t)
<1>1. TypeOK /\ Carries(r) /\ Parent(r) /\ Joins(r) /\ Cleared(r) /\ at[r] = "commit"
  BY CommitEffect DEF Inv, Local
<1>2. /\ call[r] = "removeRole" => t \in Roles
      /\ call[r] = "removePermission" => t \in Perms
      /\ DOMAIN put[r] = {} /\ list[r] = {} /\ t \in Entities
  BY <1>1 DEF Carries, Payload, Removes, Entities
<1>3. mine[r][t] = None
  BY <1>1 DEF Parent
<1>4. \A x \in Entities : db'[x] = IF x = t THEN None ELSE db[x]
  BY <1>2, <1>3, CommitRows
<1>5. JoinRows(r) \subseteq Join
  <2>1. call[r] \in {"updateRole", "updateUser", "removeRole", "removePermission"}
    BY DEF Removes
  <2> QED BY <1>1, <2>1, RowsOfTarget
<1>6. \A j \in Join : db'[j] = IF j \in JoinRows(r) THEN None ELSE db[j]
  <2>1. ASSUME NEW j \in JoinRows(r) PROVE db'[j] = None
    <3>1. Sees(r, j) = None
      BY <1>1, <1>2 DEF Cleared, NewRows, Removes
    <3>2. j \in Join
      BY <1>5
    <3> QED BY <3>1, <3>2, CommitRows DEF Sees
  <2>2. ASSUME NEW j \in Join, j \notin JoinRows(r) PROVE db'[j] = db[j]
    BY <2>2, CommitRows
  <2> QED BY <2>1, <2>2
<1>7. NameOf' = [NameOf EXCEPT ![t] = None]
  BY <1>2, <1>4 DEF NameOf
<1>8. ASSUME call[r] = "removeRole"
      PROVE  Store!DeleteRole(t)
  <2>1. JoinRows(r) = ({t} \X Perms) \cup (Users \X {t})
    BY <1>8 DEF JoinRows
  <2>2. \A j \in Roles \X Perms : j \in Join /\ (j \in JoinRows(r) <=> j[1] = t)
    BY <1>2, <2>1, RowsOfOneTable DEF Join
  <2>3. \A j \in Users \X Roles : j \in Join /\ (j \in JoinRows(r) <=> j[2] = t)
    BY <1>2, <1>8, <2>1, RowsOfOneTable DEF Join
  <2>4. Grants' = {g \in Grants : g[1] # t}
    BY <1>6, <2>2 DEF Grants
  <2>5. Holds' = {h \in Holds : h[2] # t}
    BY <1>6, <2>3 DEF Holds
  <2> QED BY <1>7, <2>4, <2>5 DEF Store!DeleteRole, NameOf, Grants, Holds
<1>9. ASSUME call[r] = "removePermission"
      PROVE  Store!DeletePermission(t)
  <2>1. JoinRows(r) = Roles \X {t}
    BY <1>9 DEF JoinRows
  <2>2. \A j \in Roles \X Perms : j \in Join /\ (j \in JoinRows(r) <=> j[2] = t)
    BY <1>2, <2>1 DEF Join
  <2>3. \A j \in Users \X Roles : j \in Join /\ j \notin JoinRows(r)
    BY <1>2, <2>1, RowsOfOneTable DEF Join
  <2>4. Grants' = {g \in Grants : g[2] # t}
    BY <1>6, <2>2 DEF Grants
  <2>5. Holds' = Holds
    BY <1>6, <2>3 DEF Holds
  <2> QED BY <1>7, <2>4, <2>5 DEF Store!DeletePermission, NameOf, Grants, Holds
<1> QED BY <1>2, <1>8, <1>9

LEMMA StoreInit ==
  ASSUME Inv
  PROVE  Store!Init
<1>1. Kinds /\ UniqueNames(db) /\ Anchored(db)
  BY DEF Inv
<1>2. NameOf \in [Roles \cup Perms \cup Users -> Names \cup {None}]
  BY <1>1 DEF Kinds, Entities, NameOf
<1>3. ASSUME NEW S \in {Roles, Perms, Users}, NEW x \in S, NEW y \in S, NameOf[x] # None,
             NameOf[x] = NameOf[y]
      PROVE  x = y
  <2>1. y \in TableOf(x)
    BY TableOfRow
  <2> QED BY <1>1, <1>3, <2>1 DEF UniqueNames, NameOf, Entities
<1>4. Grants \subseteq {x \in Roles : NameOf[x] # None} \X {x \in Perms : NameOf[x] # None}
  BY <1>1 DEF Anchored, Grants, NameOf, Join, Entities
<1>5. Holds \subseteq {x \in Users : NameOf[x] # None} \X {x \in Roles : NameOf[x] # None}
  BY <1>1 DEF Anchored, Holds, NameOf, Join, Entities
<1> QED BY <1>2, <1>3, <1>4, <1>5 DEF Store!Init, Store!Existing, NameOf, Grants, Holds

LEMMA StoreStep ==
  ASSUME Inv, [Next]_vars
  PROVE  [Store!Next]_(Store!vars)
<1>1. ASSUME NEW r \in Requests, Uncommitted(r)
      PROVE  UNCHANGED Store!vars
  BY <1>1 DEF Uncommitted, Store!vars
<1>2. ASSUME NEW r \in Requests, Commit(r)
      PROVE  [Store!Next]_(Store!vars)
  <2>1. /\ call[r] \in Calls /\ TypeOK /\ Carries(r) /\ Parent(r) /\ at[r] = "commit"
    BY <1>2, Committing, CommitEffect DEF Inv, Local
  <2> PICK t : t = target[r]
    OBVIOUS
  <2> PICK n, l : n = put[r][t] /\ l = list[r]
    OBVIOUS
  <2>2. CASE call[r] \in {"createRole", "createUser"}
    <3>1. t \in DOMAIN mine[r]
      BY <2>1, <2>2 DEF Carries, MayBeAt, Payload, Parent, Creates, Before
    <3> QED BY <1>2, <2>2, <3>1, CommitRole, CommitUser DEF Store!Next
  <2>3. CASE call[r] = "createPermissions"
    BY <1>2, <2>3, CommitPermissions DEF Store!Next
  <2>4. CASE call[r] = "updateUser" /\ t \in DOMAIN mine[r]
    BY <1>2, <2>4, CommitUser DEF Store!Next
  <2>5. CASE /\ call[r] \notin {"createRole", "createUser", "createPermissions"}
             /\ t \notin DOMAIN mine[r]
    BY <1>2, <2>5, CommitWithoutRow DEF Creates
  <2>6. CASE call[r] = "updateRole" /\ t \in DOMAIN mine[r]
    BY <1>2, <2>6, CommitRole DEF Store!Next
  <2>7. CASE call[r] = "updatePermission" /\ t \in DOMAIN mine[r]
    BY <1>2, <2>7, CommitPermission DEF Store!Next
  <2>8. CASE call[r] = "removeRole" /\ t \in DOMAIN mine[r]
    BY <1>2, <2>8, CommitRemoval DEF Removes, Store!Next
  <2>9. CASE call[r] = "removePermission" /\ t \in DOMAIN mine[r]
    BY <1>2, <2>9, CommitRemoval DEF Removes, Store!Next
  <2> QED BY <2>1, <2>2, <2>3, <2>4, <2>5, <2>6, <2>7, <2>8, <2>9 DEF Calls
<1>3. CASE UNCHANGED vars
  BY <1>3 DEF vars, Store!vars
<1> QED BY <1>1, <1>2, <1>3, StepKinds DEF Next

(***************************************************************************)
(* Each request takes effect as a whole and at one moment, its commit, or  *)
(* not at all: the statements of role.repository.ts and its callers, in    *)
(* any interleaving, implement RoleStore, so that two updates of one role  *)
(* never leave a mixture of their lists.                                   *)
(***************************************************************************)
THEOREM StoreImplemented == Spec => ImplementsRoleStore
<1>1. Init => Store!Init
  BY InitInv, StoreInit
<1>2. Inv /\ [Next]_vars => [Store!Next]_(Store!vars)
  BY StoreStep
<1> QED BY <1>1, <1>2, Invariance, PTL DEF Spec, ImplementsRoleStore, Store!Spec

-----------------------------------------------------------------------------
(***************************************************************************)
(* The order in which a request locks its rows: none of the rows it has    *)
(* still to insert is locked, and an update that lacks its parent row has  *)
(* locked nothing before the join rows it inserts.                         *)
(***************************************************************************)
Early(r) ==
  /\ at[r] = "insert" => left[r] \cap DOMAIN mine[r] = {}
  /\ Updates(r) /\ at[r] \notin {"refer", "commit"} /\ target[r] \notin DOMAIN mine[r] =>
       DOMAIN mine[r] = {} /\ at[r] # "remove"

OrderInv == Inv /\ \A r \in Requests : Early(r)

LEMMA EarlyKept ==
  ASSUME NEW q, Early(q), Untouched(q)
  PROVE  Early(q)'
BY DEF Early, Untouched, Updates

\* A request that has written nothing, and is not about to delete join rows.
LEMMA EarlyEmpty ==
  ASSUME NEW r, DOMAIN mine'[r] = {}, at'[r] # "remove"
  PROVE  Early(r)'
BY DEF Early

\* A step that leaves the written rows, to another place than "insert".
LEMMA EarlyMoved ==
  ASSUME NEW r \in Requests, Early(r), at[r] \notin {"refer", "commit"},
         mine' = mine, UNCHANGED request, at'[r] \notin {"insert", "remove"}
  PROVE  Early(r)'
BY DEF Early, request, Updates

LEMMA EarlyRolledBack ==
  ASSUME Inv, NEW r \in Requests, NEW answer \in Answers, RollBack(r, answer)
  PROVE  Early(r)'
<1>1. DOMAIN mine'[r] = {} /\ at'[r] \in Answers
  BY ReleaseEffect DEF Inv, RollBack
<1> QED BY <1>1, EarlyEmpty DEF Answers

LEMMA EarlyCalled ==
  ASSUME Inv, NEW r \in Requests, Calling(r)
  PROVE  Early(r)'
<1>1. TypeOK /\ Parent(r)
  BY DEF Inv, Local
<1>2. ASSUME NEW what, NEW place, NEW x, NEW names, NEW items,
             Arrive(r, what, place, x, names, items), place # "remove"
      PROVE  Early(r)'
  <2>1. at[r] = "idle" /\ mine' = mine /\ at'[r] = place
    BY <1>1, <1>2, ArriveEffect DEF Arrive
  <2>2. DOMAIN mine'[r] = {}
    BY <1>1, <2>1 DEF Parent, Before
  <2> QED BY <1>2, <2>1, <2>2, EarlyEmpty
<1>3. ASSUME NEW role, NEW n, NEW items,
             CreateRole(r, role, n, items) \/ UpdateRole(r, role, n, items)
      PROVE  Early(r)'
  BY <1>2, <1>3 DEF CreateRole, UpdateRole
<1>6. ASSUME NEW u, NEW n, NEW items, CreateUser(r, u, n, items) \/ UpdateUser(r, u, n, items)
      PROVE  Early(r)'
  BY <1>2, <1>6 DEF CreateUser, UpdateUser
<1>4. ASSUME NEW x, NEW n,
             RemoveRole(r, x) \/ RemovePermission(r, x) \/ UpdatePermission(r, x, n)
      PROVE  Early(r)'
  BY <1>2, <1>4 DEF RemoveRole, RemovePermission, UpdatePermission
<1>5. ASSUME NEW new, NEW names, CreatePermissions(r, new, names)
      PROVE  Early(r)'
  BY <1>2, <1>5 DEF CreatePermissions
<1> QED BY <1>3, <1>4, <1>5, <1>6 DEF Calling

LEMMA EarlyChecked ==
  ASSUME OrderInv, NEW r \in Requests,
         CheckName(r) \/ CheckList(r) \/ FindExistingByNames(r)
  PROVE  Early(r)'
<1>1. Inv /\ TypeOK /\ Parent(r)
  BY DEF OrderInv, Inv, Local
<1>2. ASSUME NEW place, NEW passes, NEW next, Check(r, place, passes, next),
             place \in Before, next # "remove"
      PROVE  Early(r)'
  <2>1. at[r] \in Before
    BY <1>2 DEF Check
  <2>2. DOMAIN mine[r] = {}
    BY <1>1, <2>1 DEF Parent
  <2>3. CASE RollBack(r, "rejected")
    BY <1>1, <2>3, EarlyRolledBack DEF Answers
  <2>4. CASE Goto(r, next) /\ mine' = mine
    <3>1. at'[r] = next
      BY <1>1, <2>4 DEF Goto, TypeOK
    <3> QED BY <1>2, <2>2, <2>4, <3>1, EarlyEmpty
  <2> QED BY <1>2, <2>3, <2>4 DEF Check, RollBack
<1>3. CASE CheckName(r)
  BY <1>2, <1>3 DEF CheckName, Before
<1>4. CASE CheckList(r)
  BY <1>2, <1>4 DEF CheckList, Before
<1>5. CASE FindExistingByNames(r)
  BY <1>2, <1>5 DEF FindExistingByNames, Before
<1> QED BY <1>3, <1>4, <1>5

LEMMA EarlyInserted ==
  ASSUME OrderInv, NEW r \in Requests, NEW x, Insert(r, x)
  PROVE  Early(r)'
<1>1. Inv /\ TypeOK /\ Carries(r) /\ Early(r)
  BY DEF OrderInv, Inv, Local
<1>2. CASE RollBack(r, "nameConflict")
  BY <1>1, <1>2, EarlyRolledBack DEF Answers
<1>3. CASE /\ Write(r, x, put[r][x]) /\ Processed(r, x, AfterRows(r))
           /\ UNCHANGED request
  <2>1. at[r] = "insert"
    BY Waits DEF Insert
  <2>2. AfterRows(r) \in {"commit", "grant"}
    BY DEF AfterRows
  <2>3. /\ DOMAIN mine'[r] = DOMAIN mine[r] \cup {x} /\ left'[r] = left[r] \ {x}
        /\ at'[r] \in {"insert", "commit", "grant"}
    BY <1>1, <1>3, <2>1, <2>2, WriteEffect, ProcessedEffect DEF Written
  <2>4. left[r] \cap DOMAIN mine[r] = {}
    BY <1>1, <2>1 DEF Early
  <2>5. ~Updates(r)'
    BY <1>1, <1>3, <2>1 DEF Carries, MayBeAt, Payload, Updates, request, Assigns
  <2> QED BY <2>3, <2>4, <2>5 DEF Early
<1> QED BY <1>2, <1>3 DEF Insert

LEMMA EarlyRewritten ==
  ASSUME OrderInv, NEW r \in Requests, Rewrite(r)
  PROVE  Early(r)'
<1>1. Inv /\ TypeOK /\ Parent(r)
  BY DEF OrderInv, Inv, Local
<1>2. at[r] = "rewrite" /\ UNCHANGED request
  BY Waits DEF Rewrite
<1>3. DOMAIN mine[r] = {}
  BY <1>1, <1>2 DEF Parent
<1>4. AfterUpdate(r) \in {"commit", "scan"}
  BY DEF AfterUpdate
<1>5. at'[r] \in {"commit", "scan", "enter"}
  BY <1>1, <1>4 DEF Rewrite, Goto, TypeOK
<1>6. CASE mine' = mine
  BY <1>3, <1>5, <1>6, EarlyEmpty
<1>7. ASSUME NEW v, Write(r, target[r], v)
      PROVE  Early(r)'
  <2>1. target'[r] \in DOMAIN mine'[r]
    BY <1>1, <1>2, <1>7, WriteEffect DEF Written, request
  <2> QED BY <1>5, <2>1 DEF Early
<1> QED BY <1>6, <1>7 DEF Rewrite

\* The index entry, the deletion, and the snapshot of the join rows.
LEMMA EarlyOthers ==
  ASSUME OrderInv, NEW r \in Requests, Enter(r) \/ Strike(r) \/ Scan(r)
  PROVE  Early(r)'
<1>1. Inv /\ TypeOK /\ Carries(r) /\ Parent(r) /\ Kinds /\ Anchored(db) /\ Early(r)
  BY DEF OrderInv, Inv, Local
<1>2. CASE Enter(r)
  <2>1. CASE RollBack(r, "nameConflict")
    BY <1>1, <2>1, EarlyRolledBack DEF Answers
  <2>2. CASE Goto(r, AfterUpdate(r)) /\ mine' = mine /\ UNCHANGED request
    <3>1. at[r] = "enter" /\ at'[r] \in {"commit", "scan"}
      BY <1>1, <1>2, <2>2, Waits DEF Enter, Goto, TypeOK, AfterUpdate
    <3> QED BY <1>1, <2>2, <3>1, EarlyMoved
  <2> QED BY <1>2, <2>1, <2>2 DEF Enter
<1>3. CASE Strike(r)
  <2>1. at[r] = "strike" /\ UNCHANGED request /\ at'[r] \in {"commit", "scan"}
    BY <1>1, <1>3, Waits DEF Strike, Goto, TypeOK
  <2>2. ~Updates(r)'
    BY <1>1, <2>1 DEF Carries, MayBeAt, Payload, Updates, request, Assigns
  <2> QED BY <2>1, <2>2 DEF Early
<1>4. CASE Scan(r)
  <2> DEFINE found == {j \in JoinRows(r) : Sees(r, j) # None}
  <2>1. at[r] = "scan" /\ mine' = mine /\ UNCHANGED request
    BY <1>4 DEF Scan
  <2>2. at'[r] = IF found = {} THEN AfterRows(r) ELSE "remove"
    BY <1>1, <1>4 DEF Scan, Goto, TypeOK
  <2>3. at'[r] \in {"remove", "commit", "grant"}
    BY <2>2 DEF AfterRows
  <2>4. CASE Updates(r) /\ target[r] \notin DOMAIN mine[r]
    <3>1. DOMAIN mine[r] = {} /\ db[target[r]] = None
      BY <1>1, <2>1, <2>4 DEF Early, Parent, Before
    <3>2. call[r] \in {"updateRole", "updateUser"}
      BY <1>1, <2>1, <2>4 DEF Carries, MayBeAt, Payload, Updates, Assigns
    <3>3. \A j \in JoinRows(r) : j \in Join /\ j[1] = target[r]
      BY <1>1, <2>4, <3>2, RowsOfTarget
    <3>4. \A j \in JoinRows(r) : db[j] = None
      BY <1>1, <3>1, <3>3 DEF Anchored
    <3>5. found = {}
      BY <3>1, <3>4 DEF Sees
    <3>6. at'[r] # "remove"
      BY <2>2, <3>5 DEF AfterRows
    <3> QED BY <2>1, <3>1, <3>6, EarlyEmpty
  <2>5. CASE ~Updates(r) \/ target[r] \in DOMAIN mine[r]
    BY <2>1, <2>3, <2>5 DEF Early, Updates, request
  <2> QED BY <2>4, <2>5
<1> QED BY <1>2, <1>3, <1>4

LEMMA EarlyRemoved ==
  ASSUME OrderInv, NEW r \in Requests, NEW j, Remove(r, j)
  PROVE  Early(r)'
<1>1. Inv /\ TypeOK /\ Early(r)
  BY DEF OrderInv, Inv, Local
<1>2. at[r] = "remove" /\ UNCHANGED request /\ Processed(r, j, AfterRows(r))
  BY Waits DEF Remove
<1>3. at'[r] \in {"remove", "commit", "grant"}
  BY <1>1, <1>2, ProcessedEffect DEF AfterRows
<1>4. DOMAIN mine[r] \subseteq DOMAIN mine'[r]
  BY <1>1, WriteEffect DEF Remove, Written
<1>5. ~Updates(r) \/ target[r] \in DOMAIN mine[r]
  BY <1>1, <1>2 DEF Early
<1> QED BY <1>2, <1>3, <1>4, <1>5 DEF Early, Updates, request

LEMMA EarlyGranted ==
  ASSUME OrderInv, NEW r \in Requests, NEW x, Grant(r) \/ Refer(r, x)
  PROVE  Early(r)'
<1>1. Inv /\ TypeOK
  BY DEF OrderInv, Inv
<1>2. CASE RollBack(r, "serverError")
  BY <1>1, <1>2, EarlyRolledBack DEF Answers
<1>3. CASE Goto(r, "refer")
  <2>1. at'[r] = "refer"
    BY <1>1, <1>3 DEF Goto, TypeOK
  <2> QED BY <2>1 DEF Early
<1>4. CASE Refer(r, x) /\ Processed(r, x, "commit")
  <2>1. at'[r] \in {"refer", "commit"}
    BY <1>1, <1>4, Waits, ProcessedEffect DEF Refer
  <2> QED BY <2>1 DEF Early
<1> QED BY <1>2, <1>3, <1>4 DEF Grant, Refer

LEMMA OrderStep ==
  ASSUME OrderInv, [Next]_vars
  PROVE  OrderInv'
<1>1. Inv /\ Inv'
  BY NextInv DEF OrderInv
<1>2. ASSUME NEW r \in Requests, Calling(r) \/ Step(r) \/ AbortVictim(r) \/ Crash(r)
      PROVE  \A q \in Requests : Early(q)'
  <2>1. \A q \in Others(r) : Untouched(q)
    <3>1. CASE Uncommitted(r)
      BY <3>1 DEF Uncommitted
    <3>2. CASE Commit(r)
      BY <1>1, <3>2, CommitEffect, ReleaseEffect DEF Inv, Answers
    <3> QED BY <1>1, <1>2, <3>1, <3>2, StepKinds
  <2>2. Early(r)'
    <3>1. CASE Calling(r)
      BY <1>1, <3>1, EarlyCalled
    <3>2. CASE Commit(r)
      <4>1. DOMAIN mine'[r] = {} /\ at'[r] = "done"
        BY <1>1, <3>2, CommitEffect, ReleaseEffect DEF Inv, Answers
      <4> QED BY <4>1, EarlyEmpty
    <3>3. CASE AbortVictim(r) \/ Crash(r)
      BY <1>1, <3>3, EarlyRolledBack DEF AbortVictim, Crash, Answers
    <3>4. CASE Step(r) /\ ~Commit(r)
      BY <3>4, EarlyChecked, EarlyInserted, EarlyRewritten, EarlyOthers, EarlyRemoved,
         EarlyGranted DEF Step
    <3> QED BY <1>2, <3>1, <3>2, <3>3, <3>4
  <2>3. ASSUME NEW q \in Requests PROVE Early(q)'
    <3>1. CASE q = r
      BY <2>2, <3>1
    <3>2. CASE q # r
      BY <2>1, <3>2, EarlyKept DEF OrderInv, Others
    <3> QED BY <3>1, <3>2
  <2> QED BY <2>3
<1>3. CASE UNCHANGED vars
  <2>1. ASSUME NEW q \in Requests PROVE Early(q)'
    BY <1>3, EarlyKept DEF vars, Untouched, OrderInv
  <2> QED BY <1>1, <2>1 DEF OrderInv
<1> QED BY <1>1, <1>2, <1>3 DEF Next, OrderInv

(***************************************************************************)
(* Each transaction locks its parent row before its join rows, and what it *)
(* is still to insert it has not locked.                                   *)
(***************************************************************************)
THEOREM LocksInOrder == Spec => []OrderInv
<1>1. Init => OrderInv
  <2>1. ASSUME Init, NEW r \in Requests PROVE Early(r)
    BY <2>1 DEF Init, Early, Nothing
  <2> QED BY <2>1, InitInv DEF OrderInv
<1>2. OrderInv /\ [Next]_vars => OrderInv'
  BY OrderStep
<1> QED BY <1>1, <1>2, PTL DEF Spec

-----------------------------------------------------------------------------
(***************************************************************************)
(* Deadlocks.  Who can be waited for, among requests that wait for each    *)
(* other and of which none deletes a role or a permission and at most one  *)
(* names permissions.                                                      *)
(***************************************************************************)
Circle(D) ==
  /\ D \in SUBSET Requests /\ Deadlocked(D)
  /\ \A r \in D : ~Removes(r)
  /\ \A r \in D : \A q \in D \ {r} : ~(NamesPermissions(r) /\ NamesPermissions(q))

\* Where a request of a deadlock is, and that it waits for another one.
LEMMA CircleWaits ==
  ASSUME OrderInv, NEW D, Circle(D), NEW r \in D
  PROVE  /\ r \in Requests /\ Candidates(r) # {}
         /\ call[r] \in Calls \ {"removeRole", "removePermission"}
         /\ at[r] \in {"insert", "rewrite", "enter", "remove", "grant", "refer"}
         /\ \A x \in Candidates(r) : \E q \in D \ {r} : q \in BlockedOn(r, x)
<1>1. /\ D \in SUBSET Requests /\ r \in Requests /\ TypeOK /\ Carries(r)
      /\ Candidates(r) # {} /\ ~Removes(r)
      /\ \A x \in Candidates(r) : BlockedOn(r, x) \cap D # {}
  BY DEF Circle, Deadlocked, OrderInv, Inv, Local
<1>2. at[r] \in {"insert", "rewrite", "enter", "strike", "remove", "grant", "refer"}
  BY <1>1 DEF Candidates
<1>3. call[r] \in Calls /\ at[r] # "strike"
  BY <1>1, <1>2 DEF TypeOK, Carries, MayBeAt, Payload, Calls, Answers, Removes, Assigns
<1>4. \A x : r \notin BlockedOn(r, x)
  BY DEF BlockedOn, Others, NameWriters, Writers, Sharers
<1> QED BY <1>1, <1>2, <1>3, <1>4 DEF Removes

\* Who has written a row that has a name.
LEMMA EntityWriters ==
  ASSUME OrderInv, NEW q \in Requests, NEW y \in Entities, y \in DOMAIN mine[q], ~Removes(q)
  PROVE  /\ at[q] \notin {"rewrite"} \cup Before
         /\ y \in Perms => NamesPermissions(q)
         /\ y \in Roles => call[q] \in {"createRole", "updateRole"} /\ y = target[q]
         /\ y \in Users => call[q] \in {"createUser", "updateUser"} /\ y = target[q]
<1>1. TypeOK /\ Carries(q) /\ Parent(q) /\ Early(q)
  BY DEF OrderInv, Inv, Local
<1>2. at[q] \notin {"rewrite"} \cup Before \cup Answers
  BY <1>1 DEF Parent
<1>3. y \in DOMAIN put[q] \cup {target[q]} /\ y # None
  BY <1>1, RowsOfOneTable, NoneIsNothing DEF Parent, Entities
<1>4. call[q] \in Calls
  BY <1>1, <1>2 DEF TypeOK, Carries, MayBeAt, Payload, Before
<1>5. CASE call[q] \in {"createRole", "updateRole"}
  BY <1>1, <1>2, <1>3, <1>5, RowsOfOneTable DEF Carries, MayBeAt, Payload
<1>6. CASE NamesPermissions(q)
  BY <1>1, <1>2, <1>3, <1>6, RowsOfOneTable DEF Carries, MayBeAt, Payload, NamesPermissions
<1>7. CASE call[q] \in {"createUser", "updateUser"}
  BY <1>1, <1>2, <1>3, <1>7, RowsOfOneTable DEF Carries, MayBeAt, Payload
<1> QED BY <1>4, <1>5, <1>6, <1>7 DEF Calls, NamesPermissions, Removes

\* Nobody waits for the name of a permission.
LEMMA NoPermissionName ==
  ASSUME OrderInv, NEW D, Circle(D), NEW r \in D, NamesPermissions(r)
  PROVE  call[r] = "updatePermission" /\ at[r] = "rewrite"
<1>1. /\ r \in Requests /\ Candidates(r) # {} /\ TypeOK /\ Carries(r) /\ Parent(r)
      /\ at[r] \in {"insert", "rewrite", "enter", "remove", "grant", "refer"}
  BY CircleWaits DEF OrderInv, Inv, Local
<1>2. ASSUME at[r] \in {"insert", "enter"}
      PROVE  FALSE
  <2>1. PICK x \in Candidates(r) : TRUE
    BY <1>1
  <2>2. x \in Perms
    BY <1>1, <1>2, <2>1 DEF Candidates, NamesPermissions, Carries, MayBeAt, Payload, Parent, Creates
  <2>3. PICK q \in D \ {r} : q \in NameWriters(r, x)
    BY <1>2, <2>1, CircleWaits DEF BlockedOn
  <2>4. PICK y \in TableOf(x) : y \in DOMAIN mine[q]
    BY <2>3 DEF NameWriters, ChangesKey
  <2>5. y \in Perms /\ q \in Requests /\ ~Removes(q)
    BY <2>2, <2>3, <2>4, TableOfRow DEF Circle
  <2>6. NamesPermissions(q)
    BY <2>4, <2>5, EntityWriters DEF Entities
  <2> QED BY <2>6 DEF Circle
<1> QED BY <1>1, <1>2 DEF Carries, MayBeAt, Payload, NamesPermissions, Assigns

\* Nobody waits for a foreign key on a permission.
LEMMA NoPermissionKey ==
  ASSUME OrderInv, NEW D, Circle(D), NEW r \in D, at[r] = "refer"
  PROVE  call[r] \in {"createUser", "updateUser"}
<1>1. r \in Requests /\ Candidates(r) # {} /\ TypeOK /\ Carries(r) /\ Referred(r)
  BY CircleWaits DEF OrderInv, Inv, Local
<1>2. call[r] \in {"createRole", "createUser", "updateRole", "updateUser"}
  BY <1>1, Granting
<1>3. ASSUME call[r] \notin {"createUser", "updateUser"}
      PROVE  FALSE
  <2>1. PICK x \in Candidates(r) : TRUE
    BY <1>1
  <2>2. x \in Perms
    BY <1>1, <1>2, <1>3, <2>1 DEF Candidates, Carries, MayBeAt, Payload, Referred
  <2>3. PICK q \in D : x \in DOMAIN mine[q]
    BY <2>1, CircleWaits DEF BlockedOn, ChangesKey
  <2>4. q \in Requests /\ ~Removes(q)
    BY DEF Circle
  <2>5. NamesPermissions(q) /\ at[q] # "rewrite"
    BY <2>2, <2>3, <2>4, EntityWriters DEF Entities
  <2> QED BY <2>5, NoPermissionName
<1> QED BY <1>2, <1>3

\* So nobody of a deadlock names permissions.
LEMMA NoPermission ==
  ASSUME OrderInv, NEW D, Circle(D), NEW r \in D
  PROVE  call[r] \in {"createRole", "createUser", "updateRole", "updateUser"}
<1>1. /\ r \in Requests /\ TypeOK /\ Carries(r)
      /\ call[r] \in Calls \ {"removeRole", "removePermission"}
  BY CircleWaits DEF OrderInv, Inv, Local
<1>2. ASSUME NamesPermissions(r)
      PROVE  FALSE
  <2>1. call[r] = "updatePermission" /\ at[r] = "rewrite"
    BY <1>2, NoPermissionName
  <2>2. target[r] \in Perms /\ target[r] \in Candidates(r)
    BY <1>1, <2>1 DEF Carries, MayBeAt, Payload, Candidates
  <2>3. PICK q \in D \ {r} : q \in BlockedOn(r, target[r])
    BY <2>2, CircleWaits
  <2>4. q \in Requests /\ ~Removes(q) /\ ~NamesPermissions(q)
    BY <1>2 DEF Circle
  <2>5. target[r] \notin DOMAIN mine[q]
    BY <2>2, <2>4, EntityWriters DEF Entities
  <2>6. target[r] \in shared[q]
    BY <2>1, <2>3, <2>5 DEF BlockedOn, Writers, Sharers
  <2>7. TypeOK /\ Carries(q) /\ Referred(q)
    BY <2>4 DEF OrderInv, Inv, Local
  <2>8. target[r] \in list[q] /\ at[q] \in {"refer", "commit"}
    BY <2>6, <2>7 DEF Referred
  <2>9. call[q] \notin {"createUser", "updateUser"}
    BY <2>2, <2>7, <2>8, RowsOfOneTable DEF Carries, MayBeAt, Payload
  <2>10. at[q] = "refer"
    BY <2>8, CircleWaits
  <2> QED BY <2>9, <2>10, NoPermissionKey
<1> QED BY <1>1, <1>2 DEF Calls, NamesPermissions

\* A member that has written a role or a user waits to enter its new name there,
\* or has written a user and waits for a foreign key.
LEMMA RowWriter ==
  ASSUME OrderInv, NEW D, Circle(D), NEW q \in D, NEW y \in Entities, y \in DOMAIN mine[q],
         at[q] \notin {"remove", "grant"}
  PROVE  /\ y = target[q] /\ y \in Roles \cup Users
         /\ \/ at[q] = "enter" /\ call[q] = IF y \in Roles THEN "updateRole" ELSE "updateUser"
            \/ at[q] = "refer" /\ y \in Users
<1>1. /\ q \in Requests /\ Candidates(q) # {} /\ TypeOK /\ Carries(q) /\ Parent(q) /\ Early(q)
      /\ ~Removes(q) /\ at[q] \in {"insert", "rewrite", "enter", "remove", "grant", "refer"}
  BY CircleWaits DEF OrderInv, Inv, Local, Circle
<1>2. /\ at[q] # "rewrite" /\ y = target[q]
      /\ \/ y \in Roles /\ call[q] \in {"createRole", "updateRole"}
         \/ y \in Users /\ y \notin Roles /\ call[q] \in {"createUser", "updateUser"}
  <2>1. ~NamesPermissions(q)
    BY NoPermission DEF NamesPermissions
  <2> QED BY <1>1, <2>1, EntityWriters, RowsOfOneTable DEF Entities
<1>3. at[q] = "refer" => y \in Users
  BY <1>2, NoPermissionKey
<1>4. ASSUME at[q] = "insert"
      PROVE  FALSE
  <2>1. call[q] \in {"createRole", "createUser"} /\ DOMAIN put[q] = {y}
    BY <1>1, <1>2, <1>4 DEF Carries, MayBeAt, Payload, Assigns
  <2>2. left[q] \subseteq {y} /\ left[q] # {}
    BY <1>1, <1>4, <2>1 DEF Parent, Creates, Candidates
  <2> QED BY <1>1, <1>4, <2>2 DEF Early
<1>5. at[q] \in {"enter", "refer"}
  BY <1>1, <1>2, <1>4
<1>6. at[q] = "enter" => call[q] \in {"updateRole", "updateUser"}
  BY <1>1, <1>2 DEF Carries, MayBeAt, Payload, Assigns
<1> QED BY <1>2, <1>3, <1>5, <1>6

\* A member that has written join rows holds its parent row.
LEMMA JoinWriter ==
  ASSUME OrderInv, NEW D, Circle(D), NEW q \in D, NEW j \in Join, j \in DOMAIN mine[q]
  PROVE  /\ j[1] = target[q] /\ (Creates(q) \/ Updates(q))
         /\ Creates(q) => target[q] \in DOMAIN put[q]
         /\ Updates(q) => target[q] \in DOMAIN mine[q]
<1>1. /\ q \in Requests /\ TypeOK /\ Kinds /\ Carries(q) /\ Parent(q) /\ Joins(q) /\ Early(q)
      /\ at[q] \in {"insert", "rewrite", "enter", "remove", "grant", "refer"}
  BY CircleWaits DEF OrderInv, Inv, Local
<1>2. call[q] \in {"createRole", "createUser", "updateRole", "updateUser"}
  BY NoPermission
<1>3. CASE call[q] \in {"createRole", "createUser"}
  BY <1>1, <1>3 DEF Joins, Creates, Updates, Carries, MayBeAt, Payload
<1>4. CASE call[q] \in {"updateRole", "updateUser"}
  <2>1. j[1] = target[q] /\ Updates(q)
    <3>1. j \in JoinRows(q)
      BY <1>1 DEF Joins
    <3> QED BY <1>4, <3>1 DEF JoinRows, Updates
  <2>2. target[q] \in DOMAIN mine[q]
    <3>1. CASE call[q] = "updateRole"
      <4>1. at[q] \notin {"refer", "commit"}
        BY <1>1, <3>1, NoPermissionKey
      <4> QED BY <1>1, <2>1, <4>1 DEF Early
    <3>2. CASE call[q] = "updateUser"
      <4>1. at[q] \notin Before \cup {"rewrite"}
        BY <1>1 DEF Parent, Before
      <4> QED BY <1>1, <2>1, <3>2, <4>1 DEF Parent
    <3> QED BY <1>4, <3>1, <3>2
  <2> QED BY <1>4, <2>1, <2>2 DEF Creates
<1> QED BY <1>2, <1>3, <1>4

\* Nobody waits for join rows: whoever has written them holds the parent row.
LEMMA NoJoinRow ==
  ASSUME OrderInv, NEW D, Circle(D), NEW r \in D
  PROVE  at[r] \notin {"remove", "grant"}
<1>1. /\ r \in Requests /\ Candidates(r) # {} /\ TypeOK /\ Kinds /\ Carries(r) /\ Parent(r)
      /\ Joins(r) /\ Early(r)
  BY CircleWaits DEF OrderInv, Inv, Local
<1>2. call[r] \in {"createRole", "createUser", "updateRole", "updateUser"}
  BY NoPermission
<1>3. ASSUME NEW q \in D \ {r}, NEW j \in Join, j \in DOMAIN mine[q], j[1] = target[r],
             at[r] \in {"remove", "grant"}
      PROVE  FALSE
  <2>1. q \in Others(r) /\ r \in Others(q) /\ q \in Requests
    BY <1>1 DEF Others, Circle
  <2>2. Apart(q, r) /\ Apart(r, q) /\ Parent(q)
    BY <1>1, <2>1 DEF OrderInv, Inv, Local
  <2>3. /\ target[q] = target[r] /\ (Creates(q) \/ Updates(q))
        /\ Creates(q) => target[q] \in DOMAIN put[q]
        /\ Updates(q) => target[q] \in DOMAIN mine[q]
    BY <1>3, JoinWriter
  <2>4. CASE call[r] \in {"createRole", "createUser"}
    <3>1. target[r] \in DOMAIN put[r] /\ Creates(r)
      BY <1>1, <2>4 DEF Carries, MayBeAt, Payload, Creates
    <3> QED BY <2>2, <2>3, <3>1 DEF Apart, IdsApart
  <2>5. CASE call[r] \in {"updateRole", "updateUser"}
    <3>1. Updates(r)
      BY <2>5 DEF Updates
    <3>2. Updates(q)
      BY <2>2, <2>3, <3>1 DEF Apart, IdsApart
    <3>3. target[r] \notin DOMAIN mine[r]
      BY <2>2, <2>3, <3>2 DEF Apart, LocksApart
    <3>4. db[target[r]] = None
      BY <1>1, <1>3, <3>1, <3>3 DEF Parent, Before
    <3> QED BY <2>2, <2>3, <3>2, <3>4 DEF Parent
  <2> QED BY <1>2, <2>4, <2>5
<1>4. CASE at[r] = "remove"
  <2>1. PICK j \in left[r] : j \in Candidates(r)
    BY <1>1, <1>4 DEF Candidates
  <2>2. PICK q \in D \ {r} : j \in DOMAIN mine[q]
    BY <1>4, <2>1, CircleWaits DEF BlockedOn, Writers
  <2>3. call[r] \in {"updateRole", "updateUser"}
    BY <1>1, <1>2, <1>4 DEF Carries, MayBeAt, Payload, Assigns
  <2>4. j \in Join /\ j[1] = target[r]
    BY <1>1, <1>4, <2>1, <2>3, RowsOfTarget DEF Joins, Updates
  <2> QED BY <1>3, <1>4, <2>2, <2>4
<1>5. CASE at[r] = "grant"
  <2>1. target[r] \in Candidates(r)
    BY <1>5 DEF Candidates
  <2>2. PICK q \in D \ {r} : q \in UNION {Writers(r, <<target[r], y>>) : y \in list[r]}
    BY <1>5, <2>1, CircleWaits DEF BlockedOn
  <2>3. PICK y \in list[r] : <<target[r], y>> \in DOMAIN mine[q]
    BY <2>2 DEF Writers
  <2>4. <<target[r], y>> \in Join
    BY <1>1, <1>5, Granting
  <2> QED BY <1>3, <1>5, <2>3, <2>4
<1> QED BY <1>4, <1>5

\* Who waits for a foreign key waits for the new name of a role.
LEMMA KeyWaiters ==
  ASSUME OrderInv, NEW D, Circle(D), NEW r \in D, at[r] = "refer"
  PROVE  \E q \in D : at[q] = "enter" /\ call[q] = "updateRole"
<1>1. PICK x \in Candidates(r) : TRUE
  BY CircleWaits
<1>2. /\ r \in Requests /\ call[r] \in {"createUser", "updateUser"}
      /\ Carries(r) /\ Referred(r)
  BY CircleWaits, NoPermissionKey DEF OrderInv, Inv, Local
<1>3. x \in Roles
  BY <1>1, <1>2 DEF Candidates, Carries, MayBeAt, Payload, Referred
<1>4. PICK q \in D : x \in DOMAIN mine[q]
  BY <1>1, CircleWaits DEF BlockedOn, ChangesKey
<1>5. at[q] \notin {"remove", "grant"} /\ x \in Entities /\ x \notin Users
  BY <1>3, NoJoinRow, RowsOfOneTable DEF Entities
<1>6. at[q] = "enter" /\ call[q] = "updateRole"
  BY <1>3, <1>4, <1>5, RowWriter
<1> QED BY <1>6

\* Some member waits to enter a name: that of a role, or nobody waits for a key.
LEMMA SomeoneEnters ==
  ASSUME OrderInv, NEW D, Circle(D), D # {}
  PROVE  \E r \in D : /\ at[r] = "enter"
                      /\ (call[r] = "updateRole" \/ \A q \in D : at[q] # "refer")
<1>1. CASE \E r \in D : at[r] = "refer"
  BY <1>1, KeyWaiters
<1>2. CASE \A r \in D : at[r] # "refer"
  <2>1. ASSUME NEW q \in D, NEW y \in Entities, y \in DOMAIN mine[q]
        PROVE  at[q] = "enter"
    BY <1>2, <2>1, NoJoinRow, RowWriter
  <2>2. PICK r \in D : TRUE
    OBVIOUS
  <2> PICK t : t = target[r]
    OBVIOUS
  <2>3. /\ r \in Requests /\ Carries(r) /\ Parent(r)
        /\ call[r] \in {"createRole", "createUser", "updateRole", "updateUser"}
        /\ at[r] \in {"insert", "rewrite", "enter"}
    BY <1>2, CircleWaits, NoJoinRow, NoPermission DEF OrderInv, Inv, Local
  <2>4. CASE at[r] = "insert"
    <3>1. PICK x \in Candidates(r) : TRUE
      BY CircleWaits
    <3>2. call[r] \in {"createRole", "createUser"}
      BY <2>3, <2>4 DEF Carries, MayBeAt, Payload, Assigns
    <3>3. x \in Entities
      BY <2>3, <2>4, <3>1, <3>2 DEF Candidates, Carries, MayBeAt, Payload, Parent, Creates, Entities
    <3>4. PICK q \in D, y \in TableOf(x) : y \in DOMAIN mine[q]
      BY <2>4, <3>1, CircleWaits DEF BlockedOn, NameWriters, ChangesKey
    <3>5. y \in Entities
      BY <3>3, TableOfOther
    <3> QED BY <1>2, <2>1, <3>4, <3>5
  <2>5. CASE at[r] = "rewrite"
    <3>1. t \in Candidates(r)
      BY <2>5 DEF Candidates
    <3>2. t \in Entities
      BY <2>3 DEF Carries, MayBeAt, Payload, Entities
    <3>3. PICK q \in D \ {r} : q \in BlockedOn(r, t)
      BY <3>1, CircleWaits
    <3>4. q \in Requests /\ Referred(q)
      BY CircleWaits DEF OrderInv, Inv, Local
    <3>5. t \notin shared[q]
      BY <1>2, <3>4, CircleWaits DEF Referred
    <3>6. t \in DOMAIN mine[q]
      BY <2>5, <3>3, <3>5 DEF BlockedOn, Writers, Sharers
    <3> QED BY <1>2, <2>1, <3>2, <3>6
  <2>6. CASE at[r] = "enter"
    BY <1>2, <2>6
  <2> QED BY <2>3, <2>4, <2>5, <2>6
<1> QED BY <1>1, <1>2

LEMMA NamesTraded ==
  ASSUME OrderInv, NEW D, Circle(D), D # {}
  PROVE  \E r \in D : \E q \in D \ {r} : TakesNameOf(r, q)
<1>1. PICK r \in D : /\ at[r] = "enter"
                    /\ (call[r] = "updateRole" \/ \A q \in D : at[q] # "refer")
  BY SomeoneEnters
<1> PICK t : t = target[r]
  OBVIOUS
<1>2. /\ r \in Requests /\ Carries(r)
      /\ call[r] \in {"createRole", "createUser", "updateRole", "updateUser"}
  BY CircleWaits, NoPermission DEF OrderInv, Inv, Local
<1>3. /\ \/ call[r] = "updateRole" /\ t \in Roles
         \/ call[r] = "updateUser" /\ t \in Users
      /\ t \in Candidates(r)
  BY <1>1, <1>2 DEF Carries, MayBeAt, Payload, Candidates, Assigns
<1>4. PICK q \in D \ {r} : q \in NameWriters(r, t)
  BY <1>1, <1>3, CircleWaits DEF BlockedOn
<1>5. PICK y \in TableOf(t) \ {t} :
        ChangesKey(q, y) /\ (db[y] = put[r][t] \/ (mine[q][y] = put[r][t] /\ Entered(q, y)))
  BY <1>4 DEF NameWriters
<1>6. /\ y \in DOMAIN mine[q] /\ y \in Entities
      /\ \/ call[r] = "updateRole" /\ y \in Roles /\ y \notin Users
         \/ call[r] = "updateUser" /\ y \in Users /\ y \notin Roles
  BY <1>3, <1>5, TableOfRow, RowsOfOneTable DEF ChangesKey, Entities
<1>7. at[q] = "enter" /\ call[q] = call[r] /\ y = target[q]
  BY <1>1, <1>6, NoJoinRow, RowWriter
<1>8. db[y] = put[r][t]
  BY <1>5, <1>7 DEF Entered
<1> QED BY <1>3, <1>7, <1>8 DEF TakesNameOf

(***************************************************************************)
(* role.repository.ts:266-299, users.service.ts:211-232: requests wait for *)
(* each other in a circle only where one of them deletes a role or a       *)
(* permission, two of them name permissions, or two updates of roles trade *)
(* names, or two of users addresses: the order of the locks rules out      *)
(* every other circle, of any number of requests.                          *)
(***************************************************************************)
THEOREM DeadlocksForCause == Spec => []DeadlockForCause
<1>1. OrderInv => DeadlockForCause
  <2> SUFFICES ASSUME OrderInv, NEW D \in SUBSET Requests, D # {}, Deadlocked(D),
                      ~ \E r \in D : call[r] \in {"removeRole", "removePermission"},
                      ~ \E r \in D : NamesPermissions(r) /\ \E q \in D \ {r} : NamesPermissions(q)
               PROVE  \E r \in D : \E q \in D \ {r} : TakesNameOf(r, q)
    BY DEF DeadlockForCause
  <2>1. Circle(D)
    BY DEF Circle, Removes
  <2> QED BY <2>1, NamesTraded
<1> QED BY <1>1, LocksInOrder, PTL
=============================================================================
