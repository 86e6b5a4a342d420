----------------------------- MODULE RoleStore -----------------------------
(***************************************************************************)
(* What the write path of roles, permissions and users promises: every     *)
(* request takes effect at one moment and as a whole, or not at all.  The  *)
(* state is the committed tables: the name of each role and permission and *)
(* the address of each user (None when there is no such row), what each    *)
(* role grants and what each user holds.                                   *)
(* RoleWrites, statement by statement, implements it.                      *)
(***************************************************************************)
CONSTANTS Roles, Perms, Users, Names, None

VARIABLES name, grants, holds

vars == <<name, grants, holds>>

Existing(S) == {x \in S : name[x] # None}

\* No other row of the table S has this name.
Free(n, x, S) == \A y \in S \ {x} : name[y] # n

Init ==
  /\ name \in [Roles \cup Perms \cup Users -> Names \cup {None}]
  /\ \A S \in {Roles, Perms, Users} : \A x, y \in Existing(S) : name[x] = name[y] => x = y
  /\ grants \in SUBSET (Existing(Roles) \X Existing(Perms))
  /\ holds \in SUBSET (Existing(Users) \X Existing(Roles))

\* The pairs of R whose first member is x replaced by x with each of list.
Replace(R, x, list) == {p \in R : p[1] # x} \cup ({x} \X list)

CreateRole(role, n, list) ==
  /\ name[role] = None
  /\ Free(n, role, Roles)
  /\ list \subseteq Existing(Perms)
  /\ name' = [name EXCEPT ![role] = n]
  /\ grants' = Replace(grants, role, list)
  /\ UNCHANGED holds

UpdateRole(role, n, list) ==
  /\ role \in Existing(Roles)
  /\ Free(n, role, Roles)
  /\ list \subseteq Existing(Perms)
  /\ name' = [name EXCEPT ![role] = n]
  /\ grants' = Replace(grants, role, list)
  /\ UNCHANGED holds

DeleteRole(role) ==
  /\ name' = [name EXCEPT ![role] = None]
  /\ grants' = {g \in grants : g[1] # role}
  /\ holds' = {h \in holds : h[2] # role}

CreatePermissions(n) ==
  \E new \in SUBSET Perms :
    /\ new # {}
    /\ \A p \in new : name[p] = None /\ n[p] # None /\ Free(n[p], p, Perms)
    /\ \A p, q \in new : n[p] = n[q] => p = q
    /\ name' = [x \in Roles \cup Perms \cup Users |-> IF x \in new THEN n[x] ELSE name[x]]
    /\ UNCHANGED <<grants, holds>>

RenamePermission(p, n) ==
  /\ p \in Existing(Perms)
  /\ Free(n, p, Perms)
  /\ name' = [name EXCEPT ![p] = n]
  /\ UNCHANGED <<grants, holds>>

DeletePermission(p) ==
  /\ name' = [name EXCEPT ![p] = None]
  /\ grants' = {g \in grants : g[2] # p}
  /\ UNCHANGED holds

CreateUser(u, n, list) ==
  /\ name[u] = None
  /\ Free(n, u, Users)
  /\ list \subseteq Existing(Roles)
  /\ name' = [name EXCEPT ![u] = n]
  /\ holds' = Replace(holds, u, list)
  /\ UNCHANGED grants

UpdateUser(u, n, list) ==
  /\ u \in Existing(Users)
  /\ Free(n, u, Users)
  /\ list \subseteq Existing(Roles)
  /\ name' = [name EXCEPT ![u] = n]
  /\ holds' = Replace(holds, u, list)
  /\ UNCHANGED grants

Next ==
  \/ \E role \in Roles :
       \/ DeleteRole(role)
       \/ \E n \in Names, list \in SUBSET Perms :
            CreateRole(role, n, list) \/ UpdateRole(role, n, list)
  \/ \E n \in [Perms -> Names] : CreatePermissions(n)
  \/ \E p \in Perms : DeletePermission(p) \/ \E n \in Names : RenamePermission(p, n)
  \/ \E u \in Users, n \in Names, list \in SUBSET Roles :
       CreateUser(u, n, list) \/ UpdateUser(u, n, list)

Spec == Init /\ [][Next]_vars
=============================================================================
