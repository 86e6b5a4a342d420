----------------------------- MODULE RbacCache -----------------------------
(***************************************************************************)
(* Roles, permissions and what the cached identities say of them: the      *)
(* admin operations that change who may do what, and the invalidation of   *)
(* "user:<id>" that follows some of them.  All users here are active; the  *)
(* other things that change an identity are in Sessions.                   *)
(*                                                                         *)
(* An action is one await of a request: a query, a transaction, a Redis    *)
(* command, with the code up to the next await.  The foreign keys of the   *)
(* join tables (user_roles, role_permissions) are enforced by Postgres and *)
(* cascade on delete.                                                      *)
(***************************************************************************)
EXTENDS FiniteSets

CONSTANTS
  Users, Roles,
  Perms,        \* ids of permissions
  Names,        \* names a permission may have ("user:list", ...)
  Requests,     \* the requests that may be in flight at the same time
  None          \* an absent row, key or value

ASSUME NoneIsNothing == None \notin Users \cup Roles \cup Perms \cup Names

VARIABLES
  roles,       \* ids of the roles that exist
  name,        \* the permissions table: the name of each permission
  holds,       \* user_roles: pairs <<user, role>>
  grants,      \* role_permissions: pairs <<role, permission>>
  cache,       \* "user:<id>" of each user
  pc,          \* where each request is
  subject,     \* the user, role or permission a request is about
  wanted,      \* the roles or permissions it was asked to assign
  fill,        \* the identity a request carries from the database to the cache
  todo,        \* the users whose cached identity a request has yet to delete
  abandoned    \* users whose delete was due and never ran (auxiliary)

tables == <<roles, name, holds, grants>>
vars == <<tables, cache, pc, subject, wanted, fill, todo, abandoned>>

(***************************************************************************)
(* The cached identity of a user: roles, and permissions by id and name.   *)
(* lost is auxiliary: a delete meant for a change this entry does not know *)
(* of has passed it by, because the entry was written after the delete     *)
(* ("overtaken") or because the change did not see the user ("uncounted"). *)
(***************************************************************************)
Entry == [roles : SUBSET Roles, perms : SUBSET (Perms \X Names),
          lost : {"no", "overtaken", "uncounted"}]

Places == {"idle", "authRead", "authFill", "assign", "regrant", "findHolders",
           "removeRole", "rename", "removePermission", "drop", "serverError"}

TypeOK ==
  /\ roles \subseteq Roles
  /\ name \in [Perms -> Names \cup {None}]
  /\ holds \subseteq Users \X Roles
  /\ grants \subseteq Roles \X Perms
  /\ cache \in [Users -> Entry \cup {None}]
  /\ pc \in [Requests -> Places]
  /\ subject \in [Requests -> Users \cup Roles \cup Perms \cup {None}]
  /\ wanted \in [Requests -> SUBSET (Roles \cup Perms)]
  /\ fill \in [Requests -> Entry \cup {None}]
  /\ todo \in [Requests -> SUBSET Users]
  /\ abandoned \subseteq Users

\* Seeded: every permission exists with a name of its own, every role exists.
Init ==
  /\ roles = Roles
  /\ name \in [Perms -> Names] /\ \A p, q \in Perms : name[p] = name[q] => p = q
  /\ holds \in SUBSET (Users \X Roles)
  /\ grants = Roles \X Perms
  /\ cache = [u \in Users |-> None]
  /\ pc = [r \in Requests |-> "idle"]
  /\ subject = [r \in Requests |-> None]
  /\ wanted = [r \in Requests |-> {}]
  /\ fill = [r \in Requests |-> None]
  /\ todo = [r \in Requests |-> {}]
  /\ abandoned = {}
-----------------------------------------------------------------------------
Existing == {p \in Perms : name[p] # None}

Holders(role) == {u \in Users : <<u, role>> \in holds}

RolesOf(u) == {role \in Roles : <<u, role>> \in holds}

PermsOf(u) == {p \in Perms : \E role \in RolesOf(u) : <<role, p>> \in grants}

UserInformation(u) ==
  [roles |-> RolesOf(u), perms |-> {<<p, name[p]>> : p \in PermsOf(u)}, lost |-> "no"]

\* The entry agrees with the database about everything the role and user
\* operations decide: the roles held, and which of the permissions that still
\* exist those roles grant.
Describes(entry, u) ==
  /\ entry.roles = RolesOf(u)
  /\ {x[1] : x \in entry.perms} \cap Existing = PermsOf(u)

Goto(r, place) == pc' = [pc EXCEPT ![r] = place]

Begin(r, place, about, list) ==
  /\ pc[r] = "idle"
  /\ Goto(r, place)
  /\ subject' = [subject EXCEPT ![r] = about]
  /\ wanted' = [wanted EXCEPT ![r] = list]

Finish(r, place) ==
  /\ Goto(r, place)
  /\ subject' = [subject EXCEPT ![r] = None]
  /\ wanted' = [wanted EXCEPT ![r] = {}]

\* The change is committed; the request owes the deletes of these users.
Owes(r, users) ==
  /\ Finish(r, IF users = {} THEN "idle" ELSE "drop")
  /\ todo' = [todo EXCEPT ![r] = users]

\* A constraint refuses the transaction, which rolls back: a 500.
Refused(r) == Finish(r, "serverError") /\ UNCHANGED <<tables, todo>>
-----------------------------------------------------------------------------
(***************************************************************************)
(* AuthStrategy.validate on a cache miss.                                  *)
(***************************************************************************)
Authenticate(r, u) ==
  /\ cache[u] = None
  /\ Begin(r, "authRead", u, {})
  /\ UNCHANGED <<tables, cache, fill, todo, abandoned>>

AuthRead(r) ==
  /\ pc[r] = "authRead"
  /\ fill' = [fill EXCEPT ![r] = UserInformation(subject[r])]
  /\ Goto(r, "authFill")
  /\ UNCHANGED <<tables, cache, subject, wanted, todo, abandoned>>

AuthFill(r) ==
  /\ pc[r] = "authFill"
  /\ cache' = [cache EXCEPT ![subject[r]] = fill[r]]
  /\ fill' = [fill EXCEPT ![r] = None]
  /\ Finish(r, "idle")
  /\ UNCHANGED <<tables, todo, abandoned>>

(***************************************************************************)
(* UsersService.update: the roles are checked to exist, then the user's    *)
(* join rows are replaced; a role deleted in between breaks a foreign key. *)
(***************************************************************************)
UpdateUser(r, u, list) ==
  /\ list \subseteq roles
  /\ Begin(r, "assign", u, list)
  /\ UNCHANGED <<tables, cache, fill, todo, abandoned>>

AssignRoles(r) ==
  /\ pc[r] = "assign"
  /\ IF wanted[r] \subseteq roles
     THEN /\ holds' = {h \in holds : h[1] # subject[r]} \cup ({subject[r]} \X wanted[r])
          /\ Owes(r, {subject[r]})
          /\ UNCHANGED <<roles, name, grants>>
     ELSE Refused(r)
  /\ UNCHANGED <<cache, fill, abandoned>>

(***************************************************************************)
(* RolesService.update: the transaction replaces the role's permissions;   *)
(* who holds the role is asked after it, and those entries are deleted.    *)
(***************************************************************************)
UpdateRole(r, role, list) ==
  /\ role \in roles
  /\ list \subseteq Existing
  /\ Begin(r, "regrant", role, list)
  /\ UNCHANGED <<tables, cache, fill, todo, abandoned>>

\* Updating a role that is gone changes no row; inserting for it is refused.
GrantPermissions(r) ==
  /\ pc[r] = "regrant"
  /\ IF wanted[r] = {} \/ (subject[r] \in roles /\ wanted[r] \subseteq Existing)
     THEN /\ grants' = {g \in grants : g[1] # subject[r]} \cup ({subject[r]} \X wanted[r])
          /\ Goto(r, "findHolders")
          /\ UNCHANGED <<roles, name, holds, subject, wanted, todo>>
     ELSE Refused(r)
  /\ UNCHANGED <<cache, fill, abandoned>>

\* Mutant of InvalidateRoleHolders: the key is built from the role's id.
InvalidateRoleItself(r) ==
  /\ pc[r] = "findHolders"
  /\ Owes(r, {subject[r]})
  /\ UNCHANGED <<tables, cache, fill, abandoned>>

InvalidateRoleHolders(r) ==
  /\ pc[r] = "findHolders"
  /\ Owes(r, Holders(subject[r]))
  /\ UNCHANGED <<tables, cache, fill, abandoned>>

(***************************************************************************)
(* RolesService.remove: the holders are collected first, because deleting  *)
(* the role deletes the rows that name them.                               *)
(***************************************************************************)
RemoveRole(r, role) ==
  /\ Begin(r, "removeRole", role, {})
  /\ todo' = [todo EXCEPT ![r] = Holders(role)]
  /\ UNCHANGED <<tables, cache, fill, abandoned>>

\* A holder that was not collected: the role was assigned since.
Uncounted(entry, counted) ==
  IF entry # None /\ ~counted THEN [entry EXCEPT !.lost = "uncounted"] ELSE entry

\* Mutant of DeleteRole: the holders are collected after the delete.
DeleteRoleCollectingAfter(r) ==
  /\ pc[r] = "removeRole"
  /\ roles' = roles \ {subject[r]}
  /\ holds' = {h \in holds : h[2] # subject[r]}
  /\ grants' = {g \in grants : g[1] # subject[r]}
  /\ Owes(r, {})
  /\ UNCHANGED <<name, cache, fill, abandoned>>

DeleteRole(r) ==
  /\ pc[r] = "removeRole"
  /\ roles' = roles \ {subject[r]}
  /\ holds' = {h \in holds : h[2] # subject[r]}
  /\ grants' = {g \in grants : g[1] # subject[r]}
  /\ LET counted(u) == u \in todo[r] \cup (Users \ Holders(subject[r]))
     IN  /\ cache' = [u \in Users |-> Uncounted(cache[u], counted(u))]
         /\ fill' = [q \in Requests |->
                       IF fill[q] = None THEN None
                       ELSE Uncounted(fill[q], counted(subject[q]))]
  /\ Owes(r, todo[r])
  /\ UNCHANGED <<name, abandoned>>

(***************************************************************************)
(* PermissionsService.update and remove, which drop no cached identity.    *)
(***************************************************************************)
UpdatePermission(r, p) ==
  /\ p \in Existing
  /\ Begin(r, "rename", p, {})
  /\ UNCHANGED <<tables, cache, fill, todo, abandoned>>

\* The new name is not looked up first: a name in use breaks the unique index.
RenamePermission(r, n) ==
  /\ pc[r] = "rename"
  /\ IF \E p \in Existing \ {subject[r]} : subject[r] \in Existing /\ name[p] = n
     THEN Refused(r)
     ELSE /\ name' = IF subject[r] \in Existing THEN [name EXCEPT ![subject[r]] = n]
                     ELSE name
          /\ Finish(r, "idle")
          /\ UNCHANGED <<roles, holds, grants, todo>>
  /\ UNCHANGED <<cache, fill, abandoned>>

RemovePermission(r, p) ==
  /\ p \in Existing
  /\ Begin(r, "removePermission", p, {})
  /\ UNCHANGED <<tables, cache, fill, todo, abandoned>>

DeletePermission(r) ==
  /\ pc[r] = "removePermission"
  /\ name' = [name EXCEPT ![subject[r]] = None]
  /\ grants' = {g \in grants : g[2] # subject[r]}
  /\ Finish(r, "idle")
  /\ UNCHANGED <<roles, holds, cache, fill, todo, abandoned>>
-----------------------------------------------------------------------------
\* The deletes run in parallel: one at a time, in any order.
Deleted(r, u) ==
  /\ pc[r] = "drop"
  /\ u \in todo[r]
  /\ todo' = [todo EXCEPT ![r] = @ \ {u}]
  /\ Goto(r, IF todo[r] = {u} THEN "idle" ELSE "drop")

\* An identity of this user read before the change and not cached yet will be
\* written after this delete.
DeleteIdentity(r, u) ==
  /\ Deleted(r, u)
  /\ cache' = [cache EXCEPT ![u] = None]
  /\ fill' = [q \in Requests |->
                IF fill[q] # None /\ subject[q] = u /\ ~Describes(fill[q], u)
                THEN [fill[q] EXCEPT !.lost = "overtaken"]
                ELSE fill[q]]
  /\ abandoned' = abandoned \ {u}
  /\ UNCHANGED <<tables, subject, wanted>>

\* The Redis command fails, or the process dies first; nothing retries it.
DeleteFails(r, u) ==
  /\ Deleted(r, u)
  /\ abandoned' = abandoned \cup {u}
  /\ UNCHANGED <<tables, cache, subject, wanted, fill>>

\* A request stops elsewhere.  After the commit of a role's permissions its
\* holders are never asked for.
Crash(r) ==
  /\ pc[r] \notin {"idle", "drop"}
  /\ Finish(r, "idle")
  /\ fill' = [fill EXCEPT ![r] = None]
  /\ todo' = [todo EXCEPT ![r] = {}]
  /\ abandoned' = abandoned \cup
       (IF pc[r] = "findHolders" THEN Holders(subject[r]) ELSE {})
  /\ UNCHANGED <<tables, cache>>

AnswerError(r) ==
  /\ pc[r] = "serverError"
  /\ Goto(r, "idle")
  /\ UNCHANGED <<tables, cache, subject, wanted, fill, todo, abandoned>>

ExpireIdentity(u) ==
  /\ cache[u] # None
  /\ cache' = [cache EXCEPT ![u] = None]
  /\ UNCHANGED <<tables, pc, subject, wanted, fill, todo, abandoned>>
-----------------------------------------------------------------------------
Arrive(r) ==
  \/ \E u \in Users : Authenticate(r, u) \/ \E list \in SUBSET Roles : UpdateUser(r, u, list)
  \/ \E role \in Roles :
       RemoveRole(r, role) \/ \E list \in SUBSET Perms : UpdateRole(r, role, list)
  \/ \E p \in Perms : UpdatePermission(r, p) \/ RemovePermission(r, p)

Continue(r) ==
  \/ AuthRead(r) \/ AuthFill(r)
  \/ AssignRoles(r)
  \/ GrantPermissions(r) \/ InvalidateRoleHolders(r)
  \/ DeleteRole(r)
  \/ \E n \in Names : RenamePermission(r, n)
  \/ DeletePermission(r)
  \/ \E u \in Users : DeleteIdentity(r, u) \/ DeleteFails(r, u)
  \/ AnswerError(r)
  \/ Crash(r)

Next ==
  \/ \E r \in Requests : Arrive(r) \/ Continue(r)
  \/ \E u \in Users : ExpireIdentity(u)

Spec == Init /\ [][Next]_vars
-----------------------------------------------------------------------------
\* A delete of this user's identity is on its way, or was given up.
Owed(u) ==
  \/ u \in abandoned
  \/ \E r \in Requests :
       \/ pc[r] = "drop" /\ u \in todo[r]
       \/ pc[r] = "findHolders" /\ u \in Holders(subject[r])

(***************************************************************************)
(* roles.service.ts:28-31, 135, users.service.ts:234-236: a change to a    *)
(* role, or to the roles of a user, drops the cached identity of everyone  *)
(* it affects.  An identity that disagrees with the roles and grants in    *)
(* the database is cached only while its delete is owed, or because it was *)
(* lost: written after the delete, or given the role between the moment    *)
(* the holders were collected and the moment the role was deleted.         *)
(***************************************************************************)
Excused(entry, u) ==
  entry # None /\ ~Describes(entry, u) => Owed(u) \/ entry.lost # "no"

StaleRolesAreOwedOrLost == \A u \in Users : Excused(cache[u], u)

\* What makes it inductive: the identities in flight obey the same rule.
StaleRolesExcusedEverywhere ==
  /\ StaleRolesAreOwedOrLost
  /\ \A r \in Requests : Excused(fill[r], subject[r])

\* SECURITY.md:32-34: the cache is invalidated wherever authorization changes:
\* a cached identity has the names of the permissions its roles grant now,
\* unless its delete is owed or the delete was lost to a race.
PermissionChangesInvalidate ==
  \A u \in Users :
    cache[u] # None /\ cache[u].perms # UserInformation(u).perms
      => Owed(u) \/ cache[u].lost # "no"
=============================================================================
