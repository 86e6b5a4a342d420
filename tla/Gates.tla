------------------------------- MODULE Gates -------------------------------
(***************************************************************************)
(* A request, by any caller to any route, through the guards of Access:    *)
(* the roles and permissions of a caller are whatever administrators have  *)
(* made of them.  (Catalogue has the accounts there really are.)  What     *)
(* becomes of a request for a listing is in Queries and Listing.           *)
(***************************************************************************)
EXTENDS Access

CONSTANTS
  RoleNames,  \* the names of roles, "superuser" among them
  None        \* not there: no answer yet, for instance

ASSUME SuperuserIsARole == "superuser" \in RoleNames
ASSUME NoneIsNoStatus == None \notin Int

VARIABLES
  caller,  \* the identity behind the token; None once nothing reads it any more
  name,    \* the route
  gate     \* what the guards answered

PermissionNames == {DocumentedPermission[n] : n \in DOMAIN DocumentedPermission}

\* Identities with any roles and none, one, all but one of the permissions.
Callers ==
  {Nobody} \cup
  [known : {TRUE}, roles : SUBSET RoleNames,
   permissions : {{}} \cup {{p} : p \in PermissionNames}
                      \cup {PermissionNames \ {p} : p \in PermissionNames}]

ASSUME NoneIsNobody == None \notin Callers \cup DOMAIN Routes

Arrives == caller \in Callers /\ name \in DOMAIN Routes /\ gate = None

CanActivate ==
  /\ gate = None
  /\ gate' = Answer(Routes[name], caller)
  /\ UNCHANGED <<caller, name>>
-----------------------------------------------------------------------------
DocumentedAnswer ==
  CASE name \in DocumentedPublic -> 200
    [] name \notin DocumentedPublic /\ ~caller.known -> 401
    [] name \in DocumentedSuperuser /\ caller.known ->
         IF "superuser" \in caller.roles THEN 200 ELSE 403
    [] name \in DOMAIN DocumentedPermission /\ caller.known ->
         IF "superuser" \in caller.roles \/ DocumentedPermission[name] \in caller.permissions
         THEN 200 ELSE 403
    [] name \in {"profile", "changePassword"} /\ caller.known -> 200

(***************************************************************************)
(* The decorators and the guards let in exactly whom the table of routes   *)
(* says, whatever administrators have made of roles and permissions: also  *)
(* where only the class declares a gate, and with no token.                *)
(***************************************************************************)
GatesAsDocumented == gate # None /\ caller # None => gate = DocumentedAnswer

(***************************************************************************)
(* api-response.decorator.ts: a route whose guards can refuse a caller     *)
(* with a 401 or a 403 is documented with that status.                     *)
(***************************************************************************)
RefusalsAreDocumented ==
  gate \notin {None, 200} => gate \in Routes[name].documented
=============================================================================
