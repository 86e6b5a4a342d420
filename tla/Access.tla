------------------------------- MODULE Access -------------------------------
(***************************************************************************)
(* Who is let in where: the metadata the controllers declare on their      *)
(* routes, and the three global guards that read it.  No state: Gates and  *)
(* Catalogue apply the guards to callers.                                  *)
(***************************************************************************)
EXTENDS Integers

\* The metadata of a handler or of a controller class; {} is "not declared".
Plain == [public |-> FALSE, permissions |-> {}, roles |-> {}]
Public == [Plain EXCEPT !.public = TRUE]
PermissionAuth(p) == [Plain EXCEPT !.permissions = {p}]
RoleAuth(r) == [Plain EXCEPT !.roles = {r}]

\* Mutant of ApiStandardResponses: a 403 is documented on request only.
ApiStandardResponsesButForbidden(off) == {400, 401, 422, 429, 500, 503} \ off

\* The statuses a route is documented with, those switched off excepted.
ApiStandardResponses(off) == {400, 401, 403, 422, 429, 500, 503} \ off

Route(class, handler, documented) ==
  [class |-> class, handler |-> handler, documented |-> documented]
-----------------------------------------------------------------------------
(***************************************************************************)
(* The routes, controller by controller.                                   *)
(***************************************************************************)
AppRoutes == [app |-> Route(Public, Plain, {})]

HealthRoutes == [health |-> Route(Public, Plain, {}), live |-> Route(Public, Plain, {})]

SignInRoutes ==
  [login |-> Route(Plain, Public, ApiStandardResponses({401, 403})),
   refresh |-> Route(Plain, Public, ApiStandardResponses({403}))]

RegistrationRoutes ==
  LET open == Route(Plain, Public, ApiStandardResponses({401, 403}))
  IN  [register |-> open, resendVerification |-> open, verifyEmail |-> open]

ForgottenPasswordRoutes ==
  LET open == Route(Plain, Public, ApiStandardResponses({401, 403}))
  IN  [forgotPassword |-> open, validateToken |-> open, resetPassword |-> open]

OwnRoutes == [profile |-> Route(Plain, Plain, ApiStandardResponses({403}))]

OwnPasswordRoutes == [changePassword |-> Route(Plain, Plain, ApiStandardResponses({403}))]

Gated(group, action, off) ==
  Route(Plain, PermissionAuth(<<group, action>>), ApiStandardResponses(off))

UserCreationRoutes ==
  [createUser |-> Gated("user", "create", {}),
   resendVerifyEmail |-> Gated("user", "update", {})]

UserReadingRoutes ==
  [listUsers |-> Gated("user", "list", {422}), viewUser |-> Gated("user", "view", {422})]

UserChangingRoutes ==
  [updateUser |-> Gated("user", "update", {}),
   updateStatus |-> Gated("user", "update", {}),
   updatePassword |-> Route(Plain, RoleAuth("superuser"), ApiStandardResponses({})),
   removeUser |-> Gated("user", "delete", {422})]

RoleReadingRoutes ==
  [createRole |-> Gated("role", "create", {}),
   listRoles |-> Gated("role", "list", {422})]

RoleChangingRoutes ==
  [viewRole |-> Gated("role", "view", {422}),
   updateRole |-> Gated("role", "update", {}),
   removeRole |-> Gated("role", "delete", {422})]

\* Gated by the class: no handler of this controller declares anything.
SuperuserOnly(off) == Route(RoleAuth("superuser"), Plain, ApiStandardResponses(off))

PermissionReadingRoutes ==
  [createPermissions |-> SuperuserOnly({}), listPermissions |-> SuperuserOnly({422})]

PermissionChangingRoutes ==
  [viewPermission |-> SuperuserOnly({422}),
   updatePermission |-> SuperuserOnly({}),
   removePermission |-> SuperuserOnly({422})]

Controllers ==
  {AppRoutes, HealthRoutes, SignInRoutes, RegistrationRoutes, ForgottenPasswordRoutes, OwnRoutes,
   OwnPasswordRoutes, UserCreationRoutes, UserReadingRoutes, UserChangingRoutes, RoleReadingRoutes,
   RoleChangingRoutes, PermissionReadingRoutes, PermissionChangingRoutes}

Routes ==
  [name \in UNION {DOMAIN c : c \in Controllers} |->
     (CHOOSE c \in Controllers : name \in DOMAIN c)[name]]
-----------------------------------------------------------------------------
(***************************************************************************)
(* The guards.  An identity is what AuthStrategy.validate returned: names  *)
(* of roles and of permissions, and whether there is one at all.           *)
(***************************************************************************)
Nobody == [known |-> FALSE, roles |-> {}, permissions |-> {}]

\* getAllAndOverride: what the handler declares, or else its class.
Declared(route, key) ==
  IF route.handler[key] # {} THEN route.handler[key] ELSE route.class[key]

IsPublic(route) == route.handler.public \/ route.class.public

PassesPermissionGuard(route, user) ==
  LET required == Declared(route, "permissions")
  IN  \/ required = {}
      \/ /\ user.known
         /\ "superuser" \in user.roles \/ required \subseteq user.permissions

PassesRoleGuard(route, user) ==
  LET required == Declared(route, "roles")
  IN  \/ required = {}
      \/ /\ user.known
         /\ "superuser" \in user.roles \/ required \cap user.roles # {}

\* Mutant of Answer: the permission guard is registered before AuthGuard.
AnswerPermissionFirst(route, identity) ==
  IF ~PassesPermissionGuard(route, Nobody) THEN 403
  ELSE IF ~IsPublic(route) /\ ~identity.known THEN 401
  ELSE IF PassesRoleGuard(route, identity) THEN 200 ELSE 403

(***************************************************************************)
(* What the chain answers a caller, 200 standing for the handler.  A       *)
(* public route does not look at the token, so request.user stays empty.   *)
(***************************************************************************)
Answer(route, identity) ==
  LET user == IF IsPublic(route) THEN Nobody ELSE identity
  IN  IF ~IsPublic(route) /\ ~identity.known THEN 401
      ELSE IF PassesPermissionGuard(route, user) /\ PassesRoleGuard(route, user) THEN 200
      ELSE 403

Passes(name, identity) == Answer(Routes[name], identity) = 200
-----------------------------------------------------------------------------
(***************************************************************************)
(* docs/API_DOCUMENTATION.md:108-142, the table of routes.                 *)
(***************************************************************************)
DocumentedPublic ==
  {"app", "health", "live", "login", "refresh", "register", "resendVerification", "verifyEmail",
   "forgotPassword", "validateToken", "resetPassword"}

DocumentedSuperuser ==
  {"updatePassword", "createPermissions", "listPermissions", "viewPermission", "updatePermission",
   "removePermission"}

DocumentedPermission ==
  [createUser |-> <<"user", "create">>, listUsers |-> <<"user", "list">>,
   viewUser |-> <<"user", "view">>, updateUser |-> <<"user", "update">>,
   updateStatus |-> <<"user", "update">>, resendVerifyEmail |-> <<"user", "update">>,
   removeUser |-> <<"user", "delete">>, createRole |-> <<"role", "create">>,
   listRoles |-> <<"role", "list">>, viewRole |-> <<"role", "view">>,
   updateRole |-> <<"role", "update">>, removeRole |-> <<"role", "delete">>]
=============================================================================
