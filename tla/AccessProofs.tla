---------------------------- MODULE AccessProofs ----------------------------
(***************************************************************************)
(* What the decorators of the controllers come to, route by route, and     *)
(* what the three guards answer there: the facts about Routes and Answer   *)
(* that ListingProofs and CatalogueProofs rest on, for any identity.       *)
(***************************************************************************)
EXTENDS Access, TLAPS

\* The routes of each controller.
LEMMA Domains ==
  /\ DOMAIN AppRoutes = {"app"} /\ DOMAIN HealthRoutes = {"health", "live"}
  /\ DOMAIN SignInRoutes = {"login", "refresh"}
  /\ DOMAIN RegistrationRoutes = {"register", "resendVerification", "verifyEmail"}
  /\ DOMAIN ForgottenPasswordRoutes = {"forgotPassword", "validateToken", "resetPassword"}
  /\ DOMAIN OwnRoutes = {"profile"} /\ DOMAIN OwnPasswordRoutes = {"changePassword"}
  /\ DOMAIN UserCreationRoutes = {"createUser", "resendVerifyEmail"}
  /\ DOMAIN UserReadingRoutes = {"listUsers", "viewUser"}
  /\ DOMAIN UserChangingRoutes = {"updateUser", "updateStatus", "updatePassword", "removeUser"}
  /\ DOMAIN RoleReadingRoutes = {"createRole", "listRoles"}
  /\ DOMAIN RoleChangingRoutes = {"viewRole", "updateRole", "removeRole"}
  /\ DOMAIN PermissionReadingRoutes = {"createPermissions", "listPermissions"}
  /\ DOMAIN PermissionChangingRoutes = {"viewPermission", "updatePermission", "removePermission"}
BY DEF AppRoutes, HealthRoutes, SignInRoutes, RegistrationRoutes, ForgottenPasswordRoutes,
   OwnRoutes, OwnPasswordRoutes, UserCreationRoutes, UserReadingRoutes, UserChangingRoutes,
   RoleReadingRoutes, RoleChangingRoutes, PermissionReadingRoutes, PermissionChangingRoutes

\* No route has two controllers.
LEMMA OnePlace ==
  ASSUME NEW c \in Controllers, NEW d \in Controllers, NEW n \in DOMAIN c, n \in DOMAIN d
  PROVE  c = d
BY Domains DEF Controllers

\* A route has what its controller declares.
LEMMA RouteOf ==
  ASSUME NEW c \in Controllers, NEW n \in DOMAIN c
  PROVE  n \in DOMAIN Routes /\ Routes[n] = c[n]
<1>1. n \in UNION {DOMAIN d : d \in Controllers}
  OBVIOUS
<1>2. (CHOOSE d \in Controllers : n \in DOMAIN d) = c
  BY OnePlace
<1> QED BY <1>1, <1>2 DEF Routes

-----------------------------------------------------------------------------
\* What a route asks of its caller, when it is not public.
Asks(n, permissions, roleNames) ==
  /\ n \in DOMAIN Routes
  /\ ~IsPublic(Routes[n])
  /\ Declared(Routes[n], "permissions") = permissions
  /\ Declared(Routes[n], "roles") = roleNames

\* The routes that the documentation calls public are, and ask for nothing else.
LEMMA PublicRoutes ==
  ASSUME NEW n \in DocumentedPublic
  PROVE  /\ n \in DOMAIN Routes /\ IsPublic(Routes[n])
         /\ Declared(Routes[n], "permissions") = {} /\ Declared(Routes[n], "roles") = {}
<1>1. PICK c \in {AppRoutes, HealthRoutes, SignInRoutes, RegistrationRoutes,
                  ForgottenPasswordRoutes} : n \in DOMAIN c
  BY Domains DEF DocumentedPublic
<1>2. n \in DOMAIN Routes /\ Routes[n] = c[n]
  BY <1>1, RouteOf DEF Controllers
<1>3. /\ c[n].class \in {Plain, Public} /\ c[n].handler \in {Plain, Public}
      /\ c[n].class = Public \/ c[n].handler = Public
  BY <1>1, Domains
  DEF AppRoutes, HealthRoutes, SignInRoutes, RegistrationRoutes, ForgottenPasswordRoutes, Route
<1> QED BY <1>2, <1>3 DEF IsPublic, Declared, Plain, Public

\* A caller reads and changes its own account with a token alone.
LEMMA OwnRoutesAsk ==
  ASSUME NEW n \in {"profile", "changePassword"}
  PROVE  Asks(n, {}, {})
<1>1. PICK c \in {OwnRoutes, OwnPasswordRoutes} : n \in DOMAIN c
  BY Domains
<1>2. n \in DOMAIN Routes /\ Routes[n] = c[n]
  BY <1>1, RouteOf DEF Controllers
<1>3. c[n].class = Plain /\ c[n].handler = Plain
  BY <1>1, Domains DEF OwnRoutes, OwnPasswordRoutes, Route
<1> QED BY <1>2, <1>3 DEF Asks, IsPublic, Declared, Plain

\* The superuser routes are gated by the role, on the handler or on the class.
LEMMA SuperuserRoutesAsk ==
  ASSUME NEW n \in DocumentedSuperuser
  PROVE  Asks(n, {}, {"superuser"})
<1>1. PICK c \in {UserChangingRoutes, PermissionReadingRoutes, PermissionChangingRoutes} :
        n \in DOMAIN c
  BY Domains DEF DocumentedSuperuser
<1>2. n \in DOMAIN Routes /\ Routes[n] = c[n]
  BY <1>1, RouteOf DEF Controllers
<1>3. \/ c[n].class = Plain /\ c[n].handler = RoleAuth("superuser")
      \/ c[n].class = RoleAuth("superuser") /\ c[n].handler = Plain
  BY <1>1, Domains
  DEF DocumentedSuperuser, UserChangingRoutes, PermissionReadingRoutes, PermissionChangingRoutes,
      SuperuserOnly, Route
<1> QED BY <1>2, <1>3 DEF Asks, IsPublic, Declared, Plain, RoleAuth

\* The other gated routes ask for the one permission the documentation names.
LEMMA PermissionRoutesAsk ==
  ASSUME NEW n \in DOMAIN DocumentedPermission
  PROVE  Asks(n, {DocumentedPermission[n]}, {})
<1>1. PICK c \in {UserCreationRoutes, UserReadingRoutes, UserChangingRoutes, RoleReadingRoutes,
                  RoleChangingRoutes} : n \in DOMAIN c
  BY Domains DEF DocumentedPermission
<1>2. n \in DOMAIN Routes /\ Routes[n] = c[n]
  BY <1>1, RouteOf DEF Controllers
<1>3. c[n].class = Plain /\ c[n].handler = PermissionAuth(DocumentedPermission[n])
  <2>1. CASE c = UserCreationRoutes
    BY <1>1, <2>1, Domains DEF DocumentedPermission, UserCreationRoutes, Gated, Route
  <2>2. CASE c = UserReadingRoutes
    BY <1>1, <2>2, Domains DEF DocumentedPermission, UserReadingRoutes, Gated, Route
  <2>3. CASE c = UserChangingRoutes
    BY <1>1, <2>3, Domains DEF DocumentedPermission, UserChangingRoutes, Gated, Route
  <2>4. CASE c = RoleReadingRoutes
    BY <1>1, <2>4, Domains DEF DocumentedPermission, RoleReadingRoutes, Gated, Route
  <2>5. CASE c = RoleChangingRoutes
    BY <1>1, <2>5, Domains DEF DocumentedPermission, RoleChangingRoutes, Gated, Route
  <2> QED BY <1>1, <2>1, <2>2, <2>3, <2>4, <2>5
<1> QED BY <1>2, <1>3 DEF Asks, IsPublic, Declared, Plain, PermissionAuth

\* The documentation has all routes.
LEMMA EveryRoute ==
  DOMAIN Routes = DocumentedPublic \cup DocumentedSuperuser \cup DOMAIN DocumentedPermission
                    \cup {"profile", "changePassword"}
BY Domains DEF Routes, Controllers, DocumentedPublic, DocumentedSuperuser, DocumentedPermission

-----------------------------------------------------------------------------
\* What the guards answer, by the table of routes.
LEMMA PublicAnswer ==
  ASSUME NEW n \in DocumentedPublic, NEW identity
  PROVE  Answer(Routes[n], identity) = 200
BY PublicRoutes DEF Answer, PassesPermissionGuard, PassesRoleGuard

LEMMA UnknownAnswer ==
  ASSUME NEW n \in DOMAIN Routes, n \notin DocumentedPublic, NEW identity, ~identity.known
  PROVE  Answer(Routes[n], identity) = 401
<1>1. ~IsPublic(Routes[n])
  BY EveryRoute, OwnRoutesAsk, SuperuserRoutesAsk, PermissionRoutesAsk DEF Asks
<1> QED BY <1>1 DEF Answer

LEMMA KnownAnswer ==
  ASSUME NEW n, NEW p, NEW s, Asks(n, p, s), NEW identity, identity.known
  PROVE  Answer(Routes[n], identity) =
           IF /\ p = {} \/ "superuser" \in identity.roles \/ p \subseteq identity.permissions
              /\ s = {} \/ "superuser" \in identity.roles \/ s \cap identity.roles # {}
           THEN 200 ELSE 403
BY DEF Asks, Answer, PassesPermissionGuard, PassesRoleGuard
=============================================================================
