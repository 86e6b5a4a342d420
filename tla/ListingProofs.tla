---------------------------- MODULE ListingProofs ---------------------------
(***************************************************************************)
(* Theorems about Listing, with Gates and Queries, for every value of the  *)
(* constants: any roles, any finite set of rows, any page size, keys and   *)
(* number of writes.  The invariant has two parts.  RequestInv follows the *)
(* request through the guards and the pipe to its answer.  WalkInv says    *)
(* where a row that was sent, or one that was not, can be relative to the  *)
(* page the client asks for, as long as only certain writes have come.     *)
(***************************************************************************)
EXTENDS Listing, AccessProofs, FiniteSetTheorems

(***************************************************************************)
(* The request: who it comes from while that matters, and that only a      *)
(* listing the guards have let through gets to its query.                  *)
(***************************************************************************)
Asked ==
  /\ caller \in Callers \cup {None} /\ name \in DOMAIN Routes \cup {None}
  /\ caller # None => name # None /\ query = None /\ answer = None
  /\ caller = None => gate = 200
  /\ caller = None /\ name # None => name \in {"listUsers", "listRoles", "listPermissions"}
  /\ query \in Queries \cup {None}
  /\ query # None \/ answer = None => name # None

RequestInv == Asked /\ GatesAsDocumented /\ RefusalsAreDocumented /\ OnlyUnknownRefused

\* The sentinel is no status, caller, route or query.
LEMMA Statuses ==
  /\ None \notin {200, 401, 403, 400, 500}
  /\ None \notin Callers /\ None \notin DOMAIN Routes /\ None \notin Queries
BY NoneIsNoStatus, NoneIsNobody, NoneIsNoQuery

\* A caller without an identity is Nobody.
LEMMA CallersKnown ==
  ASSUME NEW c \in Callers
  PROVE  c.known \in BOOLEAN /\ (~c.known => c = Nobody)
<1>1. c = Nobody \/ \E R, P : c \in [known : {TRUE}, roles : R, permissions : P]
  BY DEF Callers
<1>2. CASE c = Nobody
  BY <1>2 DEF Nobody
<1>3. CASE \E R, P : c \in [known : {TRUE}, roles : R, permissions : P]
  <2>1. PICK R, P : c \in [known : {TRUE}, roles : R, permissions : P]
    BY <1>3
  <2>2. c.known = TRUE
    BY <2>1
  <2> QED BY <2>2
<1> QED BY <1>1, <1>2, <1>3

\* The guards answer any caller, on any route, as the table of routes says.
LEMMA AnswerDocumented ==
  ASSUME caller \in Callers, name \in DOMAIN Routes
  PROVE  Answer(Routes[name], caller) = DocumentedAnswer
<1>1. PICK c \in Callers : c = caller
  OBVIOUS
<1>2. PICK n \in DOMAIN Routes : n = name
  OBVIOUS
<1>3. CASE n \in DocumentedPublic
  <2>1. Answer(Routes[n], c) = 200
    BY <1>3, PublicAnswer
  <2>2. n \notin DocumentedSuperuser /\ n \notin DOMAIN DocumentedPermission
        /\ n \notin {"profile", "changePassword"}
    BY <1>3 DEF DocumentedPublic, DocumentedSuperuser, DocumentedPermission
  <2> QED BY <1>1, <1>2, <1>3, <2>1, <2>2 DEF DocumentedAnswer
<1>4. CASE n \notin DocumentedPublic /\ ~c.known
  BY <1>1, <1>2, <1>4, UnknownAnswer DEF DocumentedAnswer
<1>5. CASE n \in DocumentedSuperuser /\ c.known
  <2>1. Answer(Routes[n], c) = IF "superuser" \in c.roles THEN 200 ELSE 403
    BY <1>5, SuperuserRoutesAsk, KnownAnswer
  <2>2. n \notin DocumentedPublic /\ n \notin DOMAIN DocumentedPermission
        /\ n \notin {"profile", "changePassword"}
    BY <1>5 DEF DocumentedPublic, DocumentedSuperuser, DocumentedPermission
  <2> QED BY <1>1, <1>2, <1>5, <2>1, <2>2 DEF DocumentedAnswer
<1>6. CASE n \in DOMAIN DocumentedPermission /\ c.known
  <2>1. Answer(Routes[n], c) =
          IF "superuser" \in c.roles \/ DocumentedPermission[n] \in c.permissions THEN 200 ELSE 403
    <3>1. PICK p : p = DocumentedPermission[n]
      OBVIOUS
    <3>2. Asks(n, {p}, {})
      BY <1>6, <3>1, PermissionRoutesAsk
    <3>3. Answer(Routes[n], c) =
            IF /\ {p} = {} \/ "superuser" \in c.roles \/ {p} \subseteq c.permissions
               /\ {} = {} \/ "superuser" \in c.roles \/ {} \cap c.roles # {}
            THEN 200 ELSE 403
      BY <1>6, <3>2, KnownAnswer
    <3> QED BY <3>1, <3>3
  <2>2. n \notin DocumentedPublic /\ n \notin DocumentedSuperuser
        /\ n \notin {"profile", "changePassword"}
    BY <1>6 DEF DocumentedPublic, DocumentedSuperuser, DocumentedPermission
  <2> QED BY <1>1, <1>2, <1>6, <2>1, <2>2 DEF DocumentedAnswer
<1>7. CASE n \in {"profile", "changePassword"} /\ c.known
  <2>1. Answer(Routes[n], c) = 200
    BY <1>7, OwnRoutesAsk, KnownAnswer
  <2>2. n \notin DocumentedPublic /\ n \notin DocumentedSuperuser
        /\ n \notin DOMAIN DocumentedPermission
    BY <1>7 DEF DocumentedPublic, DocumentedSuperuser, DocumentedPermission
  <2> QED BY <1>1, <1>2, <1>7, <2>1, <2>2 DEF DocumentedAnswer
<1> QED BY <1>1, <1>2, <1>3, <1>4, <1>5, <1>6, <1>7, EveryRoute, CallersKnown

\* Where the guards refuse, the route says so.
LEMMA RefusalDocumented ==
  ASSUME NEW c \in Callers, NEW n \in DOMAIN Routes
  PROVE  Answer(Routes[n], c) \in {200} \cup Routes[n].documented
<1>1. CASE n \in DocumentedPublic
  BY <1>1, PublicAnswer
<1>2. CASE n \in {"profile", "changePassword"}
  <2>1. PICK d \in {OwnRoutes, OwnPasswordRoutes} : n \in DOMAIN d
    BY <1>2, Domains
  <2>2. Routes[n] = d[n]
    BY <2>1, RouteOf DEF Controllers
  <2>3. 401 \in Routes[n].documented
    BY <1>2, <2>1, <2>2, Domains DEF OwnRoutes, OwnPasswordRoutes, Route, ApiStandardResponses
  <2>4. Answer(Routes[n], c) \in {200, 401}
    <3>1. CASE c.known
      BY <1>2, <3>1, OwnRoutesAsk, KnownAnswer
    <3>2. CASE ~c.known
      BY <1>2, <3>2, UnknownAnswer DEF DocumentedPublic
    <3> QED BY <3>1, <3>2, CallersKnown
  <2> QED BY <2>3, <2>4
<1>3. CASE n \in DocumentedSuperuser \cup DOMAIN DocumentedPermission
  <2>1. PICK d \in {UserCreationRoutes, UserReadingRoutes, UserChangingRoutes, RoleReadingRoutes,
                    RoleChangingRoutes, PermissionReadingRoutes, PermissionChangingRoutes} :
          n \in DOMAIN d
    BY <1>3, Domains DEF DocumentedSuperuser, DocumentedPermission
  <2>2. Routes[n] = d[n]
    BY <2>1, RouteOf DEF Controllers
  <2>3. {401, 403} \subseteq Routes[n].documented
    BY <2>1, <2>2, Domains
    DEF UserCreationRoutes, UserReadingRoutes, UserChangingRoutes, RoleReadingRoutes,
        RoleChangingRoutes, PermissionReadingRoutes, PermissionChangingRoutes,
        Gated, SuperuserOnly, Route, ApiStandardResponses
  <2>4. Answer(Routes[n], c) \in {200, 401, 403}
    BY DEF Answer
  <2> QED BY <2>3, <2>4
<1> QED BY <1>1, <1>2, <1>3, EveryRoute

\* What the code hears of a query.
LEMMA HeardIsRead ==
  ASSUME NEW q \in Queries
  PROVE  /\ Heard(q).sort = q.sort /\ Heard(q).direction = ""
         /\ DatatableType(q).filter = Heard(q).filter
         /\ DatatableType(q).sort = Or(q.sort, defaultSort, "")
         /\ KnownDirection(DatatableType(q))
         /\ \A f \in Heard(q).filter : f \in q.filter
<1>1. q = [page |-> q.page, limit |-> q.limit, filter |-> q.filter, direction |-> q.direction,
           sort |-> q.sort]
  BY DEF Queries
<1>2. /\ Heard(q).sort = q.sort /\ Heard(q).direction = ""
      /\ Heard(q).filter = {f \in q.filter : f.value # "repeated"}
  BY <1>1 DEF Heard
<1>3. DatatableType(q).sortDirection \in {"asc", "desc"}
  BY DEF DatatableType
<1> QED BY <1>2, <1>3 DEF DatatableType, FilterValidation, KnownDirection

\* Postgres refuses negative positions and malformed ids.
LEMMA PostgresAnswers ==
  ASSUME NEW q \in Queries
  PROVE  /\ Postgres(DatatableType(q)) \in {200, 500}
         /\ Postgres(DatatableType(q)) = 500
              => \/ q.page < 0 \/ q.limit < 0
                 \/ [key |-> "role_id", value |-> "malformed"] \in q.filter
<1>1. q.filter \subseteq [key : FilterKeys, value : FilterValues]
  <2>1. q.filter \in Filters
    BY DEF Queries
  <2>2. \/ q.filter = {}
        \/ \E a1, b1 \in [key : FilterKeys, value : FilterValues] : q.filter = {a1, b1}
    BY <2>1 DEF Filters
  <2> QED BY <2>2
<1>2. q.page \in {-1, 0} /\ q.limit \in {-5, 0}
  BY DEF Queries
<1>3. PICK d : d = DatatableType(q)
  OBVIOUS
<1>4. /\ d.page = Or(q.page, 1, 0) /\ d.limit = Or(q.limit, 10, 0)
      /\ d.filter = FilterValidation(q.filter)
  BY <1>3 DEF DatatableType
<1>5. Postgres(d) \in {200, 500}
  BY DEF Postgres
<1>6. ASSUME Postgres(d) = 500, q.page = 0, q.limit = 0
      PROVE  [key |-> "role_id", value |-> "malformed"] \in q.filter
  <2>1. d.page = 1 /\ d.limit = 10
    BY <1>4, <1>6 DEF Or
  <2>2. ~((d.page - 1) * d.limit < 0 \/ d.limit < 0)
    BY <2>1
  <2>3. PICK f \in d.filter : f.key = "role_id" /\ f.value = "malformed"
    BY <1>6, <2>2 DEF Postgres
  <2>4. f \in q.filter
    BY <1>4, <2>3 DEF FilterValidation
  <2>5. f = [key |-> "role_id", value |-> "malformed"]
    BY <1>1, <2>3, <2>4
  <2> QED BY <2>4, <2>5
<1> QED BY <1>2, <1>3, <1>5, <1>6

\* Each listing refuses what its documentation refuses of what the code hears.
LEMMA FindAllDocumented ==
  ASSUME NEW q \in Queries, NEW d, d = DatatableType(q), NEW h, h = Heard(q),
         NEW a, \/ name = "listUsers" /\ a = FindAllUsers(d)
                \/ name = "listRoles" /\ a = FindAllRoles(d)
                \/ name = "listPermissions" /\ a = FindAllPermissions(d)
  PROVE  /\ a = 400 <=> Unknown(h)
         /\ a = 500 => \/ q.page < 0 \/ q.limit < 0
                       \/ [key |-> "role_id", value |-> "malformed"] \in q.filter
<1>1. /\ h.sort = q.sort /\ h.direction = "" /\ d.filter = h.filter
      /\ d.sort = Or(q.sort, defaultSort, "") /\ KnownDirection(d)
  BY HeardIsRead
<1>2. /\ Postgres(d) \in {200, 500}
      /\ Postgres(d) = 500 => \/ q.page < 0 \/ q.limit < 0
                              \/ [key |-> "role_id", value |-> "malformed"] \in q.filter
  BY PostgresAnswers
<1>3. CASE name = "listUsers" /\ a = FindAllUsers(d)
  <2>1. Documented[name].sort = UserSortable /\ Documented[name].filter = UserFilterable
    BY <1>3 DEF Documented, UserSortable, UserFilterable
  <2>2. h.sort \in UserSortable \cup {""} <=> KnownSort(UserSortable, d)
    <3>1. "createdAt" \in UserSortable /\ "" \notin UserSortable
      BY DEF UserSortable
    <3>2. CASE q.sort = ""
      BY <1>1, <3>1, <3>2 DEF KnownSort, defaultSort, Or
    <3>3. CASE q.sort # ""
      BY <1>1, <3>3 DEF KnownSort, Or
    <3> QED BY <3>2, <3>3
  <2>3. (\E f \in h.filter : \/ f.key \notin UserFilterable
                             \/ f.key = "status" /\ f.value = "malformed")
          <=> ~(KnownFilters(UserFilterable, d) /\ KnownStatus(d))
    BY <1>1 DEF KnownFilters, KnownStatus
  <2>4. Unknown(h) <=> \/ h.sort \notin UserSortable \cup {""}
                       \/ \E f \in h.filter : \/ f.key \notin UserFilterable
                                              \/ f.key = "status" /\ f.value = "malformed"
    BY <1>1, <2>1 DEF Unknown
  <2>5. Unknown(h) <=> ~ /\ KnownFilters(UserFilterable, d) /\ KnownStatus(d)
                         /\ KnownSort(UserSortable, d)
    BY <2>2, <2>3, <2>4
  <2>6. a = IF Unknown(h) THEN 400 ELSE Postgres(d)
    BY <1>1, <1>3, <2>5 DEF FindAllUsers
  <2> QED BY <1>2, <2>6
<1>4. CASE name = "listRoles" /\ a = FindAllRoles(d)
  <2>1. Documented[name].sort = RoleSortable /\ Documented[name].filter = RoleFilterable
    BY <1>4 DEF Documented, RoleSortable, RoleFilterable
  <2>2. h.sort \in RoleSortable \cup {""} <=> KnownSort(RoleSortable, d)
    <3>1. "createdAt" \in RoleSortable /\ "" \notin RoleSortable
      BY DEF RoleSortable
    <3>2. CASE q.sort = ""
      BY <1>1, <3>1, <3>2 DEF KnownSort, defaultSort, Or
    <3>3. CASE q.sort # ""
      BY <1>1, <3>3 DEF KnownSort, Or
    <3> QED BY <3>2, <3>3
  <2>3. (\E f \in h.filter : \/ f.key \notin RoleFilterable
                             \/ f.key = "status" /\ f.value = "malformed")
          <=> ~KnownFilters(RoleFilterable, d)
    BY <1>1 DEF KnownFilters, RoleFilterable
  <2>4. Unknown(h) <=> \/ h.sort \notin RoleSortable \cup {""}
                       \/ \E f \in h.filter : \/ f.key \notin RoleFilterable
                                              \/ f.key = "status" /\ f.value = "malformed"
    BY <1>1, <2>1 DEF Unknown
  <2>5. Unknown(h) <=> ~(KnownFilters(RoleFilterable, d) /\ KnownSort(RoleSortable, d))
    BY <2>2, <2>3, <2>4
  <2>6. a = IF Unknown(h) THEN 400 ELSE Postgres(d)
    BY <1>1, <1>4, <2>5 DEF FindAllRoles
  <2> QED BY <1>2, <2>6
<1>5. CASE name = "listPermissions" /\ a = FindAllPermissions(d)
  <2>1. Documented[name].sort = PermissionSortable /\ Documented[name].filter = PermissionFilterable
    BY <1>5 DEF Documented, PermissionSortable, PermissionFilterable
  <2>2. h.sort \in PermissionSortable \cup {""} <=> KnownSort(PermissionSortable, d)
    <3>1. "createdAt" \in PermissionSortable /\ "" \notin PermissionSortable
      BY DEF PermissionSortable
    <3>2. CASE q.sort = ""
      BY <1>1, <3>1, <3>2 DEF KnownSort, defaultSort, Or
    <3>3. CASE q.sort # ""
      BY <1>1, <3>3 DEF KnownSort, Or
    <3> QED BY <3>2, <3>3
  <2>3. (\E f \in h.filter : \/ f.key \notin PermissionFilterable
                             \/ f.key = "status" /\ f.value = "malformed")
          <=> ~KnownFilters(PermissionFilterable, d)
    BY <1>1 DEF KnownFilters, PermissionFilterable
  <2>4. Unknown(h) <=> \/ h.sort \notin PermissionSortable \cup {""}
                       \/ \E f \in h.filter : \/ f.key \notin PermissionFilterable
                                              \/ f.key = "status" /\ f.value = "malformed"
    BY <1>1, <2>1 DEF Unknown
  <2>5. Unknown(h) <=> ~(KnownFilters(PermissionFilterable, d) /\ KnownSort(PermissionSortable, d))
    BY <2>2, <2>3, <2>4
  <2>6. a = IF Unknown(h) THEN 400 ELSE Postgres(d)
    BY <1>1, <1>5, <2>5 DEF FindAllPermissions
  <2> QED BY <1>2, <2>6
<1> QED BY <1>3, <1>4, <1>5

-----------------------------------------------------------------------------
(***************************************************************************)
(* The request, step by step.                                              *)
(***************************************************************************)
\* A step that leaves what the guards were asked and have answered.
LEMMA SameGate ==
  ASSUME RequestInv, UNCHANGED <<name, gate>>, caller' = caller \/ caller' = None
  PROVE  GatesAsDocumented' /\ RefusalsAreDocumented'
<1>1. RefusalsAreDocumented'
  BY DEF RequestInv, RefusalsAreDocumented
<1>2. CASE caller' = None
  BY <1>1, <1>2 DEF GatesAsDocumented
<1>3. CASE caller' = caller
  <2>1. DocumentedAnswer' = DocumentedAnswer
    BY <1>3 DEF DocumentedAnswer
  <2> QED BY <1>1, <1>3, <2>1 DEF RequestInv, GatesAsDocumented
<1> QED BY <1>2, <1>3

\* The guards answer.
LEMMA CanActivateStep ==
  ASSUME RequestInv, CanActivate, UNCHANGED <<query, answer>>
  PROVE  RequestInv'
<1>1. Asked /\ gate = None /\ gate' = Answer(Routes[name], caller) /\ UNCHANGED <<caller, name>>
  BY DEF RequestInv, CanActivate
<1>2. caller \in Callers /\ name \in DOMAIN Routes /\ query = None
  BY <1>1, Statuses DEF Asked
<1>3. Asked'
  BY <1>1, <1>2, Statuses DEF Asked
<1>4. DocumentedAnswer' = DocumentedAnswer
  BY <1>1 DEF DocumentedAnswer
<1>5. GatesAsDocumented'
  <2>1. gate' = DocumentedAnswer
    BY <1>1, <1>2, AnswerDocumented
  <2> QED BY <1>4, <2>1 DEF GatesAsDocumented
<1>6. RefusalsAreDocumented'
  BY <1>1, <1>2, RefusalDocumented DEF RefusalsAreDocumented
<1>7. OnlyUnknownRefused'
  BY <1>2 DEF OnlyUnknownRefused
<1> QED BY <1>3, <1>5, <1>6, <1>7 DEF RequestInv

\* The repository, or Postgres, answers.
LEMMA FindAllStep ==
  ASSUME RequestInv, FindAll
  PROVE  RequestInv'
<1>1. /\ Asked /\ query # None /\ UNCHANGED <<caller, name, gate, query>>
      /\ answer' = CASE name = "listUsers" -> FindAllUsers(DatatableType(query))
                     [] name = "listRoles" -> FindAllRoles(DatatableType(query))
                     [] name = "listPermissions" -> FindAllPermissions(DatatableType(query))
  BY DEF RequestInv, FindAll
<1>2. caller = None /\ name \in {"listUsers", "listRoles", "listPermissions"} /\ query \in Queries
  BY <1>1 DEF Asked
<1>3. Asked'
  BY <1>1, <1>2 DEF Asked
<1>4. \/ name = "listUsers" /\ answer' = FindAllUsers(DatatableType(query))
      \/ name = "listRoles" /\ answer' = FindAllRoles(DatatableType(query))
      \/ name = "listPermissions" /\ answer' = FindAllPermissions(DatatableType(query))
  <2>1. CASE name = "listUsers"
    BY <1>1, <2>1
  <2>2. CASE name = "listRoles"
    BY <1>1, <2>2
  <2>3. CASE name = "listPermissions"
    BY <1>1, <2>3
  <2> QED BY <1>2, <2>1, <2>2, <2>3
<1>5. OnlyUnknownRefused'
  <2>1. PICK q \in Queries : q = query
    BY <1>2
  <2>2. PICK a : a = answer'
    OBVIOUS
  <2>3. PICK d : d = DatatableType(q)
    OBVIOUS
  <2>4. PICK h : h = Heard(q)
    OBVIOUS
  <2>5. Unknown(h)' <=> Unknown(h)
    BY <1>1 DEF Unknown
  <2>6. \/ name = "listUsers" /\ a = FindAllUsers(d)
        \/ name = "listRoles" /\ a = FindAllRoles(d)
        \/ name = "listPermissions" /\ a = FindAllPermissions(d)
    BY <1>4, <2>1, <2>2, <2>3
  <2>7. /\ a = 400 <=> Unknown(h)
        /\ a = 500 => \/ q.page < 0 \/ q.limit < 0
                      \/ [key |-> "role_id", value |-> "malformed"] \in q.filter
    BY <2>3, <2>4, <2>6, FindAllDocumented
  <2>8. h = Heard(query)'
    BY <1>1, <2>1, <2>4 DEF Heard
  <2>9. Unknown(Heard(query))' <=> Unknown(h)
    BY <2>5, <2>8
  <2>10. q = query' /\ a = answer'
    BY <1>1, <2>1, <2>2
  <2> QED BY <2>7, <2>9, <2>10 DEF OnlyUnknownRefused
<1>6. GatesAsDocumented' /\ RefusalsAreDocumented'
  BY <1>1, SameGate
<1> QED BY <1>3, <1>5, <1>6 DEF RequestInv

\* Every step of a request.
LEMMA RequestStep ==
  ASSUME RequestInv, Request
  PROVE  RequestInv'
<1>1. CASE CanActivate /\ UNCHANGED <<query, answer>>
  BY <1>1, CanActivateStep
<1>2. CASE Admit
  <2>1. /\ Asked /\ gate = 200 /\ caller # None /\ caller' = None
        /\ name \in {"listUsers", "listRoles", "listPermissions"}
        /\ UNCHANGED <<name, gate, query, answer>>
    BY <1>2 DEF RequestInv, Admit
  <2>2. Asked'
    BY <2>1 DEF Asked
  <2>3. OnlyUnknownRefused'
    BY <2>1 DEF Asked, OnlyUnknownRefused
  <2> QED BY <2>1, <2>2, <2>3, SameGate DEF RequestInv
<1>3. CASE Bind
  <2>1. /\ Asked /\ caller = None /\ answer = None /\ query' \in Queries /\ answer' = None
        /\ UNCHANGED <<caller, name, gate, answer>> /\ name # None
    BY <1>3 DEF RequestInv, Bind, Asked
  <2>2. Asked'
    BY <2>1 DEF Asked
  <2>3. OnlyUnknownRefused'
    BY <2>1 DEF OnlyUnknownRefused
  <2> QED BY <2>1, <2>2, <2>3, SameGate DEF RequestInv
<1>4. CASE FindAll
  BY <1>4, FindAllStep
<1>5. CASE Accept
  <2>1. /\ Asked /\ query' = None /\ query # None /\ UNCHANGED <<caller, name, gate, answer>>
    BY <1>5 DEF RequestInv, Accept
  <2>2. Asked'
    BY <2>1 DEF Asked
  <2>3. OnlyUnknownRefused'
    BY <2>1 DEF OnlyUnknownRefused
  <2> QED BY <2>1, <2>2, <2>3, SameGate DEF RequestInv
<1> QED BY <1>1, <1>2, <1>3, <1>4, <1>5 DEF Request

\* The walk begins when the request has been answered.
LEMMA RequestOver ==
  ASSUME RequestInv, Begin
  PROVE  RequestInv'
<1>1. /\ Asked /\ answer = 200 /\ query = None /\ name' = None
      /\ UNCHANGED <<caller, gate, query, answer>>
  BY DEF RequestInv, Begin
<1>2. caller = None /\ gate = 200
  BY <1>1, Statuses DEF Asked
<1>3. Asked'
  BY <1>1, <1>2, Statuses DEF Asked
<1> QED BY <1>1, <1>2, <1>3
        DEF RequestInv, GatesAsDocumented, RefusalsAreDocumented, OnlyUnknownRefused

\* The walk leaves the request alone.
LEMMA RequestSame ==
  ASSUME RequestInv, UNCHANGED request
  PROVE  RequestInv'
<1>1. UNCHANGED <<caller, name, gate, query, answer>>
  BY DEF request
<1>2. Asked'
  BY <1>1 DEF RequestInv, Asked
<1>3. Unknown(Heard(query))' <=> Unknown(Heard(query))
  BY <1>1 DEF Unknown, Heard
<1>4. OnlyUnknownRefused'
  BY <1>1, <1>3 DEF RequestInv, OnlyUnknownRefused
<1> QED BY <1>1, <1>2, <1>4, SameGate DEF RequestInv

-----------------------------------------------------------------------------
(***************************************************************************)
(* The walk: its invariant.                                                *)
(***************************************************************************)
\* How many rows come before r.
Rank(r) == Cardinality(Before(r))

WalkShape ==
  /\ TypeOK
  /\ page # None => page > 0
  /\ data # None \/ total # None => page # None
  /\ name # None => page = None /\ causes = {} /\ stayed = {} /\ \A r \in Rows : seen[r] = 0

(***************************************************************************)
(* Of the two queries of a page, the one that was answered first still     *)
(* agrees with the listing unless a write came since.                      *)
(***************************************************************************)
Together ==
  /\ data # None /\ total = None /\ "torn" \notin causes
       => Cardinality(data) = PageSize(Cardinality(Listed), Offset(page))
  /\ total # None /\ data = None /\ "torn" \notin causes => total = Cardinality(Listed)
  /\ PageAgreesWithTotal

(***************************************************************************)
(* While rows only disappear, a row that was sent stays before the page    *)
(* that is asked for, and is not in it.                                    *)
(***************************************************************************)
SentStaysBehind ==
  causes \cap {"inserted", "moved"} = {} =>
    \A r \in Rows \ tied :
      /\ seen[r] <= 1
      /\ page # None /\ seen[r] > 0 /\ r \in Listed => Rank(r) < Offset(page)
      /\ data # None /\ r \in data =>
           seen[r] = 0 /\ (r \in Listed => Rank(r) < Offset(page) + Limit)

(***************************************************************************)
(* While rows are only added, and none between the count and the rows of a *)
(* page, a row that was not sent is still to come, and the total of the    *)
(* page says that there is another page.                                   *)
(***************************************************************************)
UnsentStaysAhead ==
  causes \cap {"deleted", "moved", "countedTooEarly"} = {} =>
    /\ total # None /\ data = None => total = Cardinality(Listed)
    /\ \A r \in stayed \ tied : seen[r] = 0 =>
         /\ page # None
         /\ data = None => Rank(r) >= Offset(page)
         /\ data # None /\ r \notin data =>
              /\ Rank(r) >= Offset(page) + Limit
              /\ total # None => total > Offset(page) + Limit

WalkInv == WalkShape /\ Together /\ SentStaysBehind /\ UnsentStaysAhead

-----------------------------------------------------------------------------
(***************************************************************************)
(* Pages: sizes, offsets, and the rows a page has.                         *)
(***************************************************************************)
\* What is left of the rows from the offset on, at most a page.
LEMMA PageSizeIs ==
  ASSUME NEW n \in Nat, NEW offset \in Nat
  PROVE  /\ n <= offset => PageSize(n, offset) = 0
         /\ n > offset /\ n - offset <= Limit => PageSize(n, offset) = n - offset
         /\ n > offset /\ n - offset > Limit => PageSize(n, offset) = Limit
<1>0. Limit \in Nat /\ Limit > 0
  BY LimitIsPositive
<1>1. ASSUME NEW a \in Int, NEW b \in Int
      PROVE  Max({a, b}) = IF a < b THEN b ELSE a
  BY DEF Max
<1>2. ASSUME NEW a \in Int, NEW b \in Int
      PROVE  Min({a, b}) = IF a < b THEN a ELSE b
  BY DEF Min
<1>3. PICK m \in Int : m = Min({Limit, n - offset})
  BY <1>0, <1>2
<1>4. m = IF Limit < n - offset THEN Limit ELSE n - offset
  BY <1>0, <1>2, <1>3
<1>5. PageSize(n, offset) = IF 0 < m THEN m ELSE 0
  BY <1>1, <1>3 DEF PageSize
<1> QED BY <1>0, <1>4, <1>5

\* The next page starts where this one can end.
LEMMA Offsets ==
  ASSUME NEW p \in Nat, p > 0
  PROVE  /\ Offset(p) \in Nat /\ Offset(1) = 0
         /\ Offset(p + 1) = Offset(p) + Limit
<1>1. Limit \in Nat
  BY LimitIsPositive
<1>2. PICK q \in Nat : p = q + 1
  <2>1. p - 1 \in Nat /\ p = (p - 1) + 1
    OBVIOUS
  <2> QED BY <2>1
<1>3. Offset(p) = q * Limit /\ Offset(1) = 0 * Limit /\ Offset(p + 1) = (q + 1) * Limit
  BY <1>2 DEF Offset
<1>4. q * Limit \in Nat
  BY <1>1
<1>5. (q + 1) * Limit = q * Limit + Limit /\ 0 * Limit = 0
  BY <1>1
<1> QED BY <1>3, <1>4, <1>5

\* A client stops where the total is no more than what the pages so far can hold.
LEMMA LastPage ==
  ASSUME NEW p \in Nat, p > 0, total \in Nat, ~(p < TotalPages)
  PROVE  total <= Offset(p) + Limit
<1>1. Limit \in Nat /\ Limit > 0
  BY LimitIsPositive
<1>2. PICK t \in Nat : t = total
  OBVIOUS
<1>3. PICK n \in Int : n = (t + Limit - 1) \div Limit
  BY <1>1
<1>4. n <= p
  BY <1>2, <1>3 DEF TotalPages
<1>5. t + Limit - 1 < n * Limit + Limit
  <2>1. t + Limit - 1 \in Int
    BY <1>1
  <2>2. \A x \in Int : x < (x \div Limit) * Limit + Limit
    BY <1>1
  <2> QED BY <1>3, <2>1, <2>2
<1>6. n * Limit <= p * Limit
  BY <1>1, <1>4
<1>7. Offset(p) + Limit = p * Limit
  <2>1. Offset(p) + Limit = Offset(p + 1)
    BY Offsets
  <2>2. Offset(p + 1) = p * Limit
    BY DEF Offset
  <2> QED BY <2>1, <2>2
<1>8. PICK a \in Int : a = n * Limit
  BY <1>1
<1>9. PICK b \in Int : b = p * Limit
  BY <1>1
<1>10. t < a + 1 /\ a <= b
  BY <1>1, <1>5, <1>6, <1>8, <1>9
<1> QED BY <1>2, <1>7, <1>9, <1>10

\* Sets of rows are finite, and a smaller one has a smaller number.
LEMMA Sizes ==
  ASSUME NEW A, A \subseteq Rows, NEW B, B \subseteq A
  PROVE  /\ IsFiniteSet(A) /\ IsFiniteSet(B)
         /\ Cardinality(A) \in Nat /\ Cardinality(B) \in Nat
         /\ Cardinality(B) <= Cardinality(A)
         /\ B # A => Cardinality(B) < Cardinality(A)
<1>1. IsFiniteSet(A)
  BY RowsAreFinite, FS_Subset
<1>2. /\ IsFiniteSet(B) /\ Cardinality(B) <= Cardinality(A)
      /\ Cardinality(A) = Cardinality(B) => A = B
  BY <1>1, FS_Subset
<1>3. Cardinality(A) \in Nat /\ Cardinality(B) \in Nat
  BY <1>1, <1>2, FS_CardinalityType
<1> QED BY <1>1, <1>2, <1>3

\* The rows skipped and the rows of a page.
LEMMA DisjointSizes ==
  ASSUME NEW A, A \subseteq Rows, NEW B, B \subseteq Rows, A \cap B = {}
  PROVE  Cardinality(A \cup B) = Cardinality(A) + Cardinality(B)
<1>1. IsFiniteSet(A) /\ IsFiniteSet(B) /\ Cardinality(A) \in Nat /\ Cardinality(B) \in Nat
  BY Sizes
<1>2. Cardinality(A \cup B) = Cardinality(A) + Cardinality(B) - Cardinality(A \cap B)
  BY <1>1, FS_Union
<1>3. Cardinality(A \cap B) = 0
  BY FS_EmptySet
<1> QED BY <1>1, <1>2, <1>3

\* A listed row has a positive key, any other zero.
LEMMA KeysAreNaturals ==
  ASSUME TypeOK, NEW r \in Rows
  PROVE  key[r] \in Nat
<1>1. key[r] \in Keys \cup {0}
  BY DEF TypeOK
<1>2. PICK k : k = key[r]
  OBVIOUS
<1>3. \A x \in Keys : x \in Nat
  BY KeysArePositive
<1>4. k \in Nat
  BY <1>1, <1>2, <1>3
<1> QED BY <1>2, <1>4

\* Only listed rows come before a row, and it is not one of them.
LEMMA Ranks ==
  ASSUME NEW r \in Rows
  PROVE  /\ Listed \subseteq Rows /\ Before(r) \subseteq Listed
         /\ Cardinality(Listed) \in Nat /\ Cardinality(Listed) <= Cardinality(Rows)
         /\ Cardinality(Rows) \in Nat
         /\ Rank(r) \in Nat /\ Rank(r) <= Cardinality(Listed)
         /\ TypeOK /\ r \in Listed => Rank(r) < Cardinality(Listed)
<1>1. Listed \subseteq Rows /\ Before(r) \subseteq Listed /\ Before(r) \subseteq Rows
  BY DEF Listed, Before
<1>2. TypeOK /\ r \in Listed => Before(r) # Listed
  <2>1. SUFFICES ASSUME TypeOK, r \in Before(r)
                 PROVE  FALSE
    OBVIOUS
  <2>2. key[r] \in Nat
    BY <2>1, KeysAreNaturals
  <2> QED BY <2>1, <2>2 DEF Before
<1>3. PICK L : L = Listed
  OBVIOUS
<1>4. PICK B : B = Before(r)
  OBVIOUS
<1>5. L \subseteq Rows /\ B \subseteq L /\ (TypeOK /\ r \in L => B # L)
  BY <1>1, <1>2, <1>3, <1>4
<1>6. Cardinality(L) \in Nat /\ Cardinality(L) <= Cardinality(Rows) /\ Cardinality(Rows) \in Nat
  BY <1>5, Sizes
<1>7. Cardinality(B) \in Nat /\ Cardinality(B) <= Cardinality(L)
      /\ (B # L => Cardinality(B) < Cardinality(L))
  BY <1>5, Sizes
<1>8. Rank(r) = Cardinality(B)
  BY <1>4 DEF Rank
<1> QED BY <1>1, <1>3, <1>5, <1>6, <1>7, <1>8

(***************************************************************************)
(* A page has the listed rows of its ranks, wherever no key is shared.     *)
(***************************************************************************)
LEMMA PageRanks ==
  ASSUME TypeOK, NEW offset \in Nat, NEW set \in SUBSET Listed, IsPage(set, offset),
         NEW r \in Listed, r \notin Ties
  PROVE  /\ r \in set => offset <= Rank(r) /\ Rank(r) < offset + Cardinality(set)
         /\ r \notin set => Rank(r) < offset \/ Rank(r) >= offset + Cardinality(set)
<1>0. Listed \subseteq Rows /\ r \in Rows /\ \A x \in Listed : key[x] \in Nat
  BY KeysAreNaturals DEF Listed
<1>1. PICK skipped \in SUBSET (Listed \ set) :
        /\ Cardinality(skipped) = offset
        /\ \A x \in skipped : Before(x) \subseteq skipped
        /\ \A x \in set : Before(x) \subseteq skipped \cup set
  BY DEF IsPage
<1>2. \A x \in Listed \ {r} : key[x] # key[r]
  BY DEF Ties
<1>3. PICK B : B = Before(r)
  OBVIOUS
<1>4. B \subseteq Rows /\ r \notin B /\ B \subseteq Listed
  BY <1>0, <1>3 DEF Before
<1>5. \A x \in Listed \ {r} : x \in B \/ r \in Before(x)
  BY <1>0, <1>2, <1>3 DEF Before
<1>6. Cardinality(skipped \cup set) = offset + Cardinality(set)
      /\ skipped \cup set \subseteq Rows /\ skipped \subseteq Rows
  BY <1>0, <1>1, DisjointSizes
<1>7. Cardinality(skipped \cup set) \in Nat /\ Cardinality(B) \in Nat /\ Cardinality(set) \in Nat
  BY <1>0, <1>4, <1>6, Sizes
<1>8. CASE r \in set
  <2>1. skipped \subseteq B
    BY <1>0, <1>1, <1>5, <1>8
  <2>2. offset <= Cardinality(B)
    BY <1>1, <1>4, <2>1, Sizes
  <2>3. B \subseteq skipped \cup set /\ B # skipped \cup set
    BY <1>1, <1>3, <1>4, <1>8
  <2>4. Cardinality(B) < offset + Cardinality(set)
    BY <1>6, <2>3, Sizes
  <2> QED BY <1>3, <1>8, <2>2, <2>4 DEF Rank
<1>9. CASE r \in skipped
  <2>1. B \subseteq skipped /\ B # skipped
    BY <1>1, <1>3, <1>4, <1>9
  <2>2. Cardinality(B) < offset
    BY <1>1, <1>6, <2>1, Sizes
  <2> QED BY <1>1, <1>3, <1>9, <2>2 DEF Rank
<1>10. CASE r \notin set /\ r \notin skipped
  <2>1. skipped \cup set \subseteq B
    BY <1>0, <1>1, <1>5, <1>10
  <2>2. offset + Cardinality(set) <= Cardinality(B)
    BY <1>4, <1>6, <2>1, Sizes
  <2> QED BY <1>3, <1>7, <1>10, <2>2 DEF Rank
<1> QED BY <1>8, <1>9, <1>10

-----------------------------------------------------------------------------
(***************************************************************************)
(* The walk, step by step.                                                 *)
(***************************************************************************)
\* What TypeOK says once the walk is on.
LEMMA Walking ==
  ASSUME WalkShape, page # None
  PROVE  /\ page \in Nat /\ page > 0 /\ name = None
         /\ Offset(page) \in Nat /\ Offset(page + 1) = Offset(page) + Limit
         /\ Limit \in Nat /\ Limit > 0
<1>1. page \in Nat /\ page > 0 /\ name = None
  BY DEF WalkShape, TypeOK
<1>2. PICK p \in Nat : p = page
  BY <1>1
<1> QED BY <1>1, <1>2, Offsets, LimitIsPositive

\* Nobody writes: every row keeps its rank.
LEMMA SameOrder ==
  ASSUME key' = key
  PROVE  Listed' = Listed /\ \A r : Rank(r)' = Rank(r)
<1>1. Listed' = Listed
  BY DEF Listed
<1>2. \A r : Before(r)' = Before(r)
  BY <1>1 DEF Before
<1> QED BY <1>1, <1>2 DEF Rank

\* The rows of the page are read.
LEMMA FindManyStep ==
  ASSUME WalkInv, FindMany, name' = name
  PROVE  WalkInv'
<1>1. /\ WalkShape /\ TypeOK /\ page # None /\ data = None /\ tied' = tied \cup Ties
      /\ UNCHANGED <<key, page, total, seen, writes, stayed, causes, name>>
  BY DEF WalkInv, WalkShape, FindMany
<1>2. PICK set \in kSubset(PageSize(Cardinality(Listed), Offset(page)), Listed) :
        (set = {} \/ IsPage(set, Offset(page))) /\ data' = set
  BY DEF FindMany
<1>3. PICK offset : offset = Offset(page)
  OBVIOUS
<1>4. offset \in Nat /\ page \in Nat /\ name = None /\ Limit \in Nat /\ Limit > 0
  BY <1>1, <1>3, Walking
<1>5. PICK n : n = Cardinality(Listed)
  OBVIOUS
<1>6. Listed \subseteq Rows /\ n \in Nat /\ n <= Cardinality(Rows)
  <2>1. Listed \subseteq Rows
    BY DEF Listed
  <2>2. PICK L : L = Listed
    OBVIOUS
  <2> QED BY <1>5, <2>1, <2>2, Sizes
<1>7. set \subseteq Listed /\ Cardinality(set) = PageSize(n, offset)
  BY <1>2, <1>3, <1>5 DEF kSubset
<1>8. /\ n <= offset => Cardinality(set) = 0
      /\ n > offset /\ n - offset <= Limit => Cardinality(set) = n - offset
      /\ n > offset /\ n - offset > Limit => Cardinality(set) = Limit
  BY <1>4, <1>6, <1>7, PageSizeIs
<1>9. ASSUME NEW r \in Listed, r \notin Ties
      PROVE  /\ r \in set => offset <= Rank(r) /\ Rank(r) < offset + Limit
             /\ r \notin set => Rank(r) < offset \/ Rank(r) >= offset + Limit
  <2>1. Rank(r) \in Nat /\ Rank(r) < n
    BY <1>1, <1>5, <1>6, Ranks
  <2>2. CASE set = {}
    <3>1. n <= offset
      BY <1>4, <1>6, <1>8, <2>2, FS_EmptySet
    <3> QED BY <1>4, <1>6, <2>1, <2>2, <3>1
  <2>3. CASE IsPage(set, offset)
    <3>1. /\ r \in set => offset <= Rank(r) /\ Rank(r) < offset + Cardinality(set)
          /\ r \notin set => Rank(r) < offset \/ Rank(r) >= offset + Cardinality(set)
      BY <1>1, <1>4, <1>7, <1>9, <2>3, PageRanks
    <3> QED BY <1>4, <1>6, <1>8, <2>1, <3>1
  <2> QED BY <1>2, <1>3, <2>2, <2>3
<1>10. Listed' = Listed /\ \A r : Rank(r)' = Rank(r)
  BY <1>1, SameOrder
<1>11. WalkShape'
  <2>1. data' \subseteq Rows /\ Cardinality(data') <= Limit
    BY <1>2, <1>4, <1>6, <1>7, <1>8
  <2>2. stayed' \subseteq Listed' /\ tied' \subseteq Rows
    BY <1>1, <1>6, <1>10 DEF TypeOK, Ties
  <2>3. TypeOK'
    BY <1>1, <2>1, <2>2 DEF TypeOK
  <2> QED BY <1>1, <1>4, <2>3 DEF WalkShape
<1>12. Together'
  <2>1. Offset(page)' = offset /\ Cardinality(Listed)' = n
    BY <1>1, <1>3, <1>5, <1>10
  <2>2. total # None /\ data = None /\ "torn" \notin causes => total = n
    BY <1>5 DEF WalkInv, Together
  <2>3. PageAgreesWithTotal'
    BY <1>1, <1>2, <1>7, <2>1, <2>2 DEF PageAgreesWithTotal
  <2>4. data' # None /\ total' = None /\ "torn" \notin causes'
          => Cardinality(data') = PageSize(Cardinality(Listed)', Offset(page)')
    BY <1>2, <1>7, <2>1
  <2>5. total' # None /\ data' = None /\ "torn" \notin causes' => total' = Cardinality(Listed)'
    BY <1>1, <2>1, <2>2
  <2> QED BY <2>3, <2>4, <2>5 DEF Together
<1>13. SentStaysBehind'
  <2>1. SUFFICES ASSUME causes \cap {"inserted", "moved"} = {}, NEW r \in Rows \ tied, r \notin Ties
                 PROVE  /\ seen[r] <= 1
                        /\ seen[r] > 0 /\ r \in Listed => Rank(r) < offset
                        /\ r \in set => seen[r] = 0 /\ (r \in Listed => Rank(r) < offset + Limit)
    BY <1>1, <1>2, <1>3, <1>10 DEF SentStaysBehind
  <2>2. /\ seen[r] <= 1
        /\ seen[r] > 0 /\ r \in Listed => Rank(r) < offset
    BY <1>1, <1>3, <2>1 DEF WalkInv, SentStaysBehind
  <2>3. seen[r] \in Nat /\ Rank(r) \in Nat
    BY <1>1, Ranks DEF TypeOK
  <2>4. CASE r \in set
    BY <1>4, <1>7, <1>9, <2>1, <2>2, <2>3, <2>4
  <2> QED BY <2>2, <2>4
<1>14. UnsentStaysAhead'
  <2>1. SUFFICES ASSUME causes \cap {"deleted", "moved", "countedTooEarly"} = {}
                 PROVE  /\ total # None => total = n
                        /\ \A r \in stayed \ (tied \cup Ties) : seen[r] = 0 =>
                             /\ set = None => Rank(r) >= offset
                             /\ r \notin set =>
                                  /\ Rank(r) >= offset + Limit
                                  /\ total # None => total > offset + Limit
    BY <1>1, <1>2, <1>3, <1>5, <1>10 DEF UnsentStaysAhead
  <2>2. total # None => total = n
    BY <1>1, <1>5, <2>1 DEF WalkInv, UnsentStaysAhead
  <2>3. ASSUME NEW r \in stayed \ (tied \cup Ties), seen[r] = 0
        PROVE  /\ Rank(r) >= offset
               /\ r \notin set =>
                    /\ Rank(r) >= offset + Limit
                    /\ total # None => total > offset + Limit
    <3>1. Rank(r) >= offset
      BY <1>1, <1>3, <2>1, <2>3 DEF WalkInv, UnsentStaysAhead
    <3>2. r \in Listed /\ r \notin Ties
      BY <1>1 DEF TypeOK
    <3>3. Rank(r) \in Nat /\ Rank(r) < n
      BY <1>1, <1>5, <1>6, <3>2, Ranks
    <3> QED BY <1>4, <1>6, <1>9, <2>2, <3>1, <3>2, <3>3
  <2> QED BY <2>2, <2>3
<1> QED BY <1>11, <1>12, <1>13, <1>14 DEF WalkInv

\* The total of the page is read.
LEMMA CountStep ==
  ASSUME WalkInv, Count, name' = name
  PROVE  WalkInv'
<1>1. /\ WalkShape /\ TypeOK /\ page # None /\ total = None /\ total' = Cardinality(Listed)
      /\ UNCHANGED <<key, page, data, seen, writes, stayed, tied, causes, name>>
  BY DEF WalkInv, WalkShape, Count
<1>2. Listed' = Listed /\ \A r : Rank(r)' = Rank(r)
  BY <1>1, SameOrder
<1>3. PICK n : n = Cardinality(Listed)
  OBVIOUS
<1>4. n \in Nat /\ n <= Cardinality(Rows) /\ Cardinality(Rows) \in Nat
  <2>1. PICK L : L = Listed
    OBVIOUS
  <2>2. L \subseteq Rows
    BY <2>1 DEF Listed
  <2> QED BY <1>3, <2>1, <2>2, Sizes
<1>5. WalkShape'
  <2>1. total' \in 0..Cardinality(Rows)
    BY <1>1, <1>3, <1>4
  <2>2. TypeOK'
    BY <1>1, <1>2, <2>1 DEF TypeOK
  <2> QED BY <1>1, <2>2 DEF WalkShape
<1>6. Together'
  <2>1. PICK offset : offset = Offset(page)
    OBVIOUS
  <2>2. data # None /\ "torn" \notin causes => Cardinality(data) = PageSize(n, offset)
    BY <1>1, <1>3, <2>1 DEF WalkInv, Together
  <2>3. PageAgreesWithTotal'
    BY <1>1, <1>3, <2>1, <2>2 DEF PageAgreesWithTotal
  <2>4. total' # None
    BY <1>1, <1>3, <1>4, NoneIsNoStatus
  <2> QED BY <1>1, <1>2, <2>3, <2>4 DEF Together
<1>7. SentStaysBehind'
  BY <1>1, <1>2 DEF WalkInv, SentStaysBehind
<1>8. UnsentStaysAhead'
  <2>1. SUFFICES ASSUME causes \cap {"deleted", "moved", "countedTooEarly"} = {},
                        NEW r \in stayed \ tied, seen[r] = 0
                 PROVE  /\ data = None => Rank(r) >= Offset(page)
                        /\ data # None /\ r \notin data =>
                             /\ Rank(r) >= Offset(page) + Limit
                             /\ n > Offset(page) + Limit
    BY <1>1, <1>2, <1>3 DEF UnsentStaysAhead
  <2>2. /\ data = None => Rank(r) >= Offset(page)
        /\ data # None /\ r \notin data => Rank(r) >= Offset(page) + Limit
    BY <1>1, <2>1 DEF WalkInv, UnsentStaysAhead
  <2>3. r \in Listed
    BY <1>1 DEF TypeOK
  <2>4. Rank(r) \in Nat /\ Rank(r) < n
    BY <1>1, <1>3, <2>3, Ranks DEF Listed
  <2>5. Offset(page) \in Nat /\ Limit \in Nat
    BY <1>1, Walking
  <2> QED BY <1>4, <2>2, <2>4, <2>5
<1> QED BY <1>5, <1>6, <1>7, <1>8 DEF WalkInv

\* The page is sent.
LEMMA RespondStep ==
  ASSUME WalkInv, Respond, name' = name
  PROVE  WalkInv'
<1>1. /\ WalkShape /\ TypeOK /\ data # None /\ total # None
      /\ seen' = [r \in Rows |-> seen[r] + (IF r \in data THEN 1 ELSE 0)]
      /\ page' = IF page < TotalPages THEN page + 1 ELSE None
      /\ data' = None /\ total' = None
      /\ causes' = causes \ {"torn"}
      /\ UNCHANGED <<key, writes, stayed, tied, name>>
  BY DEF WalkInv, WalkShape, Respond
<1>2. page # None
  BY <1>1 DEF WalkShape
<1>3. /\ page \in Nat /\ page > 0 /\ name = None
      /\ Offset(page) \in Nat /\ Offset(page + 1) = Offset(page) + Limit
      /\ Limit \in Nat /\ Limit > 0
  BY <1>1, <1>2, Walking
<1>4. Listed' = Listed /\ \A r : Rank(r)' = Rank(r)
  BY <1>1, SameOrder
<1>5. page' = page + 1 \/ page' = None
  BY <1>1
<1>6. page + 1 \in Nat /\ page + 1 # None
  <2>1. page + 1 \in Nat
    BY <1>3
  <2> QED BY <2>1, NoneIsNoStatus
<1>7. ASSUME NEW r \in Rows
      PROVE  /\ seen[r] \in Nat /\ seen'[r] \in Nat
             /\ r \in data => seen'[r] = seen[r] + 1
             /\ r \notin data => seen'[r] = seen[r]
  <2>1. seen[r] \in Nat
    BY <1>1 DEF TypeOK
  <2> QED BY <1>1, <2>1
<1>8. WalkShape'
  <2>1. seen' \in [Rows -> Nat]
    BY <1>1, <1>7
  <2>2. page' \in Nat \cup {None}
    BY <1>5, <1>6
  <2>3. causes' \subseteq Causes
    BY <1>1 DEF TypeOK
  <2>4. TypeOK'
    BY <1>1, <1>4, <2>1, <2>2, <2>3 DEF TypeOK
  <2>5. page' # None => page' > 0
    BY <1>3, <1>5
  <2> QED BY <1>1, <1>3, <2>4, <2>5 DEF WalkShape
<1>9. Together'
  BY <1>1 DEF Together, PageAgreesWithTotal
<1>10. SentStaysBehind'
  <2>1. SUFFICES ASSUME causes \cap {"inserted", "moved"} = {}, NEW r \in Rows \ tied
                 PROVE  /\ seen'[r] <= 1
                        /\ seen'[r] > 0 /\ r \in Listed => Rank(r) < Offset(page) + Limit
    BY <1>1, <1>3, <1>4, <1>5 DEF SentStaysBehind
  <2>2. /\ seen[r] <= 1
        /\ seen[r] > 0 /\ r \in Listed => Rank(r) < Offset(page)
        /\ r \in data => seen[r] = 0 /\ (r \in Listed => Rank(r) < Offset(page) + Limit)
    BY <1>1, <1>2, <2>1 DEF WalkInv, SentStaysBehind
  <2>3. Rank(r) \in Nat
    BY Ranks
  <2> QED BY <1>3, <1>7, <2>2, <2>3
<1>11. UnsentStaysAhead'
  <2>1. SUFFICES ASSUME causes \cap {"deleted", "moved", "countedTooEarly"} = {},
                        NEW r \in stayed \ tied, seen'[r] = 0
                 PROVE  page' = page + 1 /\ Rank(r) >= Offset(page) + Limit
    BY <1>1, <1>3, <1>4, <1>6 DEF UnsentStaysAhead
  <2>2. r \in Rows
    BY <1>1 DEF TypeOK, Listed
  <2>3. r \notin data /\ seen[r] = 0
    BY <1>7, <2>1, <2>2
  <2>4. Rank(r) >= Offset(page) + Limit /\ total > Offset(page) + Limit
    BY <1>1, <2>1, <2>3 DEF WalkInv, UnsentStaysAhead
  <2>5. total \in Nat
    BY <1>1, RowsAreFinite, FS_CardinalityType DEF TypeOK
  <2>6. page < TotalPages
    <3>1. PICK p \in Nat : p = page
      BY <1>3
    <3>2. ~(p < TotalPages) => total <= Offset(p) + Limit
      BY <1>3, <2>5, <3>1, LastPage
    <3> QED BY <1>3, <2>4, <2>5, <3>1, <3>2
  <2> QED BY <1>1, <2>4, <2>6
<1> QED BY <1>8, <1>9, <1>10, <1>11 DEF WalkInv

-----------------------------------------------------------------------------
(***************************************************************************)
(* The walk while others write.                                            *)
(***************************************************************************)
\* What a write leaves, and what it is remembered for.
LEMMA WriteLeaves ==
  ASSUME WalkShape, NEW cause \in {"inserted", "deleted", "moved"}, Write(cause), name' = name,
         key' \in [Rows -> Keys \cup {0}], stayed' \subseteq Listed'
  PROVE  /\ WalkShape'
         /\ page # None /\ UNCHANGED <<page, data, total, seen, tied>>
         /\ cause \in causes' /\ causes \subseteq causes'
         /\ (data = None) # (total = None) => "torn" \in causes'
         /\ cause = "inserted" /\ data = None /\ total # None => "countedTooEarly" \in causes'
<1>1. /\ page # None /\ writes < MaxWrites /\ writes' = writes + 1
      /\ causes' = causes \cup {cause}
               \cup (IF (data = None) # (total = None) THEN {"torn"} ELSE {})
               \cup (IF cause = "inserted" /\ data = None /\ total # None
                     THEN {"countedTooEarly"} ELSE {})
      /\ UNCHANGED <<page, data, total, seen, tied>>
  BY DEF Write, walk
<1>2. TypeOK
  BY DEF WalkShape
<1>3. writes' \in 0..MaxWrites
  BY <1>1, <1>2, WritesAreBounded DEF TypeOK
<1>4. causes' \subseteq Causes
  BY <1>1, <1>2 DEF TypeOK, Causes
<1>5. TypeOK'
  BY <1>1, <1>2, <1>3, <1>4 DEF TypeOK
<1>6. WalkShape'
  BY <1>1, <1>5 DEF WalkShape
<1>7. cause \in causes' /\ causes \subseteq causes'
  BY <1>1
<1>8. (data = None) # (total = None) => "torn" \in causes'
  BY <1>1
<1>9. cause = "inserted" /\ data = None /\ total # None => "countedTooEarly" \in causes'
  BY <1>1
<1> QED BY <1>1, <1>6, <1>7, <1>8, <1>9

\* A write between the two queries of a page tears it; before or after both, it does not matter.
LEMMA WriteTogether ==
  ASSUME Together, UNCHANGED <<page, data, total>>, causes \subseteq causes',
         (data = None) # (total = None) => "torn" \in causes'
  PROVE  Together'
<1>1. PageAgreesWithTotal'
  BY DEF Together, PageAgreesWithTotal
<1> QED BY <1>1 DEF Together

\* An insertion pushes rows back, and none forward.
LEMMA InsertStep ==
  ASSUME WalkInv, Insert, name' = name
  PROVE  WalkInv'
<1>1. /\ WalkShape /\ TypeOK /\ Write("inserted") /\ stayed' = stayed
  BY DEF WalkInv, WalkShape, Insert
<1>2. PICK new \in SUBSET (Rows \ Listed) \ {{}}, k \in Free :
        key' = [r \in Rows |-> IF r \in new THEN k ELSE key[r]]
  BY DEF Insert
<1>3. k \in Keys /\ k # 0
  <2>1. k \in Keys
    BY DEF Free
  <2> QED BY <2>1, KeysArePositive
<1>4. key' \in [Rows -> Keys \cup {0}]
  BY <1>1, <1>2, <1>3 DEF TypeOK
<1>5. \A r \in Listed : r \in Rows /\ r \notin new /\ key'[r] = key[r] /\ r \in Listed'
  BY <1>2 DEF Listed
<1>6. /\ WalkShape'
      /\ page # None /\ UNCHANGED <<page, data, total, seen, tied>>
      /\ "inserted" \in causes' /\ causes \subseteq causes'
      /\ (data = None) # (total = None) => "torn" \in causes'
      /\ data = None /\ total # None => "countedTooEarly" \in causes'
  <2>1. stayed' \subseteq Listed'
    BY <1>1, <1>5 DEF TypeOK
  <2> QED BY <1>1, <1>4, <2>1, WriteLeaves
<1>7. ASSUME NEW r \in Listed
      PROVE  Rank(r) \in Nat /\ Rank(r)' \in Nat /\ Rank(r) <= Rank(r)'
  <2>1. PICK B : B = Before(r)
    OBVIOUS
  <2>2. PICK A : A = Before(r)'
    OBVIOUS
  <2>3. A \subseteq Rows
    BY <2>2 DEF Before, Listed
  <2>4. B \subseteq A
    BY <1>5, <2>1, <2>2 DEF Before
  <2>5. Cardinality(A) \in Nat /\ Cardinality(B) \in Nat /\ Cardinality(B) <= Cardinality(A)
    BY <2>3, <2>4, Sizes
  <2>6. Rank(r) = Cardinality(B) /\ Rank(r)' = Cardinality(A)
    BY <2>1, <2>2 DEF Rank
  <2> QED BY <2>5, <2>6
<1>8. Together'
  BY <1>6, WriteTogether DEF WalkInv
<1>9. SentStaysBehind'
  BY <1>6 DEF SentStaysBehind
<1>10. UnsentStaysAhead'
  <2>1. SUFFICES ASSUME causes \cap {"deleted", "moved", "countedTooEarly"} = {},
                        ~(data = None /\ total # None),
                        NEW r \in stayed \ tied, seen[r] = 0
                 PROVE  /\ data = None => Rank(r)' >= Offset(page)
                        /\ data # None /\ r \notin data =>
                             /\ Rank(r)' >= Offset(page) + Limit
                             /\ total # None => total > Offset(page) + Limit
    BY <1>1, <1>6 DEF UnsentStaysAhead
  <2>2. /\ data = None => Rank(r) >= Offset(page)
        /\ data # None /\ r \notin data =>
             /\ Rank(r) >= Offset(page) + Limit
             /\ total # None => total > Offset(page) + Limit
    BY <1>1, <2>1 DEF WalkInv, UnsentStaysAhead
  <2>3. r \in Listed
    BY <1>1 DEF TypeOK
  <2>4. Offset(page) \in Nat /\ Limit \in Nat
    BY <1>1, <1>6, Walking
  <2> QED BY <1>7, <2>2, <2>3, <2>4
<1> QED BY <1>6, <1>8, <1>9, <1>10 DEF WalkInv

\* A deletion moves rows forward, and none back.
LEMMA DeleteStep ==
  ASSUME WalkInv, Delete, name' = name
  PROVE  WalkInv'
<1>1. /\ WalkShape /\ TypeOK /\ Write("deleted")
  BY DEF WalkInv, WalkShape, Delete
<1>2. PICK x \in Listed : key' = [key EXCEPT ![x] = 0] /\ stayed' = stayed \ {x}
  BY DEF Delete
<1>3. key' \in [Rows -> Keys \cup {0}]
  BY <1>1, <1>2 DEF TypeOK
<1>4. \A r \in Rows : r # x => key'[r] = key[r]
  BY <1>1, <1>2 DEF TypeOK
<1>5. x \in Rows /\ key'[x] = 0
  BY <1>1, <1>2 DEF TypeOK, Listed
<1>6. Listed' = Listed \ {x}
  BY <1>4, <1>5 DEF Listed
<1>7. /\ WalkShape'
      /\ page # None /\ UNCHANGED <<page, data, total, seen, tied>>
      /\ "deleted" \in causes' /\ causes \subseteq causes'
      /\ (data = None) # (total = None) => "torn" \in causes'
  <2>1. stayed' \subseteq Listed'
    BY <1>1, <1>2, <1>6 DEF TypeOK
  <2> QED BY <1>1, <1>3, <2>1, WriteLeaves
<1>8. ASSUME NEW r \in Listed'
      PROVE  Rank(r) \in Nat /\ Rank(r)' \in Nat /\ Rank(r)' <= Rank(r)
  <2>1. PICK B : B = Before(r)
    OBVIOUS
  <2>2. PICK A : A = Before(r)'
    OBVIOUS
  <2>3. B \subseteq Rows
    BY <2>1 DEF Before, Listed
  <2>4. A \subseteq B
    <3>1. \A y \in Listed' : y \in Listed /\ y \in Rows /\ key'[y] = key[y]
      BY <1>4, <1>6 DEF Listed
    <3> QED BY <3>1, <2>1, <2>2 DEF Before
  <2>5. Cardinality(A) \in Nat /\ Cardinality(B) \in Nat /\ Cardinality(A) <= Cardinality(B)
    BY <2>3, <2>4, Sizes
  <2>6. Rank(r) = Cardinality(B) /\ Rank(r)' = Cardinality(A)
    BY <2>1, <2>2 DEF Rank
  <2> QED BY <2>5, <2>6
<1>9. Together'
  BY <1>7, WriteTogether DEF WalkInv
<1>10. UnsentStaysAhead'
  BY <1>7 DEF UnsentStaysAhead
<1>11. SentStaysBehind'
  <2>1. SUFFICES ASSUME causes \cap {"inserted", "moved"} = {}, NEW r \in Rows \ tied
                 PROVE  /\ seen[r] <= 1
                        /\ seen[r] > 0 /\ r \in Listed' => Rank(r)' < Offset(page)
                        /\ data # None /\ r \in data =>
                             seen[r] = 0 /\ (r \in Listed' => Rank(r)' < Offset(page) + Limit)
    BY <1>7 DEF SentStaysBehind
  <2>2. /\ seen[r] <= 1
        /\ seen[r] > 0 /\ r \in Listed => Rank(r) < Offset(page)
        /\ data # None /\ r \in data =>
             seen[r] = 0 /\ (r \in Listed => Rank(r) < Offset(page) + Limit)
    BY <1>7, <2>1 DEF WalkInv, SentStaysBehind
  <2>3. Offset(page) \in Nat /\ Limit \in Nat
    BY <1>1, <1>7, Walking
  <2> QED BY <1>6, <1>8, <2>2, <2>3
<1> QED BY <1>7, <1>9, <1>10, <1>11 DEF WalkInv

\* A row whose key changes excuses every page after.
LEMMA UpdateStep ==
  ASSUME WalkInv, Update, name' = name
  PROVE  WalkInv'
<1>1. /\ WalkShape /\ TypeOK /\ Write("moved") /\ stayed' = stayed
  BY DEF WalkInv, WalkShape, Update
<1>2. PICK x \in Listed, k \in Free : key' = [key EXCEPT ![x] = k]
  BY DEF Update
<1>3. k \in Keys /\ k # 0
  <2>1. k \in Keys
    BY DEF Free
  <2> QED BY <2>1, KeysArePositive
<1>4. key' \in [Rows -> Keys \cup {0}]
  BY <1>1, <1>2, <1>3 DEF TypeOK
<1>5. Listed \subseteq Listed'
  BY <1>1, <1>2, <1>3 DEF Listed, TypeOK
<1>6. /\ WalkShape'
      /\ page # None /\ UNCHANGED <<page, data, total, seen, tied>>
      /\ "moved" \in causes' /\ causes \subseteq causes'
      /\ (data = None) # (total = None) => "torn" \in causes'
  <2>1. stayed' \subseteq Listed'
    BY <1>1, <1>5 DEF TypeOK
  <2> QED BY <1>1, <1>4, <2>1, WriteLeaves
<1>7. Together'
  BY <1>6, WriteTogether DEF WalkInv
<1>8. SentStaysBehind' /\ UnsentStaysAhead'
  BY <1>6 DEF SentStaysBehind, UnsentStaysAhead
<1> QED BY <1>6, <1>7, <1>8 DEF WalkInv

\* The walk begins with every listed row ahead.
LEMMA BeginStep ==
  ASSUME WalkInv, Begin
  PROVE  WalkInv'
<1>1. /\ WalkShape /\ TypeOK /\ name # None /\ name' = None
      /\ key' \in [Rows -> Keys \cup {0}] /\ stayed' = Listed' /\ page' = 1
      /\ UNCHANGED <<data, total, seen, writes, tied, causes>>
  BY DEF WalkInv, WalkShape, Begin
<1>2. /\ causes = {} /\ data = None /\ total = None
      /\ \A r \in Rows : seen[r] = 0
  BY <1>1 DEF WalkShape
<1>3. 1 \in Nat /\ 1 # None /\ Offset(1) = 0
  <2>1. Offset(1) = 0
    BY Offsets
  <2> QED BY <2>1, NoneIsNoStatus
<1>4. TypeOK'
  BY <1>1, <1>3 DEF TypeOK
<1>5. WalkShape'
  BY <1>1, <1>3, <1>4 DEF WalkShape
<1>6. Together'
  BY <1>1, <1>2 DEF Together, PageAgreesWithTotal
<1>7. SentStaysBehind'
  BY <1>1, <1>2 DEF SentStaysBehind
<1>8. \A r \in Rows : Rank(r)' \in Nat
  <2>1. SUFFICES ASSUME NEW r \in Rows PROVE Rank(r)' \in Nat
    OBVIOUS
  <2>2. PICK A : A = Before(r)'
    OBVIOUS
  <2>3. A \subseteq Rows
    BY <2>2 DEF Before, Listed
  <2>4. Cardinality(A) \in Nat
    BY <2>3, Sizes
  <2> QED BY <2>2, <2>4 DEF Rank
<1>9. UnsentStaysAhead'
  <2>1. \A r \in stayed' : Rank(r)' >= Offset(page')
    BY <1>1, <1>3, <1>8 DEF Listed
  <2> QED BY <1>1, <1>2, <1>3, <2>1 DEF UnsentStaysAhead
<1> QED BY <1>5, <1>6, <1>7, <1>9 DEF WalkInv

\* A step of the request leaves the walk, which has not begun, alone.
LEMMA WalkSame ==
  ASSUME WalkInv, UNCHANGED rows, name' = name
  PROVE  WalkInv'
<1>1. UNCHANGED <<key, page, data, total, seen, writes, stayed, tied, causes>> /\ name' = name
  BY DEF rows, walk
<1>2. Listed' = Listed /\ \A r : Rank(r)' = Rank(r)
  BY <1>1, SameOrder
<1>3. TypeOK'
  BY <1>1, <1>2 DEF WalkInv, WalkShape, TypeOK
<1>4. WalkShape'
  BY <1>1, <1>3 DEF WalkInv, WalkShape
<1>5. Together'
  BY <1>1, <1>2 DEF WalkInv, Together, PageAgreesWithTotal
<1>6. SentStaysBehind'
  BY <1>1, <1>2 DEF WalkInv, SentStaysBehind
<1>7. UnsentStaysAhead'
  BY <1>1, <1>2 DEF WalkInv, UnsentStaysAhead
<1> QED BY <1>4, <1>5, <1>6, <1>7 DEF WalkInv

-----------------------------------------------------------------------------
(***************************************************************************)
(* The invariant, and what follows.                                        *)
(***************************************************************************)
Inv == RequestInv /\ WalkInv

\* A request arrives.
LEMMA InitInv == Init => Inv
<1>0. SUFFICES ASSUME Init PROVE Inv
  OBVIOUS
<1>1. /\ caller \in Callers /\ name \in DOMAIN Routes /\ gate = None
      /\ query = None /\ answer = None
      /\ key = [r \in Rows |-> 0] /\ page = None /\ data = None /\ total = None
      /\ seen = [r \in Rows |-> 0] /\ writes = 0
      /\ stayed = {} /\ tied = {} /\ causes = {}
  BY <1>0 DEF Init, Arrives
<1>2. Asked
  BY <1>1, Statuses DEF Asked
<1>3. RequestInv
  BY <1>1, <1>2
  DEF RequestInv, GatesAsDocumented, RefusalsAreDocumented, OnlyUnknownRefused
<1>4. TypeOK
  BY <1>1, WritesAreBounded DEF TypeOK
<1>5. WalkShape
  BY <1>1, <1>4 DEF WalkShape
<1>6. Together
  BY <1>1 DEF Together, PageAgreesWithTotal
<1>7. SentStaysBehind
  BY <1>1 DEF SentStaysBehind
<1>8. UnsentStaysAhead
  BY <1>1 DEF UnsentStaysAhead
<1> QED BY <1>3, <1>5, <1>6, <1>7, <1>8 DEF Inv, WalkInv

\* Whatever happens next.
LEMMA StepInv == Inv /\ [Next]_vars => Inv'
<1>0. SUFFICES ASSUME Inv, [Next]_vars PROVE Inv'
  OBVIOUS
<1>1. RequestInv /\ WalkInv
  BY <1>0 DEF Inv
<1>2. CASE Request /\ UNCHANGED rows
  <2>1. name' = name
    BY <1>2 DEF Request, CanActivate, Admit, Bind, FindAll, Accept
  <2> QED BY <1>1, <1>2, <2>1, RequestStep, WalkSame DEF Inv
<1>3. CASE Begin
  BY <1>1, <1>3, RequestOver, BeginStep DEF Inv
<1>4. CASE Walk /\ UNCHANGED request
  <2>1. name' = name
    BY <1>4 DEF request
  <2>2. WalkInv'
    BY <1>1, <1>4, <2>1, FindManyStep, CountStep, RespondStep, InsertStep, DeleteStep, UpdateStep
    DEF Walk
  <2> QED BY <1>1, <1>4, <2>2, RequestSame DEF Inv
<1>5. CASE UNCHANGED vars
  <2>1. UNCHANGED request /\ UNCHANGED rows /\ name' = name
    BY <1>5 DEF vars, request
  <2> QED BY <1>1, <2>1, RequestSame, WalkSame DEF Inv
<1> QED BY <1>0, <1>2, <1>3, <1>4, <1>5 DEF Next

(***************************************************************************)
(* In every reachable state the request has been answered as documented,   *)
(* so far as it has been, and sent and unsent rows are on their side of    *)
(* the page unless a write named in causes moved them.                     *)
(***************************************************************************)
THEOREM Invariance == Spec => []Inv
BY InitInv, StepInv, PTL DEF Spec

(***************************************************************************)
(* Every variable keeps its type; in particular a page never has more rows *)
(* than the limit, and a row counted as there all the time is listed.      *)
(***************************************************************************)
THEOREM ListingTypeCorrect == Spec => []TypeOK
<1>1. Inv => TypeOK
  BY DEF Inv, WalkInv, WalkShape
<1> QED BY <1>1, Invariance, PTL

(***************************************************************************)
(* For every caller, with any roles and permissions, and every route, the  *)
(* three guards answer what docs/API_DOCUMENTATION.md says of the route,   *)
(* also where only the class is decorated.                                 *)
(***************************************************************************)
THEOREM GatesCorrect == Spec => []GatesAsDocumented
<1>1. Inv => GatesAsDocumented
  BY DEF Inv, RequestInv
<1> QED BY <1>1, Invariance, PTL

(***************************************************************************)
(* api-response.decorator.ts: no route answers 401 or 403 from its guards  *)
(* without documenting that status.                                        *)
(***************************************************************************)
THEOREM RefusalsCorrect == Spec => []RefusalsAreDocumented
<1>1. Inv => RefusalsAreDocumented
  BY DEF Inv, RequestInv
<1> QED BY <1>1, Invariance, PTL

(***************************************************************************)
(* The three listings refuse with 400 exactly what is unknown in what the  *)
(* code hears of a query: all of it but its direction and the filters that *)
(* are sent twice; 500 comes only from a negative page or limit or a       *)
(* malformed role id.                                                      *)
(***************************************************************************)
THEOREM QueriesCorrect == Spec => []OnlyUnknownRefused
<1>1. Inv => OnlyUnknownRefused
  BY DEF Inv, RequestInv
<1> QED BY <1>1, Invariance, PTL

(***************************************************************************)
(* A client that has walked all pages of any listing has missed a row that *)
(* was there all the time only for a named cause: a deletion, a changed    *)
(* key, a shared key, or an insertion between the count and the rows.      *)
(***************************************************************************)
THEOREM MissesForCause == Spec => []MissedForCause
<1>1. Inv => MissedForCause
  <2>1. SUFFICES ASSUME UnsentStaysAhead, page = None, NEW r \in stayed, seen[r] = 0, r \notin tied,
                        causes \cap {"deleted", "moved", "countedTooEarly"} = {}
                 PROVE  FALSE
    BY DEF Inv, WalkInv, MissedForCause
  <2> QED BY <2>1 DEF UnsentStaysAhead
<1> QED BY <1>1, Invariance, PTL

(***************************************************************************)
(* A client is sent a row twice only for a named cause: an insertion, a    *)
(* changed key, or a shared key.  Deletions alone never repeat a row.      *)
(***************************************************************************)
THEOREM RepeatsForCause == Spec => []RepeatedForCause
<1>1. Inv => RepeatedForCause
  <2>1. SUFFICES ASSUME SentStaysBehind, TypeOK, NEW r \in Rows, seen[r] > 1, r \notin tied,
                        causes \cap {"inserted", "moved"} = {}
                 PROVE  FALSE
    BY DEF Inv, WalkInv, WalkShape, RepeatedForCause
  <2>2. seen[r] \in Nat
    BY <2>1 DEF TypeOK
  <2> QED BY <2>1, <2>2 DEF SentStaysBehind
<1> QED BY <1>1, Invariance, PTL

(***************************************************************************)
(* The rows and the total of a page, read by two queries at once, agree    *)
(* unless a write came between the two.                                    *)
(***************************************************************************)
THEOREM PagesAgree == Spec => []PageAgreesWithTotal
<1>1. Inv => PageAgreesWithTotal
  BY DEF Inv, WalkInv, Together
<1> QED BY <1>1, Invariance, PTL
=============================================================================
