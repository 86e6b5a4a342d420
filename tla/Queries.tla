------------------------------ MODULE Queries ------------------------------
(***************************************************************************)
(* How the query of a request for a listing is answered, once the guards   *)
(* have let it in: the controller, the pipe, the repository, and what      *)
(* Postgres makes of it.  Listing is what a client does with a query that  *)
(* was accepted.                                                           *)
(***************************************************************************)
EXTENDS Gates

VARIABLES
  query,  \* what the request asks for; None before the pipes, and when it is done with
  answer  \* the status it gets

request == <<caller, name, gate, query, answer>>
-----------------------------------------------------------------------------
\* A query: page, limit, sort and direction as sent, 0 or "" when absent, and a
\* value for some of the filter keys.
defaultSort == "createdAt"

Or(value, default, absent) == IF value = absent THEN default ELSE value

\* The pipe keeps primitive values; a key sent twice has an array.
FilterValidation(filter) == {f \in filter : f.value # "repeated"}

\* What the controller makes of the query.
DatatableType(q) ==
  [page |-> Or(q.page, 1, 0), limit |-> Or(q.limit, 10, 0), sort |-> Or(q.sort, defaultSort, ""),
   sortDirection |-> IF q.direction = "asc" THEN "asc" ELSE "desc",
   filter |-> FilterValidation(q.filter)]

KnownFilters(fields, d) == \A f \in d.filter : f.key \in fields

\* filter[status], unless empty, must be a member of the enum.
KnownStatus(d) == \A f \in d.filter : f.key = "status" => f.value # "malformed"

\* Mutant of KnownSort: what is not known is replaced by the default, silently.
SortCoerced(fields, d) == TRUE

KnownSort(fields, d) == d.sort \in fields

KnownDirection(d) == d.sortDirection \in {"asc", "desc"}

\* Postgres refuses a negative offset or limit, and an id that is no uuid.
Postgres(d) ==
  IF \/ (d.page - 1) * d.limit < 0 \/ d.limit < 0
     \/ \E f \in d.filter : f.key = "role_id" /\ f.value = "malformed"
  THEN 500 ELSE 200

UserSortable == {"id", "name", "email", "status", "createdAt", "updatedAt"}
UserFilterable == {"status", "name", "email", "role_id"}
RoleSortable == {"id", "name", "createdAt", "updatedAt"}
RoleFilterable == {"name"}
PermissionSortable == {"id", "name", "group", "createdAt", "updatedAt"}
PermissionFilterable == {"name", "group"}

FindAllUsers(d) ==
  IF /\ KnownFilters(UserFilterable, d) /\ KnownStatus(d)
     /\ KnownSort(UserSortable, d) /\ KnownDirection(d)
  THEN Postgres(d) ELSE 400

FindAllRoles(d) ==
  IF KnownFilters(RoleFilterable, d) /\ KnownSort(RoleSortable, d) /\ KnownDirection(d)
  THEN Postgres(d) ELSE 400

FindAllPermissions(d) ==
  IF KnownFilters(PermissionFilterable, d) /\ KnownSort(PermissionSortable, d) /\ KnownDirection(d)
  THEN Postgres(d) ELSE 400

-----------------------------------------------------------------------------
FilterKeys == {"status", "name", "email", "role_id", "group", "createdAt", "emial"}
FilterValues == {"", "right", "malformed", "repeated"}

\* None, one or two filters.
Filters ==
  LET Filter == [key : FilterKeys, value : FilterValues]
  IN  {{}} \cup {f \in {{a, b} : a \in Filter, b \in Filter} :
                    \A a, b \in f : a.key = b.key => a = b}

Queries ==
  [page : {-1, 0}, limit : {-5, 0}, filter : Filters, direction : {"", "asc", "desc", "down"},
   sort : {"", "id", "name", "email", "status", "group", "updatedAt", "craetedAt"}]

ASSUME NoneIsNoQuery == None \notin Queries

\* No listing asks who the caller is.
Admit ==
  /\ gate = 200 /\ caller # None
  /\ name \in {"listUsers", "listRoles", "listPermissions"}
  /\ caller' = None
  /\ UNCHANGED <<name, gate, query, answer>>

\* The handler is called with its query.
Bind ==
  /\ caller = None /\ query = None /\ answer = None
  /\ query' \in Queries
  /\ UNCHANGED <<caller, name, gate, answer>>

FindAll ==
  /\ query # None /\ answer = None
  /\ LET d == DatatableType(query)
     IN  answer' = CASE name = "listUsers" -> FindAllUsers(d)
                     [] name = "listRoles" -> FindAllRoles(d)
                     [] name = "listPermissions" -> FindAllPermissions(d)
  /\ UNCHANGED <<caller, name, gate, query>>
-----------------------------------------------------------------------------
\* docs/API_DOCUMENTATION.md:83-89.
Documented ==
  [listUsers |-> [sort |-> {"id", "name", "email", "status", "createdAt", "updatedAt"},
              filter |-> {"status", "name", "email", "role_id"}],
   listRoles |-> [sort |-> {"id", "name", "createdAt", "updatedAt"}, filter |-> {"name"}],
   listPermissions |-> [sort |-> {"id", "name", "group", "createdAt", "updatedAt"},
                    filter |-> {"name", "group"}]]

\* An unknown sort field, sort direction or filter key, or a status outside the enum.
Unknown(q) ==
  \/ q.sort \notin Documented[name].sort \cup {""}
  \/ q.direction \notin {"", "asc", "desc"}
  \/ \E f \in q.filter : \/ f.key \notin Documented[name].filter
                         \/ f.key = "status" /\ f.value = "malformed"

(***************************************************************************)
(* docs/API_DOCUMENTATION.md:93-96: an unknown sort field, sort direction, *)
(* filter key or status is refused, never ignored.  It is not so: the      *)
(* controller makes desc of any direction but asc, and the pipe drops a    *)
(* key that is sent twice.                                                 *)
(***************************************************************************)
UnknownNeverIgnored == query # None /\ answer # None /\ Unknown(query) => answer # 200

\* What is left of a query when what the code ignores is taken away.
Heard(q) == [q EXCEPT !.direction = "", !.filter = {f \in @ : f.value # "repeated"}]

(***************************************************************************)
(* Apart from a coerced direction and a key sent twice nothing unknown is  *)
(* ignored, and nothing else is refused (docs/API_DOCUMENTATION.md:79-96); *)
(* Postgres refuses only negative positions and malformed ids.  A filter   *)
(* on createdAt is unknown: the table of :85-89 has none, although the     *)
(* note of :98-101 says what date filters take.                            *)
(***************************************************************************)
OnlyUnknownRefused ==
  query # None /\ answer # None =>
    /\ answer = 400 <=> Unknown(Heard(query))
    /\ answer = 500 => \/ query.page < 0 \/ query.limit < 0
                       \/ [key |-> "role_id", value |-> "malformed"] \in query.filter
=============================================================================
