------------------------------ MODULE Listing ------------------------------
(***************************************************************************)
(* A request for a listing passes the guards (Gates), has its query        *)
(* accepted (Queries), and then the client walks through the pages of the  *)
(* query while others write: each page is two queries at once, one for the *)
(* rows and one for the total, and the next page is an offset into what    *)
(* the order has become.                                                   *)
(*                                                                         *)
(* A row is listed while it is live and satisfies the filters; its key is  *)
(* its value in the sort column.  As writes give a row any free key, the   *)
(* direction of the order does not matter.                                 *)
(***************************************************************************)
EXTENDS Queries, FiniteSets, FiniteSetsExt

CONSTANTS
  Rows,
  Limit,      \* the page size of the walk
  Keys,       \* the values of the sort column
  MaxWrites   \* bound: how many writes come during the walk

ASSUME RowsAreFinite == IsFiniteSet(Rows)
ASSUME LimitIsPositive == Limit \in Nat \ {0}
ASSUME KeysArePositive == Keys \subseteq Nat \ {0}
ASSUME WritesAreBounded == MaxWrites \in Nat
-----------------------------------------------------------------------------
VARIABLES
  key,     \* the key of each row; 0 while it is not listed
  page,    \* the page the client asks for; None before and after the walk
  data,    \* the rows of the page, or None
  total,   \* the total of the page, or None
  seen,    \* how often the client has been sent each row
  writes,  \* how many writes there have been
  stayed,  \* auxiliary: the rows listed ever since the walk began
  tied,    \* auxiliary: the rows that shared their key with another when a page was read
  causes   \* auxiliary: what has happened to the order meanwhile

walk == <<page, data, total, seen>>
rows == <<key, walk, writes, stayed, tied, causes>>
vars == <<request, rows>>

Causes == {"inserted", "deleted", "moved", "torn", "countedTooEarly"}

Listed == {r \in Rows : key[r] # 0}

TypeOK ==
  /\ key \in [Rows -> Keys \cup {0}]
  /\ page \in Nat \cup {None}
  /\ data = None \/ (data \subseteq Rows /\ Cardinality(data) <= Limit)
  /\ total = None \/ total \in 0..Cardinality(Rows)
  /\ seen \in [Rows -> Nat]
  /\ writes \in 0..MaxWrites
  /\ stayed \subseteq Listed
  /\ tied \subseteq Rows /\ causes \subseteq Causes

Init ==
  /\ Arrives /\ query = None /\ answer = None
  /\ key = [r \in Rows |-> 0]
  /\ page = None /\ data = None /\ total = None
  /\ seen = [r \in Rows |-> 0]
  /\ writes = 0
  /\ stayed = {} /\ tied = {} /\ causes = {}

\* An accepted query: from here on, Listed stands for what it selects.
Accept ==
  /\ answer = 200 /\ query # None
  /\ query' = None
  /\ UNCHANGED <<caller, name, gate, answer>>

\* The walk begins, over any rows; the listings do not differ in how they page.
Begin ==
  /\ answer = 200 /\ query = None /\ name # None
  /\ name' = None
  /\ key' \in [Rows -> Keys \cup {0}]
  /\ stayed' = Listed'
  /\ page' = 1
  /\ UNCHANGED <<caller, gate, query, answer, data, total, seen, writes, tied, causes>>

\* Rows that come before r, and rows the order leaves undecided.
Before(r) == {x \in Listed : key[x] < key[r]}
Ties == {r \in Listed : \E x \in Listed \ {r} : key[x] = key[r]}

\* Mutant of Offset: pages are counted from zero.
OffsetFromZero(p) == p * Limit

Offset(p) == (p - 1) * Limit

\* Mutant of IsPage: nothing orders the rows.
IsAnySet(set, offset) == TRUE

(***************************************************************************)
(* ORDER BY one column, OFFSET, LIMIT: a set that some order of the listed *)
(* rows consistent with their keys has at these positions.                 *)
(***************************************************************************)
IsPage(set, offset) ==
  \E skipped \in SUBSET (Listed \ set) :
    /\ Cardinality(skipped) = offset
    /\ \A r \in skipped : Before(r) \subseteq skipped
    /\ \A r \in set : Before(r) \subseteq skipped \cup set

\* Mutant of PageSize: the limit is not passed on.
PageSizeUnlimited(n, offset) == Max({0, n - offset})

PageSize(n, offset) == Max({0, Min({Limit, n - offset})})

FindMany ==
  /\ page # None /\ data = None
  /\ \E set \in kSubset(PageSize(Cardinality(Listed), Offset(page)), Listed) :
       /\ set = {} \/ IsPage(set, Offset(page))
       /\ data' = set
  /\ tied' = tied \cup Ties
  /\ UNCHANGED <<key, page, total, seen, writes, stayed, causes>>

\* Mutant of Count: without the condition of the rows.
CountAll ==
  /\ page # None /\ total = None
  /\ total' = Cardinality(Rows)
  /\ UNCHANGED <<key, page, data, seen, writes, stayed, tied, causes>>

Count ==
  /\ page # None /\ total = None
  /\ total' = Cardinality(Listed)
  /\ UNCHANGED <<key, page, data, seen, writes, stayed, tied, causes>>

TotalPages == (total + Limit - 1) \div Limit

\* The page is sent; the client asks for the next one while there is one.
Respond ==
  /\ data # None /\ total # None
  /\ seen' = [r \in Rows |-> seen[r] + (IF r \in data THEN 1 ELSE 0)]
  /\ page' = IF page < TotalPages THEN page + 1 ELSE None
  /\ data' = None /\ total' = None
  /\ causes' = causes \ {"torn"}
  /\ UNCHANGED <<key, writes, stayed, tied>>

Write(cause) ==
  /\ page # None /\ writes < MaxWrites
  /\ writes' = writes + 1
  /\ causes' = causes \cup {cause}
               \cup (IF (data = None) # (total = None) THEN {"torn"} ELSE {})
               \cup (IF cause = "inserted" /\ data = None /\ total # None
                     THEN {"countedTooEarly"} ELSE {})
  /\ UNCHANGED <<walk, tied>>

Free == Keys \ {key[r] : r \in Listed}

\* The rows one transaction inserts share its time; an update may make a row satisfy the filters.
Insert ==
  /\ Write("inserted")
  /\ \E new \in SUBSET (Rows \ Listed) \ {{}}, k \in Free :
       key' = [r \in Rows |-> IF r \in new THEN k ELSE key[r]]
  /\ UNCHANGED stayed

\* A row is deleted, or no longer satisfies the filters.
Delete ==
  /\ Write("deleted")
  /\ \E r \in Listed :
       /\ key' = [key EXCEPT ![r] = 0]
       /\ stayed' = stayed \ {r}

\* An update changes the sort column: a name, the status, updatedAt.
Update ==
  /\ Write("moved")
  /\ \E r \in Listed, k \in Free : key' = [key EXCEPT ![r] = k]
  /\ UNCHANGED stayed

Request ==
  \/ CanActivate /\ UNCHANGED <<query, answer>>
  \/ Admit \/ Bind \/ FindAll \/ Accept

Walk == FindMany \/ Count \/ Respond \/ Insert \/ Delete \/ Update

Next ==
  \/ Request /\ UNCHANGED rows
  \/ Begin
  \/ Walk /\ UNCHANGED request

Spec == Init /\ [][Next]_vars
-----------------------------------------------------------------------------
(***************************************************************************)
(* A client that walked all pages has missed a row that was listed all the *)
(* time only because a row left the listing, keys changed, the row shared  *)
(* its key, or an insertion came between the count and the rows of a page, *)
(* so that the client stopped too early.                                   *)
(***************************************************************************)
MissedForCause ==
  page = None => \A r \in stayed : seen[r] = 0 =>
    r \in tied \/ causes \cap {"deleted", "moved", "countedTooEarly"} # {}

(***************************************************************************)
(* A client is sent a row twice only because rows were inserted before it, *)
(* keys changed, or the row shared its key with another.                   *)
(***************************************************************************)
RepeatedForCause ==
  \A r \in Rows : seen[r] > 1 => r \in tied \/ causes \cap {"inserted", "moved"} # {}

(***************************************************************************)
(* The rows of a page and its total agree (meta.totalPages is right for    *)
(* the page it comes with) unless a write came between the two queries.    *)
(***************************************************************************)
PageAgreesWithTotal ==
  data # None /\ total # None /\ "torn" \notin causes
    => Cardinality(data) = PageSize(total, Offset(page))
=============================================================================
