---------------------------- MODULE MCRoleWrites ----------------------------
(***************************************************************************)
(* The ids of a table are interchangeable, and so are the names: of the    *)
(* states that differ only in which is which, one is a starting state.  No *)
(* operation touches both users and permissions, so the second user and    *)
(* the second permission are there, or not, together.                      *)
(*                                                                         *)
(* Requests that trade names have each looked up a name before it was      *)
(* given to the other's row: it takes four requests and a third name to    *)
(* get there from idle.  The instance starts from such states as well, the *)
(* look-ups over and the transactions about to begin.                      *)
(***************************************************************************)
EXTENDS RoleWrites, TLC

CONSTANTS r1, r2, p1, p2, u1, u2, a, b, q1, q2

MCRoles == {r1, r2}
MCPerms == {p1, p2}
MCUsers == {u1, u2}
MCNames == {a, b}
MCRequests == {q1, q2}

Tables ==
  /\ Stored
  /\ db[r1] = a /\ db[p1] = a /\ db[u1] = a
  /\ \A x \in {r2, p2} : db[x] \in {b, None}
  /\ db[u2] = db[p2]
  /\ \A j \in {r1} \X Perms : db[j] # None <=> db[j[2]] # None
  /\ \A j \in {r2} \X Perms : db[j] = None
  /\ \A j \in Users \X Roles : db[j] # None <=> j = <<u1, r1>>

Idle ==
  /\ at = [r \in Requests |-> "idle"]
  /\ call = [r \in Requests |-> None] /\ target = [r \in Requests |-> None]
  /\ put = [r \in Requests |-> Nothing] /\ list = [r \in Requests |-> {}]

Trading(what, x, y, items) ==
  /\ db[y] = b
  /\ at = [r \in Requests |-> "rewrite"]
  /\ call = [r \in Requests |-> what] /\ target = (q1 :> x @@ q2 :> y)
  /\ put = (q1 :> Named(x, b) @@ q2 :> Named(y, a)) /\ list = [r \in Requests |-> items]

MCInit ==
  /\ Tables
  /\ mine = [r \in Requests |-> Nothing]
  /\ shared = [r \in Requests |-> {}] /\ left = [r \in Requests |-> {}]
  /\ Idle \/ Trading("updateRole", r1, r2, {p1}) \/ Trading("updateUser", u1, u2, {r1})

MCSpec == MCInit /\ [][Next]_vars /\ \A r \in Requests : WF_vars(Step(r)) /\ WF_vars(AbortVictim(r))
=============================================================================
