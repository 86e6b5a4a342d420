----------------------------- MODULE MCSessions -----------------------------
(***************************************************************************)
(* Instances of Sessions for TLC.                                          *)
(***************************************************************************)
EXTENDS Sessions, TLC

\* Requests, passwords, profiles and token ids are interchangeable.  Only the
\* runs without liveness properties use it.
Symmetry ==
  Permutations(Requests) \cup Permutations(Passwords)
    \cup Permutations(Profiles) \cup Permutations(Jtis)
=============================================================================
