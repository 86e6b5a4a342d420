---------------------------- MODULE MCRbacCache ----------------------------
(***************************************************************************)
(* Instances of RbacCache for TLC.                                         *)
(***************************************************************************)
EXTENDS RbacCache, TLC

\* Ids and names are interchangeable.
Symmetry ==
  Permutations(Users) \cup Permutations(Roles) \cup Permutations(Perms)
    \cup Permutations(Names) \cup Permutations(Requests)
=============================================================================
