--------------------------- MODULE MCAccountTokens ---------------------------
(***************************************************************************)
(* Instances of AccountTokens for TLC.                                     *)
(***************************************************************************)
EXTENDS AccountTokens, TLC

\* All ids, addresses and tokens are interchangeable.
Symmetry ==
  Permutations(Users) \cup Permutations(Emails)
    \cup Permutations(Tokens) \cup Permutations(Requests)
==============================================================================
