---------------------------- MODULE MCCatalogue ----------------------------
(***************************************************************************)
(* Instances of Catalogue for TLC: of the eighteen seeded permissions, two *)
(* that open routes by which an administrator edits what is seeded.        *)
(***************************************************************************)
EXTENDS Catalogue, TLC

Symmetry == Permutations(Seeders) \cup Permutations(RoleIds) \cup Permutations(PermIds)

MCFollowed == {<<"user", "update">>, <<"role", "update">>}
=============================================================================
