---------------------------- MODULE MCMASnapshot ----------------------------
(* Instances of MASnapshot for TLC. *)
EXTENDS MASnapshot, TLC

\* Items are only moved about.
ItemSymmetry == Permutations(Item)
=============================================================================
