---------------------------- MODULE MCMADeadEnd ----------------------------
(* Instances of MADeadEnd for TLC. *)
EXTENDS MADeadEnd
=============================================================================
