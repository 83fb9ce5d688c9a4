------------------------------ MODULE MCPlanner ------------------------------
(* Instances of Planner for TLC. *)
EXTENDS Planner

AllOptions == OptionSet
=============================================================================
