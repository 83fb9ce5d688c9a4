--------------------------- MODULE MCMATerminate ---------------------------
(* Instances of MATerminate for TLC. *)
EXTENDS MATerminate

CONSTANTS p0, p1

\* The first two agents can complete plans of their own; the third can only give
\* up or fail.
OwnPlans == [a \in Agent |-> IF a = 0 THEN {p0} ELSE IF a = 1 THEN {p1} ELSE {}]

\* What malloc may leave behind, at its worst: flags that are set, and counters
\* that hold the value of one which has met its target.
WorstGarbage == {-1}
=============================================================================
