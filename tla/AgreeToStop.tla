----------------------------- MODULE AgreeToStop -----------------------------
(***************************************************************************)
(* What the termination protocol of the multi-agent search promises to its *)
(* caller, planMASearchRun: the agents stop with one common outcome, which  *)
(* is fixed before the first of them stops.                                *)
(*                                                                         *)
(* An outcome is what planMASearchRun hands back: whether a plan was found *)
(* and, only then, the plan.                                               *)
(***************************************************************************)
CONSTANTS Agents,     \* the agents of the cluster
          Outcomes,   \* what an agent can return
          None        \* no outcome yet, different from all outcomes

VARIABLES verdict,    \* the common outcome, once it is fixed
          outcome     \* what each agent returned, None while it still runs

vars == <<verdict, outcome>>

Init == /\ verdict = None
        /\ outcome = [a \in Agents |-> None]

\* One agent wins the election and its outcome becomes everyone's.
Decide == /\ verdict = None
          /\ verdict' \in Outcomes
          /\ UNCHANGED outcome

\* An agent returns, with the common outcome.
Stop(a) == /\ verdict # None
           /\ outcome[a] = None
           /\ outcome' = [outcome EXCEPT ![a] = verdict]
           /\ UNCHANGED verdict

Next == Decide \/ \E a \in Agents : Stop(a)

Spec == Init /\ [][Next]_vars
=============================================================================
