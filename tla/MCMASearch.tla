----------------------------- MODULE MCMASearch -----------------------------
(* Instances of MASearch for TLC: small planning problems.                  *)
(*                                                                         *)
(* A state reached by a private operator only is left by operators of the   *)
(* same agent only: an operator of another agent that applies there applies *)
(* before the private one too.                                              *)
EXTENDS MASearch

Public(a, from, to, cost) ==
    [from |-> from, to |-> to, cost |-> cost, owner |-> a, priv |-> FALSE]
Private(a, from, to, cost) == [Public(a, from, to, cost) EXCEPT !.priv = TRUE]

StatesOf(ops) == {o.from : o \in ToSet(ops)} \cup {o.to : o \in ToSet(ops)}

\* The cost of reaching a goal from every state.
GoalDistance(ops, goals) ==
    LET S == StatesOf(ops)
        dist[k \in 0 .. Cardinality(S)] ==
          IF k = 0 THEN [s \in S |-> IF s \in goals THEN 0 ELSE MaxCost]
          ELSE [s \in S |-> Min({dist[k - 1][s], MaxCost} \cup
                  {dist[k - 1][o.to] + o.cost : o \in {q \in ToSet(ops) : q.from = s}})]
    IN dist[Cardinality(S)]

\* The problem with agents of I knowing the distance to the goals, and the
\* others having no estimate.
Problem(ops, goals, I) ==
    [states |-> StatesOf(ops), init |-> "i", goals |-> goals, ops |-> ops,
     applicable |-> [a \in Agent |-> [s \in StatesOf(ops) |->
                       SelectSeq(ops, LAMBDA o : o.owner = a /\ o.from = s)]],
     heur |-> [a \in Agent |-> [s \in StatesOf(ops) |->
                 IF a \in I THEN GoalDistance(ops, goals)[s] ELSE 0]],
     verify |-> TRUE, maHeur |-> FALSE, maxVerify |-> 3]

\* With values computed by all agents; without verification; with fewer.
Asking(problems) == {[p EXCEPT !.maHeur = TRUE] : p \in problems}
Trusting(problems) == {[p EXCEPT !.verify = FALSE] : p \in problems}
Once(problems) == {[p EXCEPT !.maxVerify = 1] : p \in problems}

\* Two agents that reach the goal together, or the first one alone.
Joint == {Problem(<<Public(0, "i", "a", x), Public(1, "a", "g", y),
                    Public(0, "i", "g", z)>>, {"g"}, I) :
             x \in 0 .. 1, y \in 1 .. 2, z \in 1 .. 3, I \in SUBSET Agent}

\* Two agents with private steps, each with a way of its own to the goal, and
\* a way the first begins and the second completes.
Hidden == {Problem(<<Private(0, "i", "p", 1), Public(0, "p", "a", x),
                     Private(1, "i", "q", y), Public(1, "q", "g", 1),
                     Private(1, "a", "r", 0), Public(1, "r", "g", z),
                     Public(0, "a", "g", 2)>>, {"g"}, {}) :
              x \in 0 .. 1, y \in 0 .. 2, z \in 0 .. 1}

\* Two goals, one for each agent.
TwoGoals == {Problem(<<Public(0, "i", "g", x), Private(1, "i", "c", 1),
                       Public(1, "c", "y", 0), Public(1, "i", "h", z)>>,
                     {"g", "h"}, I) :
                x \in 1 .. 2, z \in 1 .. 2, I \in SUBSET Agent}

\* Three agents: two ways to b, found at different times, and one from it.
Chain == {Problem(<<Public(0, "i", "a", x), Public(1, "a", "b", 1),
                    Public(2, "i", "b", y), Public(2, "b", "g", 1),
                    Public(1, "i", "g", z)>>, {"g"}, I) :
             x \in 0 .. 1, y \in 2 .. 3, z \in 2 .. 4, I \in {{}, {0, 1, 2}}}

\* Three agents: the first can reach the goal alone, the others together.
Relay == {Problem(<<Public(0, "i", "g", 3), Public(1, "i", "a", 1),
                    Public(2, "a", "g", z)>>, {"g"}, {}) : z \in 1 .. 2}

OneGoal == Joint \cup Hidden
OneGoalAsking == Asking(OneGoal)

\* Three agents: one goal or two, verified; and plans traced without
\* verification, with values computed by all agents.
Three == Once(Relay \cup {Problem(<<Public(0, "i", "g", 2), Public(1, "i", "h", 1)>>,
                          {"g", "h"}, {})})
         \cup Asking(Trusting(Chain))
=============================================================================
