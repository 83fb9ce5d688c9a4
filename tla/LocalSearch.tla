----------------------------- MODULE LocalSearch -----------------------------
(***************************************************************************)
(* The search of one agent (src/search.c): the loop of planSearchRun around *)
(* the steps of lazy search (search_lazy.c), enforced hill climbing         *)
(* (search_ehc.c), which share search_lazy_base.c, and A* (search_astar.c), *)
(* the nodes of the state space, the operators a heuristic prefers          *)
(* (pref_op_selector.c), and the extraction of the plan.                    *)
(*                                                                         *)
(* A problem is a graph of states whose edges are operators, numbered as in *)
(* the problem; a heuristic is the function it computes.  Open lists are    *)
(* those of module Lists.                                                   *)
(***************************************************************************)
EXTENDS Integers, Sequences, FiniteSets, SequencesExt

CONSTANTS State,       \* the states, of which 0 is the initial one
          Problems,    \* records of op, goal, h, pref
          Algorithms,  \* records of kind, pref, pathmax
          DeadEnd      \* PLAN_HEUR_DEAD_END, above any cost

None == -1

ASSUME StateAssumption == IsFiniteSet(State) /\ 0 \in State /\ None \notin State
ASSUME DeadEndAssumption == DeadEnd \in Nat \ {0}
ASSUME AlgorithmAssumption ==
    Algorithms \subseteq [kind : {"lazy", "ehc", "astar"}, pref : {"no", "yes", "only"},
                          pathmax : BOOLEAN]

\* Costs and estimates are not negative, and no path without a repetition costs
\* as much as a dead end.
ASSUME ProblemAssumption ==
    \A t \in Problems :
        /\ t.op \in Seq([from : State, to : State, cost : Nat])
        /\ t.goal \subseteq State
        /\ t.h \in [State -> 0 .. DeadEnd]
        /\ \E most \in 0 .. DeadEnd : /\ \A i \in DOMAIN t.op : t.op[i].cost <= most
                                     /\ Cardinality(State) * most < DeadEnd

VARIABLES task,      \* [op |-> a sequence of [from, to, cost],
                     \*  goal |-> the goal states, h |-> the heuristic,
                     \*  pref |-> the operators it prefers], fixed
          alg,       \* the algorithm, fixed
          nodes,     \* the nodes of the state space
          openList,  \* the open list, in the order of the insertions
          best,      \* best_heur of enforced hill climbing
          abort,     \* the abort flag
          res,       \* what the last step returned
          goalState, \* goal_state
          path       \* the plan, as operators

vars == <<task, alg, nodes, openList, best, abort, res, goalState, path>>

Op == DOMAIN task.op
From(o) == task.op[o].from
To(o) == task.op[o].to
Cost(o) == task.op[o].cost
IsGoal(s) == s \in task.goal
Larger(x, y) == IF x > y THEN x ELSE y

NewNode == [state |-> "new", parent |-> None, op |-> None, cost |-> -1, h |-> -1]
IsNew(after, s) == after[s].state = "new"

\* What is stored, and under which key: tie-breaking lists have a second one.
Entry(k1, k2, s, o) == [key |-> <<k1, k2>>, state |-> s, op |-> o]

-----------------------------------------------------------------------------
(* Applicable and preferred operators *)

\* In the order of the problem.
Found(s) ==
    LET found[n \in 0 .. Len(task.op)] ==
          IF n = 0 THEN <<>>
          ELSE IF From(n) = s THEN Append(found[n - 1], n) ELSE found[n - 1]
    IN found[Len(task.op)]

Swapped(ops, i, j) == [ops EXCEPT ![i] = ops[j], ![j] = ops[i]]

\* planPrefOpSelectorSelect, for increasing operators: the preferred one is
\* swapped to the place after those already selected.
Select(sel, o) ==
    LET at == {i \in DOMAIN sel.ops : i >= sel.cur /\ sel.ops[i] = o}
    IN IF at = {} THEN sel
       ELSE LET i == CHOOSE j \in at : TRUE
            IN [ops |-> Swapped(sel.ops, sel.ins, i), ins |-> sel.ins + 1, cur |-> i + 1]

Selected(s) ==
    LET selected[n \in 0 .. Len(task.op)] ==
          IF n = 0 THEN [ops |-> Found(s), ins |-> 1, cur |-> 1]
          ELSE IF n \in task.pref THEN Select(selected[n - 1], n) ELSE selected[n - 1]
    IN selected[Len(task.op)]

\* The operators by which s is expanded.
Expanding(s) ==
    CASE alg.pref = "no"   -> Found(s)
      [] alg.pref = "yes"  -> Selected(s).ops
      [] alg.pref = "only" -> SubSeq(Selected(s).ops, 1, Selected(s).ins - 1)

-----------------------------------------------------------------------------
(* Lazy search and enforced hill climbing *)

IsLazy == alg.kind \in {"lazy", "ehc"}

Pushed(s, h, ops) == [i \in DOMAIN ops |-> Entry(IF alg.kind = "ehc" THEN 0 ELSE h, 0, s, ops[i])]

Root(h) == [state |-> "closed", parent |-> None, op |-> None, cost |-> 0, h |-> h]

\* createNode, when the node is no dead end: it is opened and closed.
Created(o, h) == [state |-> "closed", parent |-> From(o), op |-> o,
                  cost |-> nodes[From(o)].cost + Cost(o), h |-> h]

\* Mutant: lazy search clears its list, too.
ClearsAny(h) == h < best

Clears(h) == alg.kind = "ehc" /\ h < best

\* A goal ends the search, another node is expanded under its heuristic.
Visit(s, after, rest) ==
    /\ nodes' = after
    /\ IF IsGoal(s)
       THEN /\ res' = "found"
            /\ goalState' = s
            /\ openList' = rest
            /\ UNCHANGED best
       ELSE LET h == after[s].h
            IN /\ res' = "cont"
               /\ UNCHANGED goalState
               /\ IF h = DeadEnd THEN openList' = rest /\ UNCHANGED best
                  ELSE /\ openList' = (IF Clears(h) THEN <<>> ELSE rest)
                                    \o Pushed(s, h, Expanding(s))
                       /\ best' = IF Clears(h) THEN h ELSE best

\* Mutant: a state that was already reached is visited again.
Revisited(s) == IsNew(nodes, s) \/ nodes[s].op # None

\* A state is visited when it is reached for the first time; a dead end
\* stays new.
FirstTime(s) == IsNew(nodes, s)

LazyStep(e, rest) ==
    IF e.op = None THEN Visit(e.state, nodes, rest)
    ELSE LET s == To(e.op)
             h == task.h[s]
         IN IF ~FirstTime(s)
            THEN res' = "cont" /\ openList' = rest /\ UNCHANGED <<nodes, best, goalState>>
            ELSE IF h = DeadEnd
            THEN /\ nodes' = [nodes EXCEPT ![s].parent = From(e.op), ![s].op = e.op, ![s].h = h]
                 /\ res' = "cont" /\ openList' = rest
                 /\ UNCHANGED <<best, goalState>>
            ELSE Visit(s, [nodes EXCEPT ![s] = Created(e.op, h)], rest)

-----------------------------------------------------------------------------
(* A* *)

\* Mutant: a closed node that is reached on a cheaper path stays closed.
StaysClosed(state) == IF state = "new" THEN "open" ELSE state

\* planStateSpaceOpen, planStateSpaceReopen
Opened(state) == "open"

Pathmax(s, o) == Larger(task.h[s], nodes[From(o)].h - Cost(o))

\* The heuristic is computed when the node is new.
HeurOf(after, s, o) ==
    IF ~IsNew(after, s) THEN after[s].h
    ELSE IF alg.pathmax /\ o # None THEN Pathmax(s, o) ELSE task.h[s]

\* astarInsertState: acc holds the nodes and the open list.
InsertState(acc, s, o) ==
    LET g == IF o = None THEN 0 ELSE nodes[From(o)].cost + Cost(o)
        h == HeurOf(acc.after, s, o)
    IN [after |-> [acc.after EXCEPT ![s] =
                     [state |-> Opened(@.state), parent |-> IF o = None THEN None ELSE From(o),
                      op |-> o, cost |-> g, h |-> h]],
        openList |-> IF h = DeadEnd THEN acc.openList
                 ELSE Append(acc.openList, Entry(g + Larger(h, 0), Larger(h, 0), s, None))]

\* Mutant: a path to a node that was reached before is never taken.
FirstPath(after, o) == IsNew(after, To(o))

Improves(after, o) ==
    IsNew(after, To(o)) \/ after[To(o)].cost > nodes[From(o)].cost + Cost(o)

\* One operator of the state that is expanded.
Generate(acc, o) ==
    IF Improves(acc.after, o) THEN InsertState(acc, To(o), o) ELSE acc

GenerateAll(first, ops) ==
    LET generated[n \in 0 .. Len(ops)] ==
          IF n = 0 THEN first ELSE Generate(generated[n - 1], ops[n])
    IN generated[Len(ops)]

AStarStep(e, rest) ==
    LET s == e.state
        closed == [nodes EXCEPT ![s].state = "closed"]
        acc == GenerateAll([after |-> closed, openList |-> rest], Found(s))
    IN /\ UNCHANGED best
       /\ \/ /\ nodes[s].state # "open"
             /\ res' = "cont" /\ openList' = rest
             /\ UNCHANGED <<nodes, goalState>>
          \/ /\ nodes[s].state = "open" /\ IsGoal(s)
             /\ nodes' = closed
             /\ res' = "found" /\ openList' = rest
             /\ goalState' = s
          \/ /\ nodes[s].state = "open" /\ ~IsGoal(s)
             /\ nodes' = acc.after
             /\ res' = "cont" /\ openList' = acc.openList
             /\ UNCHANGED goalState

-----------------------------------------------------------------------------
(* planSearchRun *)

Before(j, k) == j[1] < k[1] \/ (j[1] = k[1] /\ j[2] < k[2])
Least == {i \in DOMAIN openList : \A j \in DOMAIN openList : ~Before(openList[j].key, openList[i].key)}

\* Lazy search may have a list that is no stable queue.
MayPop(i) == alg.kind = "lazy" \/ \A j \in Least : i <= j

\* extractPath: the operators on the way back to a node without one.
Way(after, goal) ==
    LET way[n \in 0 .. Cardinality(State)] ==
          [s \in State |-> IF after[s].op = None \/ n = 0 THEN <<>>
                          ELSE Append(way[n - 1][after[s].parent], after[s].op)]
    IN way[Cardinality(State)][goal]

Init == /\ task \in Problems
        /\ alg \in Algorithms
        /\ nodes = [s \in State |-> NewNode]
        /\ openList = <<>>
        /\ best = DeadEnd
        /\ abort = FALSE
        /\ res = "start"
        /\ goalState = None
        /\ path = <<>>

\* The initial state, whose heuristic is evaluated first.
InitStep ==
    /\ res = "start"
    /\ LET first == InsertState([after |-> nodes, openList |-> <<>>], 0, None)
       IN IF IsLazy THEN /\ nodes' = [nodes EXCEPT ![0] = Root(task.h[0])]
                         /\ openList' = <<Entry(task.h[0], 0, 0, None)>>
          ELSE nodes' = first.after /\ openList' = first.openList
    /\ res' = "cont"
    /\ UNCHANGED <<task, alg, best, abort, goalState, path>>

TakeStep(i) ==
    LET rest == RemoveAt(openList, i)
    IN IF IsLazy THEN LazyStep(openList[i], rest) ELSE AStarStep(openList[i], rest)

Step ==
    /\ res = "cont" /\ ~abort
    /\ \E i \in Least : MayPop(i) /\ TakeStep(i)
    /\ path' = IF res' = "found" THEN Way(nodes', goalState') ELSE path
    /\ UNCHANGED <<task, alg, abort>>

StepExhausted ==
    /\ res = "cont" /\ ~abort /\ openList = <<>>
    /\ res' = "not_found"
    /\ UNCHANGED <<task, alg, nodes, openList, best, abort, goalState, path>>

\* The flag is looked at after a step, whose result it overrules; nothing else
\* the step did is looked at any more.
StepAborted ==
    /\ res = "cont" /\ abort
    /\ res' = "abort"
    /\ UNCHANGED <<task, alg, nodes, openList, best, abort, goalState, path>>

\* planSearchAbort by another thread, or the progress function at a limit.
Abort ==
    /\ res = "cont" /\ ~abort
    /\ abort' = TRUE
    /\ UNCHANGED <<task, alg, nodes, openList, best, res, goalState, path>>

Next == InitStep \/ Step \/ StepExhausted \/ StepAborted \/ Abort

Spec == Init /\ [][Next]_vars
-----------------------------------------------------------------------------
(* Properties *)

Infinite == 2 * DeadEnd
Minimum(S) == CHOOSE c \in S : \A d \in S : c <= d

\* The cost of the cheapest plan of problem t from every state, by at most n
\* operators.
CheapestOf(t) ==
    LET cheapest[n \in 0 .. Cardinality(State)] ==
          [s \in State |->
             IF s \in t.goal THEN 0
             ELSE IF n = 0 THEN Infinite
             ELSE Minimum({Infinite} \cup {t.op[o].cost + cheapest[n - 1][t.op[o].to] :
                                             o \in {p \in DOMAIN t.op : t.op[p].from = s}})]
    IN cheapest
Cheapest == CheapestOf(task)
TrueCost == [s \in State |-> LET c == Cheapest[Cardinality(State)][s]
                             IN IF c < DeadEnd THEN c ELSE Infinite]

Admissible == \A s \in State : task.h[s] <= TrueCost[s]
SafeHeur == \A s \in State : task.h[s] = DeadEnd => TrueCost[s] = Infinite

\* What the operators p of problem t cost.
CostOf(t, p) ==
    LET cost[n \in 0 .. Len(p)] == IF n = 0 THEN 0 ELSE cost[n - 1] + t.op[p[n]].cost
    IN cost[Len(p)]
PathCost == CostOf(task, path)

\* The plan that is printed can be executed from the initial state, ends in a
\* goal, and costs what its last node says, though nodes get other parents
\* while the search goes on.
PlanIsValid ==
    res = "found" =>
        /\ \A i \in DOMAIN path : From(path[i]) = IF i = 1 THEN 0 ELSE To(path[i - 1])
        /\ IsGoal(IF path = <<>> THEN 0 ELSE To(Last(path)))
        /\ PathCost = nodes[goalState].cost

\* A* finds a cheapest plan if the heuristic is admissible, be it consistent
\* or not, with and without the pathmax correction.
CheapestPlan ==
    res = "found" /\ alg.kind = "astar" /\ Admissible => PathCost = TrueCost[0]

\* When the open list is empty there is no plan, if the heuristic calls no
\* other state a dead end and no operators were left out: lazy search with
\* all operators, and A*.  (Hill climbing gives up states for good.)
ExhaustedMeansUnsolvable ==
    res = "not_found" /\ SafeHeur /\ alg.kind # "ehc" /\ alg.pref # "only"
        => TrueCost[0] = Infinite
=============================================================================
