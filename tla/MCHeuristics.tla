----------------------------- MODULE MCHeuristics -----------------------------
(***************************************************************************)
(* Instances for TLC of the heuristics: the distributed ones h^max          *)
(* (MAHeurMax), LM-Cut (MALmCut), FF (MAHeurFF) and the one over domain     *)
(* transition graphs (MADTG), and those an agent computes alone              *)
(* (Heuristics).  One of them runs; the variables that it does not have are *)
(* idle.                                                                    *)
(***************************************************************************)
EXTENDS MCMAHeurMax

CONSTANTS LocalProblems, Kinds, MaxNodes         \* of Heuristics

VARIABLES which,
          main, priv,                                              \* of MALmCut
          plan, peer,                                              \* of MAHeurFF
          ctx, slots,                                              \* of MADTG
          kind, prune, graph, nodes, marked, job, local, cache     \* of Heuristics

-----------------------------------------------------------------------------
(* Problems for the distributed heuristics beside those of h^max             *)

\* What agents 1 and 2 have for each other's private preconditions leads in a
\* circle, unless they take the dear ways.
Circle == Task(7, {5}, <<Op(<<0, 1>>, <<4>>, 1, 1), Op(<<2>>, <<1>>, 1, 1), Op(<<0>>, <<1>>, 5, 1),
                         Op(<<0, 3>>, <<2>>, 1, 2), Op(<<4>>, <<3>>, 1, 2), Op(<<0>>, <<3>>, 5, 2),
                         Op(<<4>>, <<5>>, 1, 0)>>)

\* Problems with variables: last[x] is the last fact of variable x.
WithVars(goal, init, last, ops) ==
    LET size == Last(last) + 1
    IN [size |-> size, goal |-> goal, states |-> {init}, ops |-> ops,
        var |-> [f \in 0 .. size - 1 |-> Min({x \in DOMAIN last : f <= last[x]})]]

\* Agent 0 needs agent 1, who needs agent 2, of whom agent 0 knows nothing.
Relayed == WithVars({5}, {0, 4}, <<3, 5>>,
    <<Op(<<0>>, <<1>>, 1, 2), Op(<<1>>, <<2>>, 1, 1), Op(<<2>>, <<3>>, 1, 1), Op(<<3, 4>>, <<5>>, 1, 0)>>)

\* Agents 1 and 2 need each other, and the state is a dead end.
Circular == WithVars({4}, {0, 3}, <<2, 4>>,
    <<Op(<<1>>, <<2>>, 1, 1), Op(<<2>>, <<1>>, 1, 2), Op(<<2, 3>>, <<4>>, 1, 0)>>)

\* All know where to start, and an operator needs nothing.
Known == WithVars({5}, {0, 4}, <<3, 5>>,
    <<Op(<<0>>, <<1>>, 1, 0), Op(<<1>>, <<2>>, 1, 1), Op(<<>>, <<2>>, 1, 1), Op(<<2>>, <<3>>, 1, 2),
      Op(<<3, 4>>, <<5>>, 1, 0)>>)

\* Two agents know a way for agent 0, whose way to one goal brings the other nearer.
Sided == WithVars({2, 6}, {0, 4}, <<3, 6>>,
    <<Op(<<0>>, <<1>>, 1, 1), Op(<<1>>, <<2, 5>>, 1, 0), Op(<<1>>, <<0>>, 1, 0), Op(<<4>>, <<5>>, 1, 0),
      Op(<<5>>, <<6>>, 1, 0), Op(<<0>>, <<3>>, 1, 2), Op(<<3>>, <<1>>, 1, 2)>>)

-----------------------------------------------------------------------------
(* Problems of a single agent                                                *)

LocalOp(pre, eff, cost) == [pre |-> pre, eff |-> eff, cost |-> cost]
LocalTask(size, init, goal, var, ops) ==
    [size |-> size, init |-> init, goal |-> goal, var |-> [f \in 0 .. size + 1 |-> var[f]], ops |-> ops]
Pairs == [f \in 0 .. 8 |-> f \div 2]

\* A truck (facts 0 to 2) on a road of three places brings a package (3 to 6)
\* from the one end to the other.
Logistics ==
    LocalTask(7, {0, 5}, {3}, [f \in 0 .. 8 |-> IF f < 3 THEN 1 ELSE 2],
        <<LocalOp(<<0>>, <<1>>, 2), LocalOp(<<1>>, <<2>>, 1), LocalOp(<<2>>, <<1>>, 1),
          LocalOp(<<1>>, <<0>>, 2), LocalOp(<<2, 5>>, <<6>>, 1), LocalOp(<<0, 6>>, <<3>>, 1),
          LocalOp(<<1, 6>>, <<4>>, 1), LocalOp(<<1, 4>>, <<6>>, 1)>>)

\* Two goals, each with a cheap and a dear way, that are in each other's way.
Key ==
    LocalTask(7, {0, 2, 4}, {3, 5}, Pairs,
        <<LocalOp(<<0>>, <<1>>, 2), LocalOp(<<1, 2>>, <<3>>, 1), LocalOp(<<0, 2>>, <<3>>, 4),
          LocalOp(<<1>>, <<5, 0>>, 3), LocalOp(<<3>>, <<5>>, 2), LocalOp(<<0, 4>>, <<6>>, 0),
          LocalOp(<<6>>, <<5>>, 4)>>)

\* Some states are dead ends, and an operator needs nothing.
DeadEnds ==
    LocalTask(6, {0, 2}, {3, 5}, Pairs,
        <<LocalOp(<<0>>, <<1>>, 1), LocalOp(<<0, 2>>, <<3>>, 1), LocalOp(<<1>>, <<3>>, 0),
          LocalOp(<<1, 4>>, <<5>>, 1), LocalOp(<<0>>, <<5>>, 2), LocalOp(<<>>, <<2>>, 1)>>)

ThreeTasks == {Logistics, Key, DeadEnds}
AllKinds == {"goalcount", "dtg", "add", "max", "ff", "lm-cut", "local", "cache"}

-----------------------------------------------------------------------------
(* One of them runs                                                          *)

\* What an agent of LM-Cut keeps for an evaluation it keeps for each agent that
\* evaluates, so one of these is enough; the evaluations of FF overlap.
LmCut == INSTANCE MALmCut WITH Askers <- {0}
FF == INSTANCE MAHeurFF WITH Askers <- {0, 1}, Problems <- Problems \cup {Circle}
Dtg == INSTANCE MADTG WITH Askers <- Agent, Problems <- {Relayed, Circular, Known, Sided}
Local == INSTANCE Heuristics WITH Problems <- LocalProblems

maxVars == <<relax, fake, changed, cur>>
cutVars == <<main, priv>>
ffVars == <<plan, peer>>
dtgVars == <<ctx, slots>>
localVars == <<kind, prune, graph, nodes, marked, job, local, cache>>
allVars == <<which, vars, cutVars, ffVars, dtgVars, localVars>>

MaxIdle == relax = "idle" /\ fake = "idle" /\ changed = "idle" /\ cur = "idle"
CutIdle == main = "idle" /\ priv = "idle"
FFIdle == plan = "idle" /\ peer = "idle"
DtgIdle == ctx = "idle" /\ slots = "idle"
LocalIdle == /\ kind = "idle" /\ prune = "idle" /\ graph = "idle" /\ nodes = "idle"
             /\ marked = "idle" /\ job = "idle" /\ local = "idle" /\ cache = "idle"

SomeInit ==
    \/ which = "max" /\ Init /\ CutIdle /\ FFIdle /\ DtgIdle /\ LocalIdle
    \/ /\ which = "cut" /\ LmCut!Init
       /\ state = "idle" /\ waiting = "idle" /\ value = "idle"
       /\ MaxIdle /\ FFIdle /\ DtgIdle /\ LocalIdle
    \/ which = "ff" /\ FF!Init /\ MaxIdle /\ CutIdle /\ DtgIdle /\ LocalIdle
    \/ which = "dtg" /\ Dtg!Init /\ MaxIdle /\ CutIdle /\ FFIdle /\ LocalIdle
    \/ /\ which = "local" /\ Local!Init
       /\ heur = "idle" /\ state = "idle" /\ waiting = "idle" /\ evals = "idle" /\ chan = "idle"
       /\ MaxIdle /\ CutIdle /\ FFIdle /\ DtgIdle

ClusterNext ==
    /\ \/ which = "max" /\ Next /\ UNCHANGED <<cutVars, ffVars, dtgVars>>
       \/ /\ which = "cut" /\ LmCut!Next
          /\ UNCHANGED <<state, waiting, value, maxVars, ffVars, dtgVars>>
       \/ which = "ff" /\ FF!Next /\ UNCHANGED <<maxVars, cutVars, dtgVars>>
       \/ which = "dtg" /\ Dtg!Next /\ UNCHANGED <<maxVars, cutVars, ffVars>>
    /\ UNCHANGED <<which, localVars>>
LocalNext ==
    /\ which = "local" /\ Local!Next
    /\ UNCHANGED <<which, heur, state, waiting, evals, chan, maxVars, cutVars, ffVars, dtgVars>>

\* As the modules have it: in a cluster, something that can be done is done.
SomeSpec == SomeInit /\ [][ClusterNext \/ LocalNext]_allVars /\ WF_allVars(ClusterNext)

-----------------------------------------------------------------------------
(* Properties: those of the modules, where they are explained *)

\* No heuristic for an optimal search ever says more than the way to the goal
\* costs, and a dead end is one.
AllAdmissible ==
    CASE which = "max" -> NeverAbove
      [] which = "cut" -> LmCut!CutsAreLandmarks
      [] which = "ff" -> FF!DeadEndsAreReal
      [] which = "local" -> Local!Admissible
      [] OTHER -> TRUE

\* The distributed h^max is exact for tame evaluations; the estimate over domain
\* transition graphs is the one that is found if all is asked one by one.
EstimatesExact ==
    CASE which = "max" -> ExactWhenTame
      [] which = "dtg" -> Dtg!EstimateIsSequential
      [] OTHER -> TRUE

\* There are as many questions and answers under way as the agent waits for.
AskedOnce ==
    CASE which = "max" -> OneQuestion
      [] which = "ff" -> FF!AskedOnce
      [] which = "dtg" -> Dtg!TokensMatch
      [] OTHER -> TRUE

\* No agent has the justification graph, but together they have one.
SameGraph == which = "cut" => LmCut!SameGraph

\* Nothing that the operators of a relaxed plan need is missing, be it put
\* together from the answers of many agents or found by one.
PlansAreClosed ==
    CASE which = "ff" -> FF!PlanIsClosed
      [] which = "local" -> Local!PlansReach
      [] OTHER -> TRUE

\* The values of LM-Cut are repaired exactly when costs are lowered, and the
\* distances of open goals when values are reached.
RepairIsExact ==
    CASE which = "local" -> Local!RepairIsExact
      [] which = "dtg" -> Dtg!CtxFresh
      [] OTHER -> TRUE

\* A landmark of the cache is counted as often as it is used.
RefcountsExact == which = "local" => Local!RefcountsExact

\* Every evaluation in a cluster ends: EvaluationsEnd, CuttingEnds, AskingEnds and
\* QuestionsEnd of the modules in one, as only the variables of what runs have
\* values.
Evaluating(a) == CASE which = "cut" -> LmCut!Waiting(a)
                   [] which = "local" -> FALSE
                   [] OTHER -> waiting[a]
EvaluationsAllEnd == \A a \in Agent : Evaluating(a) ~> ~Evaluating(a)
=============================================================================
