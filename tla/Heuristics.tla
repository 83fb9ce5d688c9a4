----------------------------- MODULE Heuristics -----------------------------
(***************************************************************************)
(* The heuristics an agent computes alone, while a search makes a tree of   *)
(* states: goal count (src/heur_goalcount.c), h^add and h^max              *)
(* (src/heur_relax_add_max.c), FF (src/heur_relax_ff.c) with the preferred  *)
(* operators (src/pref_op_selector.c), the one over domain transition graphs *)
(* (src/heur_dtg.c), and LM-Cut (src/heur_lm_cut.c), which may start from   *)
(* the landmarks of the parent's state, computed for it on purpose (local)  *)
(* or taken from a cache of landmarks (src/landmark.c).                     *)
(*                                                                         *)
(* An LM-Cut evaluation is a step per cut.  A problem has facts 0 .. size-1, *)
(* var, which gives a fact its variable, the initial state init, goal, and  *)
(* ops without conditional effects.  The search evaluates a state when it    *)
(* makes it, from any state that was evaluated before (external).           *)
(***************************************************************************)
EXTENDS Projections, DTG

CONSTANTS Problems,   \* the planning problems
          Kinds,      \* the heuristics to choose from
          MaxNodes    \* bound on the states the search makes

VARIABLES problem,    \* the planning problem, fixed
          kind,       \* the heuristic, fixed
          prune,      \* whether the cache is pruned, fixed
          graph,      \* the domain transition graphs, fixed
          nodes,      \* the search tree: states with parent and operator
          value,      \* value[n]: the value of node n
          marked,     \* the last relaxed plan and the preferred operators, or
                      \* the last context over the domain transition graphs
          job,        \* the LM-Cut evaluation under way
          local,      \* inc_local: the landmarks kept and their node
          cache       \* the landmark cache

vars == <<problem, kind, prune, graph, nodes, value, marked, job, local, cache>>

NoNode == 0
NoJob == [node |-> NoNode]
NoMarks == [plan |-> {}, applicable |-> <<>>, preferred |-> 0]

Init == /\ problem \in Problems
        /\ kind \in Kinds
        /\ prune \in (IF kind = "cache" THEN BOOLEAN ELSE {FALSE})
        /\ graph = IF kind = "dtg" THEN Graph(problem, Transitions(problem, problem.ops, FALSE), FALSE)
                   ELSE <<>>
        /\ nodes = <<>>
        /\ value = <<>>
        /\ marked = NoMarks
        /\ job = NoJob
        /\ local = [node |-> NoNode, landmarks |-> <<>>]
        /\ cache = [sets |-> <<>>, refs |-> <<>>, prune |-> <<>>]

Tsk(type) == CrossRef(problem, type, problem.ops)
NoPre == FakeValues(problem, {})

-----------------------------------------------------------------------------
(* Preferred operators (pref_op_selector.c) *)

\* Mutant of Select: the operator that is replaced is not put elsewhere.
SelectOver(sel, o) ==
    LET from == {i \in sel.cur .. Len(sel.ops) : sel.ops[i] >= o}
        cur == Min(from \cup {Len(sel.ops) + 1})
    IN IF from # {} /\ sel.ops[cur] = o
       THEN [ops |-> [sel.ops EXCEPT ![sel.ins] = o], ins |-> sel.ins + 1, cur |-> cur + 1]
       ELSE [sel EXCEPT !.cur = cur]

\* planPrefOpSelectorSelect, with the cursor at cur and the preferred ones
\* before ins.
Select(sel, o) ==
    LET from == {i \in sel.cur .. Len(sel.ops) : sel.ops[i] >= o}
        cur == Min(from \cup {Len(sel.ops) + 1})
    IN IF from # {} /\ sel.ops[cur] = o
       THEN [ops |-> [sel.ops EXCEPT ![sel.ins] = o, ![cur] = sel.ops[sel.ins]],
             ins |-> sel.ins + 1, cur |-> cur + 1]
       ELSE [sel EXCEPT !.cur = cur]

Applicable(s) == {o \in DOMAIN problem.ops : ToSet(problem.ops[o].pre) \subseteq s}

\* prefOps: the operators of the relaxed plan first.
PrefOps(s, plan) ==
    LET start == [ops |-> Ascending(Len(problem.ops), Applicable(s)),
                  cur |-> 1, ins |-> 1]
        end == FoldLeft(LAMBDA x, o : Once(x, LAMBDA y : Select(y, o)), start,
                        Ascending(Len(problem.ops), plan))
    IN [plan |-> plan, applicable |-> end.ops, preferred |-> end.ins - 1]

-----------------------------------------------------------------------------
(* The heuristics of one step *)

\* heurVal of h^add and h^max: an infinite value is a dead end.
AddMax(type, s) ==
    LET eval(r) == [value |-> r.val[GoalFact(problem)],
                    marked |-> PrefOps(s, PlanOps(Tsk(type), r, {GoalFact(problem)}))]
    IN Once(Relax(Tsk(type), s, NoPre), eval)

\* heurVal of FF
FF(s) ==
    LET eval(e) == [e EXCEPT !.value = IF @ = CostMax THEN @
                                       ELSE SetCost(problem, e.marked.plan)]
    IN Once(AddMax("ADD", s), eval)

\* planHeurGoalCount
GoalCount(s) == [value |-> Cardinality(problem.goal \ s), marked |-> NoMarks]

\* heurDTG
DTGraph(s) == LET eval(c) == [value |-> c.heur, marked |-> c]
              IN Once(Evaluated(graph, s, problem.goal), eval)

Evaluation(s) == CASE kind = "goalcount" -> GoalCount(s)
                   [] kind = "dtg" -> DTGraph(s)
                   [] kind = "add" -> AddMax("ADD", s)
                   [] kind = "max" -> AddMax("MAX", s)
                   [] kind = "ff" -> FF(s)

-----------------------------------------------------------------------------
(* LM-Cut (lmCutState): landmarks are sets of operators *)

\* markGoalZone
GoalZone(t, r) ==
    LET mark[Z \in SUBSET t.facts] ==
            LET free == {o \in DOMAIN t.ops : r.cost[o] = 0 /\ ToSet(t.ops[o].eff) \cap Z # {}}
                more == {r.osupp[o] : o \in free} \ ({NoSupp} \cup Z)
            IN IF more = {} THEN Z ELSE mark[Z \cup more]
    IN mark[{t.goal}]

\* findCutEnqueueEffects of o
Enqueue(t, zone, x, o) ==
    LET new == SelectSeq(t.ops[o].eff, LAMBDA f : f \notin x.seen \cup zone)
        in == ToSet(t.ops[o].eff) \cap zone # {}
    IN [todo |-> x.todo \o new, seen |-> x.seen \cup ToSet(new),
        cut |-> IF in THEN Append(x.cut, o) ELSE x.cut]

\* findCut, findCutAddInit: the last fact of the queue first.
FindCut(t, r, s, zone) ==
    LET start == SetToSortSeq(s, <) \o <<NoPreFact(problem)>>
        by(f) == SelectSeq(FactPre(t, f), LAMBDA o : r.osupp[o] = f)
        pop(x) == FoldLeft(LAMBDA y, o : Once(y, LAMBDA z : Enqueue(t, zone, z, o)),
                           [x EXCEPT !.todo = Front(@)], by(Last(x.todo)))
        find[x \in [todo : Seq(t.facts), seen : SUBSET t.facts, cut : Seq(DOMAIN t.ops)]] ==
            IF x.todo = <<>> THEN x.cut ELSE find[pop(x)]
    IN find[[todo |-> start, seen |-> ToSet(start), cut |-> <<>>]]

\* Mutant of Cheapen: the values of the operators are not lowered with their costs.
CheapenCostOnly(r, ops, cost) ==
    [r EXCEPT !.cost = [o \in DOMAIN @ |-> IF o \in ops THEN @[o] - cost ELSE @[o]]]

\* What updateCutCost and applyInitLandmarks do to the operators of a landmark.
Cheapen(r, ops, cost) ==
    LET less(v) == [o \in DOMAIN v |-> IF o \in ops THEN v[o] - cost ELSE v[o]]
    IN [r EXCEPT !.cost = less(@), !.oval = less(@)]

LeastCost(r, ops) == Min({r.cost[o] : o \in ops})

\* Mutant of LandmarkCost: a landmark stays one when one of its operators has been used.
LandmarkCostKept(r, ops, used) == LeastCost(r, ops)

\* landmarkCost: a landmark with the operator that was used is discarded.
LandmarkCost(r, ops, used) == IF used \in ops THEN 0 ELSE LeastCost(r, ops)

\* applyInitLandmarks
ApplyLandmarks(t, j, landmarks, used) ==
    LET apply(x, ops) ==
            LET cost == LandmarkCost(x.relax, ops, used)
            IN IF cost <= 0 THEN x
               ELSE [x EXCEPT !.h = @ + cost, !.relax = Cheapen(@, ops, cost),
                              !.found = Append(@, ops)]
        applied == FoldLeft(LAMBDA x, ops : Once(x, LAMBDA y : apply(y, ops)), j, landmarks)
        repair(x) ==
            [x EXCEPT !.relax = IncMaxFull(t, @, Ascending(Len(t.ops), UNION ToSet(x.found)))]
    IN Once(applied, repair)

\* The beginning of lmCutState for s, the state of node n, on behalf of node for.
StartJob(n, s, for, landmarks, used) ==
    LET t == Tsk("MAX")
        blank(r) == [node |-> n, for |-> for, relax |-> r, h |-> 0, found |-> <<>>]
        given(j) == IF landmarks = <<>> THEN j ELSE ApplyLandmarks(t, j, landmarks, used)
        check(j) == IF j.relax.fsupp[t.goal] # NoSupp THEN j
                    ELSE [j EXCEPT !.relax.val[t.goal] = 0, !.h = CostMax]
    IN Once(Once(Once(RelaxFull(t, s, NoPre), blank), given), check)

\* One turn of the loop of lmCutState.
NextCut(j) ==
    LET t == Tsk("MAX")
        apply(cut) ==
            LET cost == LeastCost(j.relax, ToSet(cut))
            IN [j EXCEPT !.h = @ + cost, !.found = Append(@, ToSet(cut)),
                         !.relax = IncMaxFull(t, Cheapen(@, ToSet(cut), cost), cut)]
    IN Once(FindCut(t, j.relax, nodes[j.node].s, GoalZone(t, j.relax)), apply)

-----------------------------------------------------------------------------
(* The cache of landmarks: the set of landmarks of each node, how many sets  *)
(* a landmark is in, and the nodes whose sets may be pruned                 *)

\* ldmInsert, ldmSetDel
Refer(refs, ops) == IF ops \in DOMAIN refs THEN [refs EXCEPT ![ops] = @ + 1]
                    ELSE refs @@ (ops :> 1)
Release(refs, ops) ==
    IF refs[ops] = 1 THEN [x \in DOMAIN refs \ {ops} |-> refs[x]] ELSE [refs EXCEPT ![ops] = @ - 1]

\* Mutant of DropSet: the landmarks of the set are not released.
DropSetAlone(c, n) == [c EXCEPT !.sets = [m \in DOMAIN @ \ {n} |-> @[m]]]

DropSet(c, n) ==
    [c EXCEPT !.refs = FoldLeft(Release, @, c.sets[n]),
              !.sets = [m \in DOMAIN @ \ {n} |-> @[m]]]

\* planLandmarkPrune: all but the last of those that may be pruned.
Prune(c) ==
    IF Len(c.prune) <= 1 THEN c
    ELSE FoldLeft(DropSet, [c EXCEPT !.prune = <<Last(@)>>], Front(c.prune))

\* planLandmarkCacheAdd: the first set of a node stays.
CacheAdd(c, n, landmarks) ==
    LET pruned == IF prune THEN Prune(c) ELSE c
    IN IF n \in DOMAIN pruned.sets THEN pruned
       ELSE [pruned EXCEPT !.sets = @ @@ (n :> landmarks),
                           !.refs = FoldLeft(Refer, @, landmarks)]

\* planLandmarkCacheGet: who has been asked for may be pruned.
CacheGet(c, n) == IF n \in DOMAIN c.sets THEN c.sets[n] ELSE <<>>
Touched(c, n) == IF prune /\ n \in DOMAIN c.sets /\ ~Contains(c.prune, n)
                 THEN [c EXCEPT !.prune = Append(@, n)] ELSE c

-----------------------------------------------------------------------------
(* The search makes a node and has it evaluated *)

States == {nodes[n].s : n \in DOMAIN nodes}

\* The effects replace the values of their variables.
Successor(s, o) ==
    {f \in s : \A g \in ToSet(o.eff) : problem.var[g] # problem.var[f]} \cup ToSet(o.eff)

MakeNode(s, parent, op) ==
    /\ Len(nodes) < MaxNodes
    /\ job = NoJob
    /\ s \notin States
    /\ nodes' = Append(nodes, [s |-> s, parent |-> parent, op |-> op])

\* planHeurState, planHeurNode of a heuristic of one step
EvaluateAtOnce(s) ==
    /\ \E e \in {Evaluation(s)} : /\ value' = Append(value, e.value)
                                  /\ marked' = e.marked
    /\ UNCHANGED <<job, local, cache>>

\* planHeurLMCutNodeIncLocal, lmCutIncLocalParent: first the parent, unless its
\* landmarks are those that are kept.
StartLocal(n, s, parent, op) ==
    /\ IF parent = NoNode
       THEN /\ local' = [node |-> NoNode, landmarks |-> <<>>]
            /\ job' = StartJob(n, s, n, <<>>, op)
       ELSE /\ UNCHANGED local
            /\ job' = IF local.node = parent THEN StartJob(n, s, n, local.landmarks, op)
                      ELSE StartJob(parent, nodes[parent].s, n, <<>>, 0)
    /\ UNCHANGED cache

\* planHeurLMCutNodeIncCache
StartCached(n, s, parent, op) ==
    /\ cache' = Touched(cache, parent)
    /\ job' = StartJob(n, s, n, CacheGet(cache, parent), op)
    /\ UNCHANGED local

StartLmCut(n, s, parent, op) ==
    /\ \/ kind = "lm-cut" /\ job' = StartJob(n, s, n, <<>>, 0) /\ UNCHANGED <<local, cache>>
       \/ kind = "local" /\ StartLocal(n, s, parent, op)
       \/ kind = "cache" /\ StartCached(n, s, parent, op)
    /\ UNCHANGED <<value, marked>>

Visit(s, parent, op) ==
    /\ MakeNode(s, parent, op)
    /\ IF kind \in {"lm-cut", "local", "cache"}
       THEN StartLmCut(Len(nodes) + 1, s, parent, op) ELSE EvaluateAtOnce(s)
    /\ UNCHANGED <<problem, kind, prune, graph>>

VisitRoot == nodes = <<>> /\ Visit(problem.init, NoNode, 0)

VisitChild ==
    \E parent \in DOMAIN nodes : \E op \in Applicable(nodes[parent].s) :
    \E s \in {Successor(nodes[parent].s, problem.ops[op])} : Visit(s, parent, op)

-----------------------------------------------------------------------------
(* LM-Cut at work *)

GoalValue == job.relax.val[GoalFact(problem)]

Cut == /\ job # NoJob
       /\ GoalValue > 0
       /\ job' = NextCut(job)
       /\ UNCHANGED <<problem, kind, prune, graph, nodes, value, marked, local, cache>>

\* lmCutIncLocalParent ends: its landmarks are kept, and the child follows.
FinishParent ==
    /\ job # NoJob
    /\ GoalValue = 0
    /\ job.for # job.node
    /\ local' = [node |-> job.node, landmarks |-> job.found]
    /\ job' = StartJob(job.for, nodes[job.for].s, job.for, job.found, nodes[job.for].op)
    /\ UNCHANGED <<problem, kind, prune, graph, nodes, value, marked, cache>>

Finish ==
    /\ job # NoJob
    /\ GoalValue = 0
    /\ job.for = job.node
    /\ value' = Append(value, job.h)
    /\ job' = NoJob
    /\ cache' = IF kind = "cache" THEN CacheAdd(cache, job.node, job.found) ELSE cache
    /\ UNCHANGED <<problem, kind, prune, graph, nodes, marked, local>>

Next == VisitRoot \/ VisitChild \/ Cut \/ FinishParent \/ Finish

Spec == Init /\ [][Next]_vars

-----------------------------------------------------------------------------
(* Properties *)

\* A heuristic the optimal searches use never says more than the goal costs when
\* nothing is deleted, whatever states the landmarks it starts from were found
\* for, and all relaxations agree on what is a dead end.
Admissible ==
    job = NoJob /\ value # <<>> =>
        LET cost == RelaxedCost(problem, nodes[Len(value)].s)
        IN /\ kind \in {"max", "lm-cut", "local", "cache"} => Last(value) <= cost
           /\ kind \notin {"goalcount", "dtg"} => (Last(value) = CostMax <=> cost = CostMax)

\* After every cut the repaired values are those h^max has for the reduced costs.
RepairIsExact ==
    job # NoJob /\ job.h # CostMax =>
        LET cheaper == [problem EXCEPT !.ops =
                          [o \in DOMAIN @ |-> [@[o] EXCEPT !.cost = job.relax.cost[o]]]]
            cost == FactCosts(cheaper, nodes[job.node].s)
        IN \A f \in Facts(problem) : job.relax.val[f] = cost[f]

\* A landmark is counted as often as the sets of the cache hold it, so none that
\* is still used is freed by a prune and none stays for ever.
RefcountsExact ==
    LET held(ops) == FoldSet(LAMBDA n, k : k + Len(SelectSeq(cache.sets[n], LAMBDA x : x = ops)),
                             0, DOMAIN cache.sets)
    IN /\ DOMAIN cache.refs = UNION {ToSet(cache.sets[n]) : n \in DOMAIN cache.sets}
       /\ \A ops \in DOMAIN cache.refs : cache.refs[ops] = held(ops)
       /\ ToSet(cache.prune) \subseteq DOMAIN cache.sets

\* The relaxed plan reaches the goal, every applicable operator is listed, and
\* the preferred ones, the first of the list, are those of the plan.  Over the
\* domain transition graphs, the goals and all that the operators counted need
\* is reached, unless nothing leads to it from the state.
PlansReach ==
    LET m == marked
        s == nodes[Len(nodes)].s
    IN m # NoMarks /\ Last(value) # CostMax =>
        IF kind = "dtg" THEN m.goals = <<>> /\ GoalsMet(graph, m, s)
        ELSE /\ problem.goal \subseteq Reachable(problem, s, m.plan)
             /\ ToSet(m.applicable) = Applicable(s)
             /\ {m.applicable[i] : i \in 1 .. m.preferred} = ToSet(m.applicable) \cap m.plan
=============================================================================
