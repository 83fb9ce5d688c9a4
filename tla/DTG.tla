--------------------------------- MODULE DTG ---------------------------------
(***************************************************************************)
(* Domain transition graphs (src/dtg.c) and the heuristic computed on them   *)
(* (src/heur_dtg.c): for each variable, which operators lead from one value *)
(* to another.  The heuristic takes the open goal that is farthest from all  *)
(* values reached so far, goes the shortest way to it, adds what the         *)
(* operators on the way reach to the values and what they need to the goals, *)
(* and counts the operators.                                                *)
(*                                                                         *)
(* Facts stand for values; a problem p has facts 0 .. size-1, and var gives  *)
(* a fact its variable.  A graph may have one more value for each variable,  *)
(* '?', for all that is unknown to an agent (planDTGInitUnknown).  The       *)
(* variable an agent keeps for the private parts of others (ma_privacy) has  *)
(* no graph and is left out.                                                *)
(***************************************************************************)
EXTENDS HeurRelax

NoVal == -1     \* the value -1: none

\* F applied n times to e.
Repeat(n, F(_), e) == FoldLeft(LAMBDA x, i : Once(x, F), e, [i \in 1 .. n |-> i])

-----------------------------------------------------------------------------
(* Graphs: the values of each variable, the operators between two values,    *)
(* and the paths to each value                                             *)

Vars(p) == {p.var[f] : f \in 0 .. p.size - 1}
Unknown(p, x) == p.size + x
VarOf(p, v) == IF v < p.size THEN p.var[v] ELSE v - p.size

\* The values of variable x in their order, '?' last.
Values(p, x, unknown) ==
    LET known == SelectSeq([i \in 1 .. p.size |-> i - 1], LAMBDA f : p.var[f] = x)
    IN IF unknown THEN Append(known, Unknown(p, x)) ELSE known

\* dtgUpdateByOp, dtgConnectAll: whether o leads from one value to the other.
Connects(p, o, from, to) ==
    LET pre == {f \in ToSet(o.pre) : p.var[f] = VarOf(p, to)}
    IN InEff(o, to) /\ IF pre = {} THEN from # to ELSE from \in pre

\* _planDTGInit
Transitions(p, ops, unknown) ==
    LET trans(x) == [e \in ToSet(Values(p, x, unknown)) \X ToSet(Values(p, x, unknown)) |->
                        SelectSeq(ops, LAMBDA o : Connects(p, o, e[1], e[2]))]
    IN [x \in Vars(p) |-> trans(x)]

\* dtgPathExplore: the shortest paths from all values of vals to the value goal,
\* the next value on them and their lengths.
PathTo(vals, trans, goal) ==
    LET start == [todo |-> <<goal>>,
                  next |-> [v \in ToSet(vals) |-> IF v = goal THEN goal ELSE NoVal],
                  len |-> [v \in ToSet(vals) |-> IF v = goal THEN 0 ELSE CostMax]]
        enter(x, v, new) ==
            [todo |-> Tail(x.todo) \o new,
             next |-> [w \in ToSet(vals) |-> IF Contains(new, w) THEN v ELSE x.next[w]],
             len |-> [w \in ToSet(vals) |-> IF Contains(new, w) THEN x.len[v] + 1 ELSE x.len[w]]]
        enters(x, w) == x.next[w] = NoVal /\ trans[<<w, Head(x.todo)>>] # <<>>
        pop(x) == IF x.todo = <<>> THEN x
                  ELSE enter(x, Head(x.todo), SelectSeq(vals, LAMBDA w : enters(x, w)))
        path == Repeat(Len(vals), pop, start)
    IN [next |-> path.next, len |-> path.len]

\* planHeurDTGDataInit, planHeurDTGDataInitUnknown, with all paths of the cache.
Graph(p, trans, unknown) ==
    [var |-> p.var, trans |-> trans,
     path |-> [f \in 0 .. p.size - 1 |-> PathTo(Values(p, p.var[f], unknown), trans[p.var[f]], f)]]

-----------------------------------------------------------------------------
(* The context of an evaluation: the values that are reached, all goals that *)
(* were ever added (opened), the open ones with the nearest value and its     *)
(* distance, and the estimate                                               *)

\* ctxMinDist: the first of the nearest values.
Goal(g, values, f) ==
    LET len == g.path[f].len
        here == values \cap DOMAIN len
        first(d) == IF d = CostMax THEN NoVal ELSE Min({v \in here : len[v] = d})
        nearest(d) == [fact |-> f, dist |-> d, from |-> first(d)]
    IN IF f \in values THEN [fact |-> f, dist |-> 0, from |-> f]
       ELSE Once(Min({len[v] : v \in here} \cup {CostMax}), nearest)

\* Mutant of AddValue: the open goals of the variable keep their distances.
AddValueOnly(g, c, v) == [c EXCEPT !.values = @ \cup {v}]

\* ctxAddValue: the distances of the open goals of the variable are brought up
\* to date.
AddValue(g, c, v) ==
    IF v \in c.values THEN c
    ELSE LET near(d) == IF g.var[d.fact] = g.var[v] THEN Goal(g, c.values \cup {v}, d.fact) ELSE d
         IN [c EXCEPT !.values = @ \cup {v}, !.goals = [i \in DOMAIN @ |-> near(@[i])]]

\* ctxAddGoal: what is reached or was a goal before is not added.
AddGoal(g, c, f) ==
    IF f \in c.values \cup c.opened THEN c
    ELSE [c EXCEPT !.opened = @ \cup {f}, !.goals = Append(@, Goal(g, c.values, f))]

\* planHeurDTGCtxInitStep
CtxInitStep(g, s, goal) ==
    FoldLeft(LAMBDA c, f : Once(c, LAMBDA x : AddGoal(g, x, f)),
             [values |-> s, opened |-> {}, goals |-> <<>>, heur |-> 0], SetToSortSeq(goal, <))

\* ctxMinCostOp: the first of the operators whose preconditions are nearest.
MinCostOp(g, c, ops) ==
    LET dist(f) == Goal(g, c.values, f).dist
        cost(o) == IF \E f \in ToSet(o.pre) : dist(f) = CostMax THEN CostMax
                   ELSE FoldLeft(LAMBDA k, f : k + dist(f), 0, o.pre)
        first(least) == ops[SelectInSeq(ops, LAMBDA o : cost(o) = least)]
    IN Once(Min({cost(o) : o \in ToSet(ops)}), first)

\* One step of ctxUpdatePath, by the operator o.
Walk(g, c, o) ==
    LET reached == FoldLeft(LAMBDA x, f : Once(x, LAMBDA y : AddValue(g, y, f)), c, o.eff)
        wanted == FoldLeft(LAMBDA x, f : Once(x, LAMBDA y : AddGoal(g, y, f)), reached, o.pre)
    IN [wanted EXCEPT !.heur = @ + IF o.eff # <<>> /\ o.pre # <<>> THEN 1 ELSE 0]

\* ctxUpdatePath: a goal that nothing leads to is given up.
UpdatePath(g, c, goal) ==
    LET to(v) == g.path[goal.fact].next[v]
        ops(x) == g.trans[g.var[goal.fact]][<<x.at, to(x.at)>>]
        walk(x, o) == [ctx |-> Walk(g, x.ctx, o), at |-> to(x.at)]
        step(x) == Once(MinCostOp(g, x.ctx, ops(x)), LAMBDA o : walk(x, o))
    IN IF goal.from = NoVal THEN c
       ELSE Repeat(goal.dist, step, [ctx |-> c, at |-> goal.from]).ctx

\* Mutant of Without: the last goal is lost.
WithoutLast(goals, i) == Front(goals)

\* ctxNextOpenGoal: the first of the farthest goals; the last takes its place.
Farthest(c) == CHOOSE i \in DOMAIN c.goals : \A j \in DOMAIN c.goals :
    c.goals[i].dist > c.goals[j].dist \/ (c.goals[i].dist = c.goals[j].dist /\ i <= j)
Without(goals, i) == Front([goals EXCEPT ![i] = Last(goals)])

\* planHeurDTGCtxStep, for the open goal with the number i.
CtxStep(g, c, i) == UpdatePath(g, [c EXCEPT !.goals = Without(@, i)], c.goals[i])

\* heurDTG: a goal is added once, so there are no more steps than facts.
Evaluated(g, s, goal) ==
    LET step(c) == IF c.goals = <<>> THEN c ELSE CtxStep(g, c, Farthest(c))
    IN Repeat(Cardinality(DOMAIN g.path), step, CtxInitStep(g, s, goal))

-----------------------------------------------------------------------------
(* What properties say of a context                                         *)

\* The distances of the open goals are those of the values reached by now.
DistancesFresh(g, c) == \A i \in DOMAIN c.goals : c.goals[i] = Goal(g, c.values, c.goals[i].fact)

\* Every goal that an evaluation without open goals has had is reached, unless
\* nothing leads to it from the state s.
GoalsMet(g, c, s) == \A f \in c.opened : f \in c.values \/ Goal(g, s, f).from = NoVal
=============================================================================
