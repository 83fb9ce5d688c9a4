------------------------------ MODULE HeurRelax ------------------------------
(***************************************************************************)
(* The delete relaxation (src/heur_relax.c) over cross-referenced facts and *)
(* operators (src/fact_op_cross_ref.c): how far every fact and operator is  *)
(* from a state when nothing is ever deleted, computed from scratch         *)
(* (Relax, Relax2, RelaxFull), repaired after operators have become cheaper *)
(* (IncMaxFull) or after the values of some have been raised                *)
(* (UpdateMaxFull), and the relaxed plan it stands for (PlanFacts, PlanOps). *)
(*                                                                         *)
(* A task t has a type, "ADD" or "MAX", facts, which are numbers, and ops, a *)
(* sequence of operators [pre, eff, cost] whose pre and eff are sequences of *)
(* facts.  A conditional effect is an operator of its own, opid[o] being the *)
(* number of the operator it is taken from.  The last operator reaches the  *)
(* artificial goal fact t.goal and has opid 0.  The keys of the priority    *)
(* queue stay below its bucket array's size (prio_queue.h, 1024), so the    *)
(* queue is never turned into a heap.                                       *)
(***************************************************************************)
EXTENDS Integers, Sequences, SequencesExt

CostMax == 2147483647    \* PLAN_COST_MAX, PLAN_HEUR_DEAD_END: INT_MAX
NoSupp == -1             \* supp of what nothing supports

\* F(e), with e evaluated once.
Once(e, F(_)) == CHOOSE y \in {F(x) : x \in {e}} : TRUE

InPre(o, f) == Contains(o.pre, f)
InEff(o, f) == Contains(o.eff, f)

\* cref.fact_pre[f], cref.fact_eff[f]: operators in the order of their numbers.
FactPre(t, f) == SelectSeq([i \in DOMAIN t.ops |-> i], LAMBDA o : InPre(t.ops[o], f))
FactEff(t, f) == {o \in DOMAIN t.ops : InEff(t.ops[o], f)}

\* The numbers of the set S, out of 1 .. n, in ascending order.
Ascending(n, S) == SelectSeq([i \in 1 .. n |-> i], LAMBDA i : i \in S)

-----------------------------------------------------------------------------
(* The priority queue: the last inserted of the least keys is popped *)

Push(q, k, f) == Append(q, [key |-> k, fact |-> f])

PopIndex(q) == CHOOSE i \in DOMAIN q : \A j \in DOMAIN q :
    q[i].key < q[j].key \/ (q[i].key = q[j].key /\ j <= i)

-----------------------------------------------------------------------------
(* A relaxation r: the values and supporters of facts (val, fsupp), the      *)
(* values, supporters, costs and unsatisfied preconditions of operators     *)
(* (oval, osupp, cost, unsat), and the queue while an exploration runs      *)

Relaxations(t) == [val : [t.facts -> Int], fsupp : [t.facts -> Int],
                   oval : [DOMAIN t.ops -> Int], osupp : [DOMAIN t.ops -> Int],
                   cost : [DOMAIN t.ops -> Int], unsat : [DOMAIN t.ops -> Int],
                   queue : Seq([key : Int, fact : t.facts])]

\* relaxInit, relaxAddInitState: fake[f] is the value of the artificial fact f.
RelaxInit(t, s, fake) ==
    LET start == SetToSortSeq(s, <) \o SetToSortSeq(DOMAIN fake, <)
        value(f) == IF f \in s THEN 0 ELSE IF f \in DOMAIN fake THEN fake[f] ELSE CostMax
    IN [val   |-> [f \in t.facts |-> value(f)],
        fsupp |-> [f \in t.facts |-> NoSupp],
        oval  |-> [o \in DOMAIN t.ops |-> 0],
        osupp |-> [o \in DOMAIN t.ops |-> NoSupp],
        cost  |-> [o \in DOMAIN t.ops |-> t.ops[o].cost],
        unsat |-> [o \in DOMAIN t.ops |-> Len(t.ops[o].pre)],
        queue |-> [i \in DOMAIN start |-> [key |-> value(start[i]), fact |-> start[i]]]]

\* relaxAddEffects: the effects o reaches at a lower value.
AddEffects(t, r, o) ==
    LET v == r.oval[o]
        better == SelectSeq(t.ops[o].eff, LAMBDA f : r.val[f] > v)
        lower(f) == Contains(better, f)
    IN [r EXCEPT !.val = [f \in t.facts |-> IF lower(f) THEN v ELSE @[f]],
                 !.fsupp = [f \in t.facts |-> IF lower(f) THEN o ELSE @[f]],
                 !.queue = @ \o [i \in DOMAIN better |-> [key |-> v, fact |-> better[i]]]]

\* relaxOpAdd: the fact f of value v is reached, which o needs.
OpAdd(t, r, o, f, v) ==
    LET own == IF r.oval[o] = 0 THEN r.cost[o] ELSE r.oval[o]
        counted == [r EXCEPT !.oval[o] = own + v, !.unsat[o] = @ - 1]
    IN IF counted.unsat[o] = 0
       THEN AddEffects(t, [counted EXCEPT !.osupp[o] = f], o) ELSE counted

\* relaxOpMax: the last fact that is reached is the one with the highest value.
OpMax(t, r, o, f, v) ==
    LET counted == [r EXCEPT !.unsat[o] = @ - 1]
        enabled == [counted EXCEPT !.osupp[o] = f, !.oval[o] = v + r.cost[o]]
    IN IF counted.unsat[o] = 0 THEN AddEffects(t, enabled, o) ELSE counted

ReachOp(t, r, o, f, v) == IF t.type = "ADD" THEN OpAdd(t, r, o, f, v) ELSE OpMax(t, r, o, f, v)

\* What is popped next, whether it is up to date, and what remains.
Popped(r) == r.queue[PopIndex(r.queue)]
Fresh(r) == r.val[Popped(r).fact] = Popped(r).key
Rest(r) == [r EXCEPT !.queue = RemoveAt(@, PopIndex(@))]

\* One turn of the exploration's loop (_heur_relax_explore.h).
ExploreFact(t, r) ==
    LET e == Popped(r)
        reach[x \in Relaxations(t), o \in DOMAIN t.ops] == ReachOp(t, x, o, e.fact, e.key)
    IN IF ~Fresh(r) THEN Rest(r)
       ELSE FoldLeft(LAMBDA x, o : reach[x, o], Rest(r), FactPre(t, e.fact))

Explore(t, r) ==
    LET explore[x \in Relaxations(t)] ==
          IF x.queue = <<>> THEN x ELSE explore[ExploreFact(t, x)]
    IN explore[r]

\* The exploration that stops at the last of the goals, with the number of goals
\* that were not reached.
ExploreGoals(t, r, goals) ==
    LET explore[x \in Relaxations(t), left \in 0 .. Cardinality(goals)] ==
          IF x.queue = <<>> THEN [relax |-> x, left |-> left]
          ELSE IF Fresh(x) /\ Popped(x).fact \in goals
               THEN IF left = 1 THEN [relax |-> [x EXCEPT !.queue = <<>>], left |-> 0]
                    ELSE explore[ExploreFact(t, x), left - 1]
               ELSE explore[ExploreFact(t, x), left]
    IN explore[r, Cardinality(goals)]

\* planHeurRelaxFull, planHeurRelax
RelaxFull(t, s, fake) == Explore(t, RelaxInit(t, s, fake))
Relax(t, s, fake) == ExploreGoals(t, RelaxInit(t, s, fake), {t.goal}).relax

\* planHeurRelax2: towards other goals, with their value.
Relax2(t, s, fake, goals) ==
    LET e == ExploreGoals(t, RelaxInit(t, s, fake), goals)
        sum == FoldSet(LAMBDA f, h : h + e.relax.val[f], 0, goals)
        max == Max({e.relax.val[f] : f \in goals} \cup {0})
    IN [relax |-> e.relax,
        heur |-> IF e.left > 0 THEN CostMax ELSE IF t.type = "ADD" THEN sum ELSE max]

-----------------------------------------------------------------------------
(* planHeurRelaxMarkPlan, planHeurRelaxMarkPlan2: the facts of the relaxed   *)
(* plan for the given ones, and the operators that support them             *)

PlanFacts(t, r, facts) ==
    LET needed(F) == UNION {ToSet(t.ops[r.fsupp[f]].pre) : f \in {g \in F : r.fsupp[g] # NoSupp}}
        mark[F \in SUBSET t.facts] ==
            LET more == {f \in needed(F) : r.fsupp[f] # NoSupp} \ F
            IN IF more = {} THEN F ELSE mark[F \cup more]
    IN mark[facts]

PlanOps(t, r, facts) ==
    {t.opid[r.fsupp[f]] : f \in {g \in PlanFacts(t, r, facts) : r.fsupp[g] # NoSupp}} \ {0}

-----------------------------------------------------------------------------
(* planHeurRelaxIncMaxFull: some operators have become cheaper              *)

\* incUpdateOpMax: the first of the most expensive preconditions, and the
\* supporter before all others.
IncUpdateOp(t, r, o) ==
    LET pre == t.ops[o].pre
        v == Max({r.val[f] : f \in ToSet(pre) \cup {r.osupp[o]}})
        first == SelectInSeq(pre, LAMBDA f : r.val[f] = v)
    IN [r EXCEPT !.oval[o] = v + r.cost[o],
                 !.osupp[o] = IF r.val[@] = v THEN @ ELSE pre[first]]

\* incRelaxOpMax
IncOp(t, r, o, f, v) ==
    IF r.osupp[o] # f \/ r.unsat[o] > 0 \/ r.oval[o] - r.cost[o] = v THEN r
    ELSE AddEffects(t, IncUpdateOp(t, r, o), o)

IncFact(t, r) ==
    LET e == Popped(r)
        inc[x \in Relaxations(t), o \in DOMAIN t.ops] == IncOp(t, x, o, e.fact, e.key)
    IN IF ~Fresh(r) THEN Rest(r)
       ELSE FoldLeft(LAMBDA x, o : inc[x, o], Rest(r), FactPre(t, e.fact))

\* incMax without a goal: ops is the sequence of the operators that changed.
IncMaxFull(t, r, ops) ==
    LET start[x \in Relaxations(t), o \in DOMAIN t.ops] ==
            IF x.unsat[o] > 0 THEN x ELSE AddEffects(t, x, o)
        inc[x \in Relaxations(t)] == IF x.queue = <<>> THEN x ELSE inc[IncFact(t, x)]
    IN inc[FoldLeft(LAMBDA x, o : start[x, o], r, ops)]

-----------------------------------------------------------------------------
(* planHeurRelaxUpdateMaxFull: the values of some operators were raised     *)

\* updateFactValue: the cheapest reachable operator that reaches f.
UpdateFactValue(t, r, f) ==
    LET ops == {o \in FactEff(t, f) : r.unsat[o] = 0}
        v == Min({r.oval[o] : o \in ops})
    IN IF ops = {} THEN r
       ELSE [r EXCEPT !.val[f] = v,
                      !.fsupp[f] = Min({o \in ops : r.oval[o] = v})]

\* updateMaxOp: the facts supported by o.
UpdateMaxOp(t, r, o) ==
    LET update[x \in Relaxations(t), f \in t.facts] ==
          LET y == UpdateFactValue(t, x, f)
          IN IF y.val[f] = x.val[f] THEN y
             ELSE [y EXCEPT !.queue = Push(@, y.val[f], f)]
        supported == SelectSeq(t.ops[o].eff, LAMBDA f : r.fsupp[f] = o)
    IN FoldLeft(LAMBDA x, f : update[x, f], r, supported)

\* updateMaxFact: the operators that need f, of value v.
UpdateMaxFact(t, r, f, v) ==
    LET raise[x \in Relaxations(t), o \in DOMAIN t.ops] ==
          IF x.unsat[o] = 0 /\ x.oval[o] < x.cost[o] + v
          THEN UpdateMaxOp(t, [x EXCEPT !.oval[o] = x.cost[o] + v,
                                        !.osupp[o] = f], o)
          ELSE x
    IN FoldLeft(LAMBDA x, o : raise[x, o], r, FactPre(t, f))

UpdateFact(t, r) ==
    IF ~Fresh(r) THEN Rest(r) ELSE UpdateMaxFact(t, Rest(r), Popped(r).fact, Popped(r).key)

UpdateFacts(t, r) ==
    LET update[x \in Relaxations(t)] ==
          IF x.queue = <<>> THEN x ELSE update[UpdateFact(t, x)]
    IN update[r]

\* planHeurRelaxUpdateMaxFull: ops is the sequence of the raised operators.
UpdateMaxFull(t, r, ops) ==
    LET start[x \in Relaxations(t), o \in DOMAIN t.ops] == IF x.unsat[o] > 0 THEN x
                       ELSE UpdateMaxOp(t, [x EXCEPT !.osupp[o] = NoSupp], o)
    IN UpdateFacts(t, FoldLeft(LAMBDA x, o : start[x, o], r, ops))
=============================================================================
