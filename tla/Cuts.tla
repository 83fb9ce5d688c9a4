-------------------------------- MODULE Cuts --------------------------------
(***************************************************************************)
(* What one agent does with its part of the justification graph while a     *)
(* cluster looks for a cut (cut_t of src/heur_ma_lm_cut.c): every operator  *)
(* hangs on its supporter, operators that cost nothing draw facts into the  *)
(* goal zone, and the operators that lead out of the start zone into the    *)
(* goal zone are in the cut.                                                *)
(*                                                                         *)
(* t is a task and r a relaxation of module HeurRelax.                      *)
(***************************************************************************)
EXTENDS HeurRelax

None == "none"
GoalZone == "goal zone"        \* CUT_GOAL_ZONE
StartZone == "start zone"      \* CUT_START_ZONE
OpDone == "done"               \* CUT_OP_DONE: the others know of it

\* hmaxFull: Unreachable is the value of what is out of reach.
Unreachable == CostMax \div 2
MarkOut(r) ==
    LET out(o) == r.unsat[o] > 0
    IN [r EXCEPT !.oval = [o \in DOMAIN @ |-> IF out(o) THEN Unreachable ELSE @[o]],
                 !.cost = [o \in DOMAIN @ |-> IF out(o) THEN 0 ELSE @[o]],
                 !.osupp = [o \in DOMAIN @ |-> IF out(o) THEN NoSupp ELSE @[o]]]
HMaxFull(t, s, fake) == Once(RelaxFull(t, s, fake), MarkOut)

\* cutInitCycle
NewCut(t) == [op |-> [o \in DOMAIN t.ops |-> None], fact |-> [f \in t.facts |-> None],
              in |-> {}, min |-> CostMax]

CutsOf(t) == [op : [DOMAIN t.ops -> {None, GoalZone, StartZone, OpDone}],
              fact : [t.facts -> {None, GoalZone, StartZone}],
              in : SUBSET DOMAIN t.ops, min : Int]

\* m with y instead of x for every element of S
Becomes(m, S, y) == [x \in DOMAIN m |-> IF x \in S THEN y ELSE m[x]]

-----------------------------------------------------------------------------
(* The goal zone *)

\* cutMarkGoalZone: everything that reaches the fact g for nothing.
MarkGoalZone(t, r, c, g) ==
    LET mark[x \in CutsOf(t), todo \in SUBSET t.facts] ==
            LET free == {o \in DOMAIN t.ops : x.op[o] = None /\ r.cost[o] = 0
                                              /\ ToSet(t.ops[o].eff) \cap todo # {}}
                new == {f \in {r.osupp[o] : o \in free} \ {NoSupp} : x.fact[f] = None}
            IN IF free = {} THEN x
               ELSE mark[[x EXCEPT !.op = Becomes(@, free, GoalZone),
                                   !.fact = Becomes(@, new, GoalZone)], new]
    IN mark[[c EXCEPT !.fact[g] = GoalZone], {g}]

\* cutMarkGoalZoneOp: another agent has found o in the goal zone.
MarkGoalZoneOp(t, r, c, o) ==
    LET known == [c EXCEPT !.op[o] = OpDone]
    IN IF c.op[o] # None THEN c
       ELSE IF r.osupp[o] = NoSupp THEN known
       ELSE MarkGoalZone(t, r, known, r.osupp[o])

-----------------------------------------------------------------------------
(* The cut *)

\* cutFindAddEff, for all operators of O
FindAddEff(t, r, c, O) ==
    LET effects == UNION {ToSet(t.ops[o].eff) : o \in O}
        crossing == {o \in O : \E f \in ToSet(t.ops[o].eff) : c.fact[f] = GoalZone}
    IN [c EXCEPT !.in = @ \cup crossing,
                 !.min = Min({@} \cup {r.cost[o] : o \in crossing}),
                 !.fact = Becomes(@, {f \in effects : c.fact[f] = None}, StartZone)]

\* cutFindLoop: on from the facts of new.
FindLoop(t, r, c, new) ==
    LET find[x \in CutsOf(t), todo \in SUBSET t.facts] ==
            LET O == {o \in DOMAIN t.ops : x.op[o] = None /\ r.osupp[o] \in todo}
                y == FindAddEff(t, r, [x EXCEPT !.op = Becomes(@, O, StartZone)], O)
            IN IF O = {} THEN x ELSE find[y, {f \in t.facts : y.fact[f] # x.fact[f]}]
    IN find[c, new]

\* cutFind with is_init, from one fact after the other.
FindFrom(t, r, c, facts) ==
    LET find[x \in CutsOf(t), f \in t.facts] ==
            FindLoop(t, r, [x EXCEPT !.fact[f] = StartZone], {f})
    IN FoldLeft(LAMBDA x, f : find[x, f], c, facts)

\* cutFindOp: another agent has found o in the start zone.
FindOp(t, r, c, o) ==
    LET known == FindAddEff(t, r, [c EXCEPT !.op[o] = OpDone], {o})
    IN IF c.op[o] # None THEN c
       ELSE FindLoop(t, r, known, {f \in t.facts : known.fact[f] # c.fact[f]})

-----------------------------------------------------------------------------
(* Applying the cut *)

\* cutApply
CutApply(r, c) ==
    LET less(v) == [o \in DOMAIN v |-> IF o \in c.in THEN v[o] - c.min ELSE v[o]]
    IN [r EXCEPT !.cost = less(@), !.oval = less(@)]

\* hmaxResetNonSupportedOps: what the others have said of these operators is
\* forgotten.
Unsupported(t, r) == {o \in DOMAIN t.ops : r.osupp[o] = NoSupp /\ r.unsat[o] = 0}
ResetUnsupported(t, r) ==
    LET O == Unsupported(t, r)
        dearest(o) == Max({r.val[f] : f \in ToSet(t.ops[o].pre)})
        first(o) == t.ops[o].pre[SelectInSeq(t.ops[o].pre, LAMBDA f : r.val[f] = dearest(o))]
    IN [r EXCEPT !.oval = [o \in DOMAIN @ |-> IF o \in O THEN dearest(o) + r.cost[o] ELSE @[o]],
                 !.osupp = [o \in DOMAIN @ |-> IF o \in O THEN first(o) ELSE @[o]]]

\* updateHMaxByCut
UpdateByCut(t, r, c) ==
    Once(CutApply(r, c), LAMBDA x :
        IncMaxFull(t, ResetUnsupported(t, x),
                   Ascending(Len(t.ops), c.in)
                   \o Ascending(Len(t.ops), Unsupported(t, x) \ c.in)))
=============================================================================
