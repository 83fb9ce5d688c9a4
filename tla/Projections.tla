---------------------------- MODULE Projections ----------------------------
(***************************************************************************)
(* What an agent knows of a planning problem when a heuristic is computed by *)
(* the whole cluster: the projections of the operators (src/problem.cc,     *)
(* src/problem.c) and the tasks for the delete relaxation made of them      *)
(* (src/fact_op_cross_ref.c).                                               *)
(*                                                                         *)
(* A problem has facts 0 .. size-1, goal, a set of facts, states, sets of   *)
(* facts that are to be evaluated, and ops, a sequence of operators [pre,   *)
(* eff, cost, owner] over sequences of facts; an operator's global id is    *)
(* its index.  Every operator has one owner and no conditional effects.     *)
(***************************************************************************)
EXTENDS Channels, HeurRelax

-----------------------------------------------------------------------------
(* What an agent knows of a problem p (problem.cc) *)

Facts(p) == 0 .. p.size - 1
GoalFact(p) == p.size             \* cref.goal_id
NoPreFact(p) == p.size + 1        \* cref.fake_pre[0]
FakeFact(p, i) == p.size + 1 + i

\* AgentVarVals: who uses a fact; goals are used by all.
Users(p, f) == IF f \in p.goal THEN Agent
               ELSE {o.owner : o \in {q \in ToSet(p.ops) : InPre(q, f) \/ InEff(q, f)}}

PublicFact(p, f) == Cardinality(Users(p, f)) > 1
PrivateFact(p, a, f) == Users(p, f) = {a}

\* The operators restricted to the facts kept, without empty ones.
Restricted(ops, kept) ==
    SelectSeq([i \in DOMAIN ops |->
                 [id |-> i, pre |-> SelectSeq(ops[i].pre, LAMBDA f : f \in kept),
                  eff |-> SelectSeq(ops[i].eff, LAMBDA f : f \in kept),
                  cost |-> ops[i].cost, owner |-> ops[i].owner]],
              LAMBDA o : o.pre # <<>> \/ o.eff # <<>>)

\* createProjectedOps: a sees public facts and those it uses.
ProjectedOps(p, a) ==
    Restricted(p.ops, {f \in Facts(p) : PublicFact(p, f) \/ a \in Users(p, f)})

\* planProblemCreatePrivateProjOps: the private facts of a's operators.
PrivateProjOps(p, a) ==
    SelectSeq(Restricted(p.ops, {f \in Facts(p) : PrivateFact(p, a, f)}),
              LAMBDA o : o.owner = a)

\* setOpPrivate
IsPrivate(p, o) == \A f \in ToSet(o.pre \o o.eff) : ~PublicFact(p, f)

\* planFactOpCrossRefInit: an operator without preconditions gets the
\* artificial one, and the last operator reaches the artificial goal.
CrossRef(p, type, ops) ==
    [type |-> type,
     ops |-> Append([i \in DOMAIN ops |->
                       [pre |-> IF ops[i].pre = <<>> THEN <<NoPreFact(p)>> ELSE ops[i].pre,
                        eff |-> ops[i].eff, cost |-> ops[i].cost]],
                    [pre |-> SetToSortSeq(p.goal, <), eff |-> <<GoalFact(p)>>, cost |-> 0]),
     opid |-> Append([i \in DOMAIN ops |-> i], 0),
     facts |-> 0 .. NoPreFact(p), goal |-> GoalFact(p)]

\* planHeurRelaxAddFakePre for the public operators among ops (privateInit).
FakedOps(p, ops) == {i \in DOMAIN ops : ~IsPrivate(p, p.ops[ops[i].id])}
WithFakePre(p, t, faked) ==
    [t EXCEPT !.ops = [i \in DOMAIN @ |-> IF i \in faked
                  THEN [@[i] EXCEPT !.pre = Append(@, FakeFact(p, i))] ELSE @[i]],
              !.facts = @ \cup {FakeFact(p, i) : i \in faked}]

\* The artificial facts an exploration starts from.
FakeValues(p, S) == [f \in {NoPreFact(p)} \cup {FakeFact(p, i) : i \in S} |-> 0]

\* agentSize, of the operators of a projection
AgentSize(ops) == 1 + Max({o.owner : o \in ToSet(ops)})

\* planOpIdTrLoc: the number of the operator id in ops, or 0.
Loc(ops, id) == SelectInSeq(ops, LAMBDA o : o.id = id)

-----------------------------------------------------------------------------
(* The reference: h^max of the whole problem *)

\* What o costs when facts cost v: its most expensive precondition and itself.
OpCost(v, o) == LET pre == Max({v[f] : f \in ToSet(o.pre)} \cup {0})
                IN IF pre = CostMax THEN CostMax ELSE pre + o.cost

\* The costs of the facts, each reached in at most k rounds of operators.
FactCosts(p, s) ==
    LET lower(v) == [f \in Facts(p) |->
            Min({v[f]} \cup {OpCost(v, o) : o \in {q \in ToSet(p.ops) : InEff(q, f)}})]
        cost[k \in 0 .. p.size] ==
            IF k = 0 THEN [f \in Facts(p) |-> IF f \in s THEN 0 ELSE CostMax]
            ELSE lower(cost[k - 1])
    IN cost[p.size]

-----------------------------------------------------------------------------
(* The reference: what the cheapest set of operators costs that reaches the  *)
(* goal when nothing is ever deleted, CostMax if there is none               *)

Reachable(p, s, O) ==
    LET reach[S \in SUBSET Facts(p)] ==
            LET more == S \cup UNION {ToSet(p.ops[o].eff) :
                                        o \in {q \in O : ToSet(p.ops[q].pre) \subseteq S}}
            IN IF more = S THEN S ELSE reach[more]
    IN reach[s]

\* Whether every operator can be used at some time.
AllReachable(p, s) ==
    \A o \in ToSet(p.ops) : ToSet(o.pre) \subseteq Reachable(p, s, DOMAIN p.ops)

SetCost(p, O) == FoldSet(LAMBDA o, c : c + p.ops[o].cost, 0, O)
RelaxedCost(p, s) ==
    Min({CostMax} \cup {SetCost(p, O) :
            O \in {Q \in SUBSET DOMAIN p.ops : p.goal \subseteq Reachable(p, s, Q)}})
=============================================================================
