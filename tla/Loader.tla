--------------------------------- MODULE Loader ---------------------------------
(***************************************************************************)
(* What becomes of a problem between the file and the search (problem.cc,   *)
(* op.c): variables that do not matter and duplicate operators are dropped, *)
(* and what is left is divided among the agents.  A problem is a record     *)
(* [ranges, init, goal, ops]: the number of values of every variable, a     *)
(* state, a partial state, and a sequence of operators as in CausalGraph    *)
(* with a cost and the agents that the name mentions.  A variable that is   *)
(* dropped leaves no gap in the code, but the others keep their order.      *)
(***************************************************************************)
EXTENDS CausalGraph, SuccGen, FiniteSetsExt, Functions

CONSTANTS Files,          \* records [problem, agents, useCG, prune, unit]
          IntBits         \* the width of an int

VARIABLES file, stage,
          glob,           \* the problem that was loaded, with its successor generator
          agents          \* its parts

loaderVars == <<file, stage, glob, agents>>

OnlyVars(part, vars) == Restrict(part, DOMAIN part \cap vars)
FactsOf(part) == {<<v, part[v]>> : v \in DOMAIN part}

-----------------------------------------------------------------------------
(* The problem as a whole *)

\* loadOp, of the operator and of its conditional effects.
OpOnly(op, vars) ==
    LET effects == [j \in DOMAIN op.cond |-> [pre |-> OnlyVars(op.cond[j].pre, vars),
                                              eff |-> OnlyVars(op.cond[j].eff, vars)]]
    IN [op EXCEPT !.pre = OnlyVars(@, vars), !.eff = OnlyVars(@, vars),
                  !.cond = SelectSeq(effects, LAMBDA c : c.eff # <<>>)]
HasEffect(op) == op.eff # <<>> \/ op.cond # <<>>

\* planOpCondEffSimplify: a conditional effect becomes part of the first one
\* with the same condition.
Simplified(op) ==
    LET Merge(done, c) ==
            LET at == SelectInSeq(done, LAMBDA d : d.pre = c.pre)
            IN IF at = 0 THEN Append(done, c)
               ELSE [done EXCEPT ![at].eff = c.eff @@ @]
    IN [op EXCEPT !.cond = FoldLeft(Merge, <<>>, op.cond)]

\* loadProtoProblem, with the variables that have a place in var_map.
LoadProto(p, vars) ==
    LET ops == SelectSeq([i \in DOMAIN p.ops |-> OpOnly(p.ops[i], vars)], HasEffect)
    IN [ranges |-> OnlyVars(p.ranges, vars), init |-> OnlyVars(p.init, vars),
        goal |-> OnlyVars(p.goal, vars), ops |-> [i \in DOMAIN ops |-> Simplified(ops[i])]]

\* pruneDuplicateOps: one operator of each kind stays, which one is up to qsort.
Duplicates(o, q) == o.pre = q.pre /\ o.eff = q.eff /\ o.cond = q.cond
Prunings(ops) ==
    {kept \in SUBSET DOMAIN ops :
        /\ \A i, j \in kept : Duplicates(ops[i], ops[j]) => i = j
        /\ \A i \in DOMAIN ops : \E j \in kept : Duplicates(ops[i], ops[j])}
Squashed(ops, kept) == [i \in 1 .. Cardinality(kept) |-> ops[SetToSortSeq(kept, <)[i]]]

Preconditions(ops) == [i \in DOMAIN ops |-> ops[i].pre]
UnitCost(ops) == [i \in DOMAIN ops |-> [ops[i] EXCEPT !.cost = 1]]

\* The order of the variables in a successor generator.
Order(p, all) == IF file.useCG THEN VarOrder(all.ops, all.goal, DOMAIN all.ranges)
                 ELSE SetToSortSeq(DOMAIN p.ranges, <)

\* planProblemFromProto, loadProblem
LoadProblem ==
    LET all == LoadProto(file.problem, DOMAIN file.problem.ranges)
        p == IF file.useCG
             THEN LoadProto(file.problem, ImportantVars(all.ops, all.goal, DOMAIN all.ranges))
             ELSE all
    IN /\ stage = "file"
       /\ \E kept \in IF file.prune THEN Prunings(p.ops) ELSE {DOMAIN p.ops} :
            LET ops == Squashed(p.ops, kept)
            IN glob' = [ranges |-> p.ranges, init |-> p.init, goal |-> p.goal,
                        ops |-> IF file.unit THEN UnitCost(ops) ELSE ops,
                        gen |-> Tree(Preconditions(ops), Order(p, all))]
       /\ stage' = "loaded"
       /\ UNCHANGED <<file, agents>>

-----------------------------------------------------------------------------
(* Its division among the agents, which are the numbers below file.agents   *)

Agents == 0 .. file.agents - 1

\* 1 << agent_id of an int, in 64 bits: shifts wrap around as the processor's
\* do, and the sign bit is extended.
OwnerBits(a) == IF a % IntBits = IntBits - 1 THEN IntBits - 1 .. 63 ELSE {a % IntBits}

\* setOpOwner: those that the name mentions, or all.
Owners(op) ==
    LET named == UNION {OwnerBits(a) : a \in op.names \cap Agents}
    IN IF named = {} THEN UNION {OwnerBits(a) : a \in Agents} ELSE named
IsOwner(op, a) == OwnerBits(a) \cap Owners(op) # {}

\* AgentVarVals: who uses a fact.  The goal is everybody's; conditional
\* effects are not looked at.
UsedBy(fact) ==
    {a \in Agents :
        \/ fact \in FactsOf(glob.goal)
        \/ \E i \in DOMAIN glob.ops : /\ a \in Owners(glob.ops[i])
                                      /\ fact \in FactsOf(glob.ops[i].pre) \cup FactsOf(glob.ops[i].eff)}
IsPublic(fact) == Cardinality(UsedBy(fact)) > 1
PrivateVals(a) ==
    {fact \in UNION {{v} \X (0 .. glob.ranges[v] - 1) : v \in DOMAIN glob.ranges} :
        UsedBy(fact) = {a}}

\* Mutant: only what the operator needs is looked at.
NeedsNothingPublic(op) == \A fact \in FactsOf(op.pre) : ~ IsPublic(fact)
\* setOpPrivate
IsPrivate(op) == \A fact \in FactsOf(op.eff) \cup FactsOf(op.pre) : ~ IsPublic(fact)

\* Mutant: the preconditions are kept.
EffectsOnly(op, a) ==
    LET Seen(part) == Restrict(part, {v \in DOMAIN part : IsPublic(<<v, part[v]>>)})
    IN [op EXCEPT !.eff = Seen(op.eff)]
\* projectOp: without the facts that are private to others.
Projected(op, a) ==
    LET Seen(part) == Restrict(part, {v \in DOMAIN part : LET fact == <<v, part[v]>>
                                                          IN IsPublic(fact) \/ a \in UsedBy(fact)})
    IN [op EXCEPT !.pre = Seen(op.pre), !.eff = Seen(op.eff)]
ProjectedOps(a) ==
    SelectSeq([i \in DOMAIN glob.ops |-> Projected(glob.ops[i], a)],
              LAMBDA op : op.pre # <<>> \/ op.eff # <<>>)
\* planOpSetFirstOwner, unless the agent is an owner itself.
FirstOwner(op, a) == IF IsOwner(op, a) THEN a ELSE Min(Owners(op))

\* createOps
OwnOps(a) == SelectSeq(glob.ops, LAMBDA op : IsOwner(op, a))

\* loadAgents
LoadAgents ==
    /\ stage = "loaded"
    /\ agents' = [a \in Agents |->
         [ops |-> [i \in DOMAIN OwnOps(a) |-> [op |-> OwnOps(a)[i], private |-> IsPrivate(OwnOps(a)[i])]],
          proj |-> [i \in DOMAIN ProjectedOps(a) |->
                      [op |-> ProjectedOps(a)[i], owner |-> FirstOwner(ProjectedOps(a)[i], a)]],
          private |-> PrivateVals(a),
          gen |-> Tree(Preconditions(OwnOps(a)), SetToSortSeq(DOMAIN glob.ranges, <))]]
    /\ stage' = "divided"
    /\ UNCHANGED <<file, glob>>

LoaderInit == file \in Files /\ stage = "file" /\ glob = <<>> /\ agents = <<>>
LoaderNext == LoadProblem \/ LoadAgents
LoaderSpec == LoaderInit /\ [][LoaderNext]_loaderVars

-----------------------------------------------------------------------------
(* What a problem means *)

StatesOf(p) == {s \in [DOMAIN p.ranges -> 0 .. Max(Range(p.ranges))] :
                    \A v \in DOMAIN s : s[v] < p.ranges[v]}
Holds(part, s) == \A v \in DOMAIN part : s[v] = part[v]
Result(op, s) == FoldLeft(LAMBDA t, c : IF Holds(c.pre, s) THEN c.eff @@ t ELSE t,
                          op.eff @@ s, op.cond)

\* The cheapest way to every state that can be reached.
Costs(p, ops) ==
    LET Relax(d) ==
            LET ways == {<<Result(ops[i], s), d[s] + ops[i].cost>> :
                            <<s, i>> \in {x \in (DOMAIN d) \X (DOMAIN ops) : Holds(ops[x[2]].pre, x[1])}}
            IN [t \in DOMAIN d \cup {w[1] : w \in ways} |->
                  Min({w[2] : w \in {x \in ways : x[1] = t}} \cup (IF t \in DOMAIN d THEN {d[t]} ELSE {}))]
        RECURSIVE Fix(_)
        Fix(d) == LET e == Relax(d) IN IF e = d THEN d ELSE Fix(e)
    IN Fix(p.init :> 0)
Unsolvable == 1000
Cheapest(p, ops) ==
    LET costs == Costs(p, ops)
    IN Min({costs[s] : s \in {t \in DOMAIN costs : Holds(p.goal, t)}} \cup {Unsolvable})

NoConditions(op) == op.cond = <<>>
KnowsWhatItChanges(op) == DOMAIN op.eff \subseteq DOMAIN op.pre

-----------------------------------------------------------------------------
(* Properties *)

\* pruneUnimportantVars, pruneDuplicateOps: the problem that is loaded has a
\* plan if and only if the one in the file has, and a cheapest plan of the
\* same cost unless duplicates have different ones.
PruningKeepsPlans ==
    stage = "loaded" =>
        LET ops == file.problem.ops
            before == Cheapest(file.problem, IF file.unit THEN UnitCost(ops) ELSE ops)
            after == Cheapest(glob, glob.ops)
        IN /\ before = Unsolvable <=> after = Unsolvable
           /\ before <= after
           /\ (\A i, j \in DOMAIN ops : ops[i].cost = ops[j].cost) => before = after

\* planSuccGenFind: in whatever order the variables are asked for, every
\* operator that applies is found, once, and no other.
Finds(gen, ops) ==
    \A s \in StatesOf(glob) :
        LET found == Find(gen, s)
        IN /\ IsInjective(found)
           /\ ToSet(found) = {i \in DOMAIN ops : Holds(ops[i].pre, s)}
GeneratorFindsApplicable ==
    /\ stage = "loaded" => Finds(glob.gen, glob.ops)
    /\ stage = "divided" => \A a \in Agents : Finds(agents[a].gen, OwnOps(a))

\* setOpPrivate: a private operator is no concern of the other agents, who are
\* not told of the states it makes: their operators can as well come first.
\* Of operators that know the values they replace.
PrivateOpsCommute ==
    stage = "divided" =>
        \A a, b \in Agents : a # b =>
            \A own \in Range(agents[a].ops), other \in Range(agents[b].ops) :
                LET p == own.op
                    q == other.op
                    second == {s \in StatesOf(glob) : Holds(p.pre, s) /\ Holds(q.pre, Result(p, s))}
                IN own.private /\ (\A o \in {p, q} : NoConditions(o) /\ KnowsWhatItChanges(o))
                   => \A s \in second :
                        /\ Holds(q.pre, s) /\ Holds(p.pre, Result(q, s))
                        /\ Result(p, Result(q, s)) = Result(q, Result(p, s))

\* createProjectedOps: the part of the problem that an agent may see is no
\* harder than the problem, or its estimates would be too high.
ProjectionIsOptimistic ==
    stage = "divided" /\ (\A i \in DOMAIN glob.ops : NoConditions(glob.ops[i])) =>
        \A a \in Agents :
            LET proj == agents[a].proj
            IN Cheapest(glob, [i \in DOMAIN proj |-> proj[i].op]) <= Cheapest(glob, glob.ops)
=============================================================================
