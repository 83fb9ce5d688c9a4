------------------------------ MODULE CausalGraph ------------------------------
(***************************************************************************)
(* The causal graph of a planning problem (causal_graph.c): which variables *)
(* matter for the goal, and the order in which the successor generator asks *)
(* for them.  An operator is a record [pre, eff, cond, ...] of functions    *)
(* from variables to values; cond is a sequence of records [pre, eff].      *)
(***************************************************************************)
EXTENDS Integers, Sequences, SequencesExt

Lesser(x, y) == IF x < y THEN x ELSE y

-----------------------------------------------------------------------------
(* The graph: the weight of x -> y counts the effects on y that depend on x *)

Count(test) == IF test THEN 1 ELSE 0
Sum(seq) == FoldLeft(LAMBDA n, m : n + m, 0, seq)

\* Mutant: what a conditional effect depends on is not looked at.
Unconditional(op, x, y) ==
    Count(x \in DOMAIN op.pre /\ y \in DOMAIN op.eff)
        + Sum([j \in DOMAIN op.cond |-> Count(x \in DOMAIN op.pre /\ y \in DOMAIN op.cond[j].eff)])
\* fillGraphs, of one operator.
Contribution(op, x, y) ==
    Count(x \in DOMAIN op.pre /\ y \in DOMAIN op.eff)
        + Sum([j \in DOMAIN op.cond |->
                 Count(x \in DOMAIN op.pre /\ y \in DOMAIN op.cond[j].eff)
                     + Count(x \in DOMAIN op.cond[j].pre /\ y \in DOMAIN op.cond[j].eff)])

\* graphAddConnection drops loops.
Weight(ops, x, y) ==
    IF x = y THEN 0 ELSE Sum([i \in DOMAIN ops |-> Contribution(ops[i], x, y)])
Successors(ops, x, vars) == {y \in vars : Weight(ops, x, y) > 0}
Predecessors(ops, y, vars) == {x \in vars : Weight(ops, x, y) > 0}

\* markImportantVars: what the goal says, and what it depends on.
ImportantVars(ops, goal, vars) ==
    LET marked[n \in 0 .. Cardinality(vars)] ==
            IF n = 0 THEN DOMAIN goal
            ELSE marked[n - 1] \cup UNION {Predecessors(ops, y, vars) : y \in marked[n - 1]}
    IN marked[Cardinality(vars)]

-----------------------------------------------------------------------------
(* Strongly connected components, with Tarjan's algorithm.  d.index and     *)
(* d.low are -1 for variables that were not visited.                        *)

Position(x, seq) == SelectInSeq(seq, LAMBDA y : y = x)

RECURSIVE StrongConnect(_, _, _)
StrongConnect(succ, d, v) ==
    LET opened == [d EXCEPT !.index[v] = d.next, !.low[v] = d.next, !.next = @ + 1,
                            !.stack = Append(@, v)]
        Explore(e, w) ==
            IF e.index[w] = -1
            THEN LET f == StrongConnect(succ, e, w)
                 IN [f EXCEPT !.low[v] = Lesser(@, f.low[w])]
            ELSE IF w \in ToSet(e.stack) THEN [e EXCEPT !.low[v] = Lesser(@, e.low[w])]
            ELSE e
        done == FoldLeft(Explore, opened, SetToSortSeq(succ[v], <))
        at == Position(v, done.stack)
    IN IF done.index[v] # done.low[v] THEN done
       ELSE [done EXCEPT !.comps = @ \cup {ToSet(SubSeq(done.stack, at, Len(done.stack)))},
                         !.stack = SubSeq(@, 1, at - 1)]

Components(succ) ==
    LET unvisited == [v \in DOMAIN succ |-> -1]
        start == [index |-> unvisited, low |-> unvisited, next |-> 0, stack |-> <<>>, comps |-> {}]
        Visit(d, v) == IF d.index[v] = -1 THEN StrongConnect(succ, d, v) ELSE d
    IN FoldLeft(Visit, start, SetToSortSeq(DOMAIN succ, <)).comps

-----------------------------------------------------------------------------
(* The order of the variables                                               *)

\* The edges between important variables of one component.
Within(ops, important) ==
    LET succ == [v \in important |-> Successors(ops, v, important)]
        comps == Components(succ)
    IN [v \in important |-> {w \in succ[v] : \E c \in comps : v \in c /\ w \in c}]

\* updateOrdering: a variable of least weight is taken out, and its weight is
\* subtracted from those of its successors that are still there.
Taken(s, within) ==
    LET v == CHOOSE x \in s.heap : \A y \in s.heap :
                 s.w[x] < s.w[y] \/ (s.w[x] = s.w[y] /\ x <= y)
    IN [heap |-> s.heap \ {v}, order |-> <<v>> \o s.order,
        w |-> [y \in DOMAIN s.w |-> IF y \in within[v] /\ y \in s.heap \ {v}
                                    THEN s.w[y] - s.w[v] ELSE s.w[y]]]

\* createOrdering: the last one taken comes first.
VarOrder(ops, goal, vars) ==
    LET important == ImportantVars(ops, goal, vars)
        within == Within(ops, important)
        incoming == [y \in important |->
            Sum([i \in 1 .. Cardinality(important) |->
                   LET x == SetToSortSeq(important, <)[i]
                   IN IF y \in within[x] THEN Weight(ops, x, y) ELSE 0])]
        after[n \in 0 .. Cardinality(important)] ==
            IF n = 0 THEN [heap |-> important, order |-> <<>>, w |-> incoming]
            ELSE Taken(after[n - 1], within)
    IN after[Cardinality(important)].order

=============================================================================
