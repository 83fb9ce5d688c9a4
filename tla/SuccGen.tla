-------------------------------- MODULE SuccGen --------------------------------
(***************************************************************************)
(* The successor generator (succ_gen.c): a decision tree that finds the     *)
(* operators that apply in a state.  A node has the operators that apply    *)
(* whenever it is reached, and unless it is a leaf a variable, a subtree    *)
(* for every value of it that some precondition has, and one for the        *)
(* operators that do not mention it.  Operators are known by their index in *)
(* a sequence of preconditions.                                             *)
(***************************************************************************)
EXTENDS Integers, Sequences, SequencesExt, TLC

Undefined == -1                                   \* PLAN_VAL_UNDEFINED
ValueIn(part, v) == IF v \in DOMAIN part THEN part[v] ELSE Undefined

\* Mutant: operators that say nothing about a variable count as equal to all.
LooselyBefore(pre, order, i, j) ==
    \E k \in DOMAIN order :
        /\ \A l \in 1 .. k - 1 : ValueIn(pre[i], order[l]) = ValueIn(pre[j], order[l])
        /\ order[k] \in DOMAIN pre[i] \cap DOMAIN pre[j]
        /\ pre[i][order[k]] < pre[j][order[k]]

\* opsSortCmp: by the first variable of the order that makes a difference,
\* unmentioned before any value, and else by the index.
Before(pre, order, i, j) ==
    LET differ == {k \in DOMAIN order : ValueIn(pre[i], order[k]) # ValueIn(pre[j], order[k])}
        first == order[CHOOSE k \in differ : \A l \in differ : k <= l]
    IN IF differ = {} THEN i < j ELSE ValueIn(pre[i], first) < ValueIn(pre[j], first)

\* The longest beginning of ops whose operators agree with the first on v.
Run(pre, ops, v) ==
    LET others == {i \in DOMAIN ops : ValueIn(pre[ops[i]], v) # ValueIn(pre[ops[1]], v)}
    IN IF others = {} THEN Len(ops) ELSE (CHOOSE i \in others : \A j \in others : i <= j) - 1

Leaf(ops) == [leaf |-> TRUE, ops |-> ops]

\* treeNew and treeBuildVal; what comes later under the same value replaces
\* what was there.
RECURSIVE TreeNew(_, _, _), ValTrees(_, _, _)
TreeNew(pre, ops, order) ==
    IF ops = <<>> THEN Leaf(<<>>)
    ELSE LET asked == SelectInSeq(order, LAMBDA v : v \in DOMAIN pre[Last(ops)])
             v == order[asked]
             rest == SubSeq(order, asked + 1, Len(order))
             start == IF v \in DOMAIN pre[ops[1]] THEN 0 ELSE Run(pre, ops, v)
         IN IF asked = 0 THEN Leaf(ops)
            ELSE [leaf |-> FALSE, ops |-> <<>>, var |-> v,
                  def |-> TreeNew(pre, SubSeq(ops, 1, start), rest),
                  val |-> ValTrees(pre, SubSeq(ops, start + 1, Len(ops)), <<v>> \o rest)]
ValTrees(pre, ops, order) ==
    IF ops = <<>> THEN <<>>
    ELSE LET n == Run(pre, ops, order[1])
         IN ValTrees(pre, SubSeq(ops, n + 1, Len(ops)), order)
                @@ (ValueIn(pre[ops[1]], order[1]) :> TreeNew(pre, SubSeq(ops, 1, n), Tail(order)))

\* planSuccGenNew
Tree(pre, order) ==
    TreeNew(pre, SortSeq([i \in DOMAIN pre |-> i], LAMBDA i, j : Before(pre, order, i, j)), order)

\* treeFind
RECURSIVE Find(_, _)
Find(tree, state) ==
    IF tree.leaf THEN tree.ops
    ELSE LET val == state[tree.var]
         IN tree.ops \o (IF val \in DOMAIN tree.val THEN Find(tree.val[val], state) ELSE <<>>)
                \o Find(tree.def, state)
=============================================================================
