----------------------------- MODULE MCMAHeurMax -----------------------------
(***************************************************************************)
(* Problems of three agents for the distributed h^max heuristic.           *)
(***************************************************************************)
EXTENDS MAHeurMax

Op(pre, eff, cost, owner) == [pre |-> pre, eff |-> eff, cost |-> cost, owner |-> owner]
Task(size, goal, ops) == [size |-> size, goal |-> goal, states |-> {{0}}, ops |-> ops]

\* A way from fact 0 to fact Len(w), step i made by agent w[i] at cost c[i].  A
\* fact between two steps of one agent is private to it.
Way(w, c) == [i \in DOMAIN w |-> Op(<<i - 1>>, <<i>>, c[i], w[i])]

\* A way of four steps in which all agents take part, and a short cut: values
\* have to go to and fro between the agents.
Chain(w) == Task(5, {4}, Append(Way(w, <<1, 2, 2, 1>>), Op(<<0, 2>>, <<4>>, 4, w[1])))
Chains == {Chain(w) : w \in {v \in [1 .. 4 -> Agent] : v[1] = 0 /\ ToSet(v) = Agent}}

\* The two steps of agent b make the two steps of agent c more expensive, so c
\* has to be asked again if it was asked before b.
Relay(b, c) == Task(6, {5}, Way(<<0, b, b, c, c>>, <<1, 1, 2, 1, 1>>))

\* The first operator is agent 0's, and it becomes more expensive for agent 2
\* after agent 0 was asked.
FirstForeign == Task(7, {3}, <<Op(<<1>>, <<2>>, 1, 0), Op(<<4>>, <<1>>, 1, 1),
                               Op(<<0>>, <<4>>, 2, 1), Op(<<2>>, <<3>>, 1, 0),
                               Op(<<3>>, <<5>>, 1, 2)>>)

\* Agent 1 lacks its private fact 2, without which the goal is out of reach.
DeadEnd == Task(5, {3}, <<Op(<<1>>, <<3>>, 1, 0), Op(<<0, 2>>, <<1>>, 2, 1),
                          Op(<<3>>, <<4>>, 1, 2)>>)

\* Facts 1 and 2 reach each other at no cost; fact 1 costs more than agent 0
\* sees.
FreeCycle == Task(6, {3}, <<Op(<<1>>, <<2>>, 0, 0), Op(<<2>>, <<1>>, 0, 0),
                            Op(<<0>>, <<4>>, 3, 1), Op(<<4>>, <<1>>, 1, 1),
                            Op(<<2>>, <<3>>, 1, 2)>>)

AllProblems == Chains \cup {Relay(1, 2), Relay(2, 1), FirstForeign, DeadEnd, FreeCycle}
ForeignOnly == {FirstForeign}
=============================================================================
