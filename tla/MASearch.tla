------------------------------ MODULE MASearch ------------------------------
(***************************************************************************)
(* Distributed A* with verification of solutions (src/ma_search.c,          *)
(* src/search_astar.c): every agent searches with its own operators, sends  *)
(* the public states it expands to all others, and when it reaches a goal   *)
(* asks by a distributed snapshot whether anybody could still do better.    *)
(* A solution everybody acknowledges is traced back through the agents      *)
(* whose operators produced it.                                             *)
(*                                                                         *)
(* A planning problem is a set of abstract states with operators between    *)
(* them; the agents' projections of a state, packing and registering of     *)
(* states are abstracted to its identity.  Blocking on an empty open list,  *)
(* the verification of a dead end and the termination protocol are in       *)
(* MADeadEnd and MATerminate; here an agent whose open list is empty waits  *)
(* for messages, and one that begins the termination stops.                 *)
(***************************************************************************)
EXTENDS Channels, SequencesExt

CONSTANTS Problems,   \* the planning problems to solve, with the options to use
          MaxCost     \* PLAN_COST_MAX, above every cost that occurs

NoState == "none"
NoAgent == N

Obj == INSTANCE SnapshotObject

VARIABLES problem,  \* the planning problem, fixed
          node,     \* node[a][s]: a's search node of s
          list,     \* list[a]: a's open list in insertion order
          doing,    \* doing[a]: the successors a's step has still to generate
          goal, goalCost,  \* ma->goal, ma->goal_cost
          objs,     \* objs[a]: a's verifications, a function from tokens
          count,    \* verifications a started
          chan,
          answer    \* cost of the plan a completed, or how it failed to

vars == <<problem, node, list, doing, goal, goalCost, objs, count, chan, answer>>

\* A problem has states, an initial state init, goals, and ops, a sequence of
\* operators [from, to, cost, owner, priv]; priv: its effects are visible to
\* its owner only.  applicable[a][s] are a's operators that apply in s, in the
\* order in which they are tried; heur[a][s] is the estimate of agent a for s.
\* The options: params->verify_solution, and whether heuristic values are
\* computed by all agents.  maxVerify bounds the verifications of each agent.
Verify == problem.verify
MAHeur == problem.maHeur
MaxVerify == problem.maxVerify
States == problem.states
Heur(a, s) == problem.heur[a][s]
OpsOf(a, s) == problem.applicable[a][s]

\* Costs and estimates are not negative.
ASSUME CostAssumption == MaxCost \in Nat

ASSUME ProblemAssumption ==
    \A p \in Problems :
        /\ IsFiniteSet(p.states) /\ NoState \notin p.states
        /\ p.init \in p.states /\ p.goals \subseteq p.states
        /\ p.heur \in [Agent -> [p.states -> Nat]]
        /\ \A a \in Agent : \A s \in p.states :
              p.applicable[a][s] \in Seq([from : {s}, to : p.states, cost : Nat,
                                          owner : {a}, priv : BOOLEAN])

NoOp == [from |-> NoState, to |-> NoState, cost |-> 0, owner |-> NoAgent,
         priv |-> TRUE]

-----------------------------------------------------------------------------
(* The open list (list_tiebreaking.c with keys f and h): the least key, and *)
(* the first inserted of those                                              *)

Entry(s, g, h) == [f |-> g + h, h |-> h, s |-> s]
Before(d, e) == d.f < e.f \/ (d.f = e.f /\ d.h < e.h)

TopIndex(l) == CHOOSE i \in DOMAIN l :
    /\ \A j \in DOMAIN l : ~Before(l[j], l[i])
    /\ \A j \in 1 .. i - 1 : Before(l[i], l[j])

\* planSearchAStarTopNodeCost
TopCost(l) == IF l = <<>> THEN MaxCost
              ELSE LET e == l[TopIndex(l)] IN e.f - e.h

Lesser(x, y) == IF x < y THEN x ELSE y
Larger(x, y) == IF x > y THEN x ELSE y

-----------------------------------------------------------------------------
(* Search nodes *)

\* planStateSpaceNodeInit; pub is the agent a public state came from
\* (pub_state_data_t).
NewNode == [st |-> "NEW", op |-> NoOp, cost |-> -1, heur |-> -1, pub |-> NoAgent]

\* Mutant: the node is not opened.
NotOpened(n) == n

\* planStateSpaceOpen or -Reopen, whichever applies.
Opened(n) == [n EXCEPT !.st = "OPEN"]

\* Mutant: swapped comparison.
Worsens(n, g) == n.st = "NEW" \/ n.cost < g

\* Mutant: a way of the same cost replaces the one that is known.
NotWorse(n, g) == n.st = "NEW" \/ n.cost >= g

Improves(n, g) == n.st = "NEW" \/ n.cost > g

\* Mutant: a node that is in the list already is not put there again.
InsertClosedNode(a, nd, l, n, s) ==
    [node |-> [nd EXCEPT ![s] = Opened(n)],
     list |-> IF n.st = "OPEN" THEN l ELSE Append(l, Entry(s, n.cost, Larger(n.heur, 0)))]

\* planSearchInsertNode: open the node and put it into the list.
InsertNode(a, nd, l, n, s) ==
    [node |-> [nd EXCEPT ![s] = Opened(n)],
     list |-> Append(l, Entry(s, n.cost, Larger(n.heur, 0)))]

\* Mutant: only the last operator.
LastOperator(nd, s) ==
    IF nd[s].op = NoOp THEN [s |-> s, cost |-> 0]
    ELSE [s |-> nd[s].op.from, cost |-> nd[s].op.cost]

\* Mutant: the cost of the whole path to s, not of the operators passed.
AncestorAtNodeCost(nd, s) ==
    LET anc[k \in 0 .. Cardinality(States)] ==
          IF k = 0 THEN [s |-> s, cost |-> 0]
          ELSE LET b == anc[k - 1]
               IN IF nd[b.s].op = NoOp THEN b
                  ELSE [s |-> nd[b.s].op.from, cost |-> nd[s].cost]
    IN anc[Cardinality(States)]

\* Where the operators that lead to s inside one agent's space start, and
\* what they cost (extractPath).
Ancestor(nd, s) ==
    LET anc[k \in 0 .. Cardinality(States)] ==
          IF k = 0 THEN [s |-> s, cost |-> 0]
          ELSE LET b == anc[k - 1]
               IN IF nd[b.s].op = NoOp THEN b
                  ELSE [s |-> nd[b.s].op.from, cost |-> b.cost + nd[b.s].op.cost]
    IN anc[Cardinality(States)]

-----------------------------------------------------------------------------
(* Messages *)

PublicState(s, n, a) == [kind |-> "PUBLIC_STATE", s |-> s, cost |-> n.cost,
                         heur |-> n.heur, from |-> a]
SnapInit(t, s, n, a) == [kind |-> "INIT", token |-> t, s |-> s,
                         cost |-> n.cost, heur |-> n.heur, from |-> a]
SnapMark(t, a)       == [kind |-> "MARK", token |-> t, from |-> a]
SnapResponse(t, a, ack) == [kind |-> "RESPONSE", token |-> t, from |-> a, ack |-> ack]
\* s = NoState: the path is complete and goes to the agent that asked for it.
TracePath(s, c, a)   == [kind |-> "TRACE_PATH", s |-> s, cost |-> c, init |-> a]

\* No plan yet; a plan was completed; tracing failed (PLAN_SEARCH_ABORT).
Searching == [st |-> "searching"]
Found(c)  == [st |-> "found", cost |-> c]
Aborted   == [st |-> "abort"]

Init == /\ problem \in Problems
        /\ node = [a \in Agent |-> [s \in States |->
                     IF s = problem.init
                     THEN [NewNode EXCEPT !.st = "OPEN", !.cost = 0,
                                          !.heur = Heur(a, s)]
                     ELSE NewNode]]
        /\ list = [a \in Agent |-> <<Entry(problem.init, 0, Heur(a, problem.init))>>]
        /\ doing = [a \in Agent |-> <<>>]
        /\ goal = [a \in Agent |-> NoState]
        /\ goalCost = [a \in Agent |-> MaxCost]
        /\ objs = [a \in Agent |-> <<>>]
        /\ count = [a \in Agent |-> 0]
        /\ chan = NoMsgs
        /\ answer = [a \in Agent |-> Searching]

-----------------------------------------------------------------------------
(* Tracing a path: the agent follows its own operators, then either the     *)
(* initial state is reached or the agent the state came from goes on        *)

\* tracePath and tracePathProcessMsg: the path that ends in s, already worth
\* c, is wanted by agent w.
Trace(a, s, c, w, ch) ==
    LET root == Ancestor(node'[a], s)
        cost == c + root.cost
        from == node'[a][root.s].pub
    IN IF root.s = problem.init
       THEN IF w = a THEN /\ answer' = [answer EXCEPT ![a] = Found(cost)]
                          /\ chan' = ch
            ELSE /\ chan' = Send(ch, a, {w}, TracePath(NoState, cost, w))
                 /\ UNCHANGED answer
       ELSE IF from = NoAgent THEN /\ answer' = [answer EXCEPT ![a] = Aborted]
                                   /\ chan' = ch
       ELSE /\ chan' = Send(ch, a, {from}, TracePath(root.s, cost, w))
            /\ UNCHANGED answer

-----------------------------------------------------------------------------
(* A step of A* *)

\* Mutant: the open list is not looked at.
GoalCostOnly(a, l, gc) == gc

\* lowest_cost of a new verification object: the cost of the state the agent
\* would expand next, and of the best goal it has reached.
LowestCost(a, l, gc) == Lesser(TopCost(l), gc)

\* solutionVerifyNew; init is the INIT message once it is known.
Verification(isInitiator, lowest, init) ==
    [count |-> Obj!NewObject(isInitiator), lowest |-> lowest, init |-> init,
     ack |-> TRUE]

\* solutionVerify
StartVerification(a, s, l) ==
    LET t == <<a, count[a] + 1>>
        m == SnapInit(t, s, node'[a][s], a)
    IN /\ count[a] < MaxVerify
       /\ count' = [count EXCEPT ![a] = @ + 1]
       /\ objs' = [objs EXCEPT ![a] =
                     [u \in DOMAIN @ \cup {t} |-> IF u = t
                      THEN Verification(TRUE, LowestCost(a, l, goalCost'[a]), m)
                      ELSE @[u]]]
       /\ chan' = Send(chan, a, Others(a), m)
       /\ UNCHANGED answer

\* searchReachedGoal takes a goal that is better than the best so far, or
\* that is the best so far.
TakesGoal(a, s, n) == n.cost < goalCost[a] \/ s = goal[a]

ReachGoal(a, s, n, l) ==
    /\ node' = [node EXCEPT ![a][s] = n]
    /\ list' = [list EXCEPT ![a] = l]
    /\ UNCHANGED doing
    /\ IF TakesGoal(a, s, n)
       THEN /\ goal' = [goal EXCEPT ![a] = s]
            /\ goalCost' = [goalCost EXCEPT ![a] = n.cost]
            /\ IF Verify THEN StartVerification(a, s, l)
               ELSE Trace(a, s, 0, a, chan) /\ UNCHANGED <<objs, count>>
       ELSE UNCHANGED <<goal, goalCost, objs, count, chan, answer>>

\* publicStateSend: states reached by a public operator, unless they cannot
\* lead to anything better than the best goal so far.
Publishes(a, n) == n.op # NoOp /\ ~n.op.priv /\ n.cost < goalCost[a]

\* astarInsertState: the successor of s by operator o.
Generate(acc, o, a, g) ==
    LET n == acc.node[o.to]
        h == IF n.st = "NEW" THEN Heur(a, o.to) ELSE n.heur
        m == [n EXCEPT !.op = o, !.cost = g + o.cost, !.heur = h]
    IN IF Improves(n, g + o.cost)
       THEN InsertNode(a, acc.node, acc.list, m, o.to) ELSE acc

\* All successors at once: nothing can come between them when the heuristic
\* is the agent's own.
GenerateAll(a, s, nd, l) ==
    LET ops == OpsOf(a, s)
        gen[i \in 0 .. Len(ops)] ==
          IF i = 0 THEN [node |-> nd, list |-> l]
          ELSE Generate(gen[i - 1], ops[i], a, nd[s].cost)
    IN gen[Len(ops)]

\* A successor still to be generated; g: its cost, once its value is asked for.
NotAsked == -1
Pending(ops) == [i \in DOMAIN ops |-> [op |-> ops[i], g |-> NotAsked]]
Waits(a) == doing[a] # <<>> /\ Head(doing[a]).g # NotAsked

ExpandNode(a, s, n, l) ==
    /\ chan' = IF Publishes(a, n)
               THEN Send(chan, a, Others(a), PublicState(s, n, a)) ELSE chan
    /\ IF MAHeur
       THEN /\ node' = [node EXCEPT ![a][s] = n]
            /\ list' = [list EXCEPT ![a] = l]
            /\ doing' = [doing EXCEPT ![a] = Pending(OpsOf(a, s))]
       ELSE LET gen == GenerateAll(a, s, [node[a] EXCEPT ![s] = n], l)
            IN /\ node' = [node EXCEPT ![a] = gen.node]
               /\ list' = [list EXCEPT ![a] = gen.list]
               /\ UNCHANGED doing
    /\ UNCHANGED <<goal, goalCost, objs, count, answer>>

\* planSearchAStarStep
Step(a) ==
    /\ answer[a] = Searching
    /\ doing[a] = <<>>
    /\ list[a] # <<>>
    /\ LET i == TopIndex(list[a])
           s == list[a][i].s
           l == RemoveAt(list[a], i)
           n == [node[a][s] EXCEPT !.st = "CLOSED"]
       IN \/ /\ node[a][s].st # "OPEN"
             /\ list' = [list EXCEPT ![a] = l]
             /\ UNCHANGED <<node, doing, goal, goalCost, objs, count, chan, answer>>
          \/ /\ node[a][s].st = "OPEN" /\ s \in problem.goals
             /\ ReachGoal(a, s, n, l)
          \/ /\ node[a][s].st = "OPEN" /\ s \notin problem.goals
             /\ ExpandNode(a, s, n, l)
    /\ UNCHANGED problem

\* The next successor of a step whose heuristic values come from all agents.
\* A new node is opened before its value is asked for, and enters the list
\* only when the value is there; meanwhile the agent processes messages.
StepGoesOn(a) ==
    /\ answer[a] = Searching
    /\ doing[a] # <<>>
    /\ ~Waits(a)
    /\ LET o == Head(doing[a]).op
           g == node[a][o.from].cost + o.cost
           gen == Generate([node |-> node[a], list |-> list[a]], o, a, g - o.cost)
       IN \/ /\ node[a][o.to].st = "NEW"
             /\ node' = [node EXCEPT ![a][o.to] =
                            Opened([@ EXCEPT !.op = o, !.cost = g])]
             /\ doing' = [doing EXCEPT ![a][1].g = g]
             /\ UNCHANGED list
          \/ /\ node[a][o.to].st # "NEW"
             /\ node' = [node EXCEPT ![a] = gen.node]
             /\ list' = [list EXCEPT ![a] = gen.list]
             /\ doing' = [doing EXCEPT ![a] = Tail(@)]
    /\ UNCHANGED <<problem, goal, goalCost, objs, count, chan, answer>>

\* searchMAHeur returns the value.
HeurKnown(a) ==
    /\ answer[a] = Searching
    /\ Waits(a)
    /\ LET d == Head(doing[a])
           s == d.op.to
       IN /\ node' = [node EXCEPT ![a][s].heur = Heur(a, s)]
          /\ list' = [list EXCEPT ![a] = Append(@, Entry(s, d.g, Heur(a, s)))]
    /\ doing' = [doing EXCEPT ![a] = Tail(@)]
    /\ UNCHANGED <<problem, goal, goalCost, objs, count, chan, answer>>

-----------------------------------------------------------------------------
(* Messages that carry states *)

\* Mutant: states in transit are not noticed.
NotUpdated(o, b, c) == o

\* solutionVerifyUpdate, for every verification that has not seen b's mark.
Updated(o, b, c) == IF Obj!Updates(o.count, b)
                    THEN [o EXCEPT !.lowest = Lesser(@, c)] ELSE o

\* publicStateRecv
RecvPublicState(a, m, ch) ==
    LET n == node[a][m.s]
        better == [n EXCEPT !.op = NoOp, !.cost = m.cost,
                            !.heur = IF @ = -1 THEN m.heur ELSE Larger(m.heur, @),
                            !.pub = m.from]
        ins == InsertNode(a, node[a], list[a], better, m.s)
    IN /\ m.kind = "PUBLIC_STATE"
       /\ objs' = [objs EXCEPT ![a] =
                     [t \in DOMAIN @ |-> Updated(@[t], m.from, m.cost)]]
       /\ IF m.cost < goalCost[a] /\ Improves(n, m.cost)
          THEN /\ node' = [node EXCEPT ![a] = ins.node]
               /\ list' = [list EXCEPT ![a] = ins.list]
          ELSE UNCHANGED <<node, list>>
       /\ chan' = ch
       /\ UNCHANGED <<goal, goalCost, count, answer>>

\* Mutant: a solution that is not acknowledged is dropped.
NotReinserted(a, m) == [node |-> node[a], list |-> list[a]]

\* reinsertNAckedSolution: the agent that does not acknowledge a solution
\* keeps it, unless it knows a better one.
Reinserted(a, m) ==
    LET n == node[a][m.s]
        better == [n EXCEPT !.op = NoOp, !.cost = m.cost, !.heur = m.heur,
                            !.pub = m.from]
    IN IF m.cost > goalCost[a] THEN [node |-> node[a], list |-> list[a]]
       ELSE InsertNode(a, node[a], list[a],
                       IF Improves(n, m.cost) THEN better ELSE n, m.s)

\* tracePathProcessMsg
RecvTracePath(a, m, ch) ==
    /\ m.kind = "TRACE_PATH"
    /\ UNCHANGED <<node, list, goal, goalCost, objs, count>>
    /\ IF m.s = NoState
       THEN chan' = ch /\ answer' = [answer EXCEPT ![a] = Found(m.cost)]
       ELSE Trace(a, m.s, m.cost, m.init, ch)

-----------------------------------------------------------------------------
(* Verification messages *)

\* The object the message belongs to; an agent that hears of a verification
\* for the first time joins it.
Joined(a, t) == IF t \in DOMAIN objs[a] THEN objs[a][t]
                ELSE Verification(FALSE, LowestCost(a, list[a], goalCost[a]), <<>>)

JoinMarks(a, t, ch) == IF t \in DOMAIN objs[a] THEN ch
                       ELSE Send(ch, a, Others(a), SnapMark(t, a))

Counted(o, m) ==
    [o EXCEPT !.count = Obj!Count(o.count, m.kind, m.from),
              !.init = IF m.kind = "INIT" THEN m ELSE @,
              !.ack = @ /\ (m.kind = "RESPONSE" => m.ack)]

Acks(o) == o.lowest >= o.init.cost

Without(f, t) == [u \in DOMAIN f \ {t} |-> f[u]]
With(f, t, o) == [u \in DOMAIN f \cup {t} |-> IF u = t THEN o ELSE f[u]]

\* Not the last message the object waits for.
VerificationGoesOn(a, m, new, ch) ==
    /\ ~Obj!Finished(new.count, m.kind)
    /\ objs' = [objs EXCEPT ![a] = With(@, m.token, new)]
    /\ chan' = ch
    /\ UNCHANGED <<node, list, goal, goalCost, answer>>

\* solutionVerifyMarkFinalize: answer, and keep a solution that is nacked.
VerificationAnswered(a, m, new, ch) ==
    /\ Obj!Finished(new.count, m.kind)
    /\ ~new.count.initiator
    /\ objs' = [objs EXCEPT ![a] = Without(@, m.token)]
    /\ chan' = Send(ch, a, {new.init.from}, SnapResponse(m.token, a, Acks(new)))
    /\ LET ins == IF Acks(new) THEN [node |-> node[a], list |-> list[a]]
                  ELSE Reinserted(a, new.init)
       IN /\ node' = [node EXCEPT ![a] = ins.node]
          /\ list' = [list EXCEPT ![a] = ins.list]
    /\ UNCHANGED <<goal, goalCost, answer>>

\* solutionVerifyResponseFinalize: trace the path of an acknowledged
\* solution; put it back into the open list if this agent itself still has
\* something cheaper.
VerificationDone(a, m, new, ch) ==
    LET s == new.init.s
        c == new.init.cost
        ins == InsertNode(a, node[a], list[a], node[a][s], s)
    IN /\ Obj!Finished(new.count, m.kind)
       /\ new.count.initiator
       /\ objs' = [objs EXCEPT ![a] = Without(@, m.token)]
       /\ \/ /\ goalCost[a] < c \/ (~new.ack /\ Acks(new))
             /\ chan' = ch
             /\ UNCHANGED <<node, list, goal, goalCost, answer>>
          \/ /\ goalCost[a] >= c /\ new.ack /\ Acks(new)
             /\ goalCost' = [goalCost EXCEPT ![a] = c]
             /\ goal' = [goal EXCEPT ![a] = s]
             /\ UNCHANGED <<node, list>>
             /\ Trace(a, s, 0, a, ch)
          \/ /\ goalCost[a] >= c /\ ~Acks(new)
             /\ node' = [node EXCEPT ![a] = ins.node]
             /\ list' = [list EXCEPT ![a] = ins.list]
             /\ chan' = ch
             /\ UNCHANGED <<goal, goalCost, answer>>

RecvSnapshot(a, m, ch) ==
    /\ m.kind \in Obj!SnapKinds
    /\ LET joined == Joined(a, m.token)
           new == Counted(joined, m)
           marked == JoinMarks(a, m.token, ch)
       IN /\ ~Obj!Repeated(joined.count, m.kind, m.from)
          /\ \/ VerificationGoesOn(a, m, new, marked)
             \/ VerificationAnswered(a, m, new, marked)
             \/ VerificationDone(a, m, new, marked)
    /\ UNCHANGED count

\* processMsg, between two steps or while a heuristic value is awaited.
Receive(a, b) ==
    /\ answer[a] = Searching
    /\ doing[a] = <<>> \/ Waits(a)
    /\ chan[b][a] # <<>>
    /\ LET m == Head(chan[b][a])
           ch == Consume(chan, b, a)
       IN \/ RecvPublicState(a, m, ch)
          \/ RecvTracePath(a, m, ch)
          \/ RecvSnapshot(a, m, ch)
    /\ UNCHANGED <<problem, doing>>

\* Nothing is left to expand or to read, or somebody begins the termination
\* (the rest is MATerminate).
Quiet == /\ \A a \in Agent : list[a] = <<>> /\ doing[a] = <<>>
         /\ chan = NoMsgs
Stopped == \E a \in Agent : answer[a] # Searching
Bounded == \E a \in Agent : count[a] = MaxVerify
Finish == (Quiet \/ Stopped \/ Bounded) /\ UNCHANGED vars

Next == \/ \E a \in Agent : \/ Step(a) \/ StepGoesOn(a) \/ HeurKnown(a)
                            \/ \E b \in Others(a) : Receive(a, b)
        \/ Finish

Spec == Init /\ [][Next]_vars

-----------------------------------------------------------------------------
(* Reference: the cost of the cheapest sequence of operators from the       *)
(* initial state to s, MaxCost if there is none                             *)

CheapestTo ==
    LET best[k \in 0 .. Cardinality(States)] ==
          IF k = 0 THEN [s \in States |-> IF s = problem.init THEN 0 ELSE MaxCost]
          ELSE LET b == best[k - 1]
                   ways(s) == {b[o.from] + o.cost :
                                 o \in {q \in ToSet(problem.ops) : q.to = s}}
               IN [s \in States |-> Min(ways(s) \cup {b[s], MaxCost})]
    IN best[Cardinality(States)]

Optimum == Min({CheapestTo[s] : s \in problem.goals})

\* Tracing follows references between nodes of one agent and of two: a node
\* reached by an operator is not cheaper than its parent and the operator
\* together, and a node that came from another agent is not cheaper than
\* that agent's node, which exists.  Otherwise a traced plan could cost more
\* than the solution that was verified, or tracing would end nowhere
\* (tracePathInit, tracePathProcessMsg: agent_id = -1 is a failure).
ParentsKnown ==
    \A a \in Agent : \A s \in States \ {problem.init} :
        LET n == node[a][s]
        IN n.st # "NEW" =>
             IF n.op # NoOp
             THEN node[a][n.op.from].st # "NEW"
                  /\ node[a][n.op.from].cost + n.op.cost <= n.cost
             ELSE n.pub \in Others(a) /\ node[n.pub][s].st # "NEW"
                  /\ node[n.pub][s].cost <= n.cost

\* An open state is in the open list with its present cost, or its value is
\* being waited for; otherwise it would never be expanded at that cost, nor
\* be seen by a snapshot (planSearchAStarInsertNode, astarInsertState, and
\* publicStateRecv called from searchMAHeur in between).
OpenIsListed ==
    \A a \in Agent : \A s \in States :
        node[a][s].st = "OPEN" =>
            \/ \E i \in DOMAIN list[a] :
                   list[a][i].s = s /\ list[a][i].f - list[a][i].h = node[a][s].cost
            \/ Waits(a) /\ Head(doing[a]).op.to = s

\* What tracing follows from agent b[1]'s node of state b[2]: its operator,
\* else the agent it came from.
Refers(n) == n.op # NoOp \/ n.pub # NoAgent
Reference(nd, b) == LET n == nd[b[1]][b[2]]
                    IN IF n.op # NoOp THEN <<b[1], n.op.from>>
                       ELSE IF n.pub # NoAgent THEN <<n.pub, b[2]>> ELSE b

\* Where following all of them ends.
Origin(nd, b) ==
    LET ref[k \in 0 .. N * Cardinality(States)] ==
          IF k = 0 THEN b
          ELSE LET c == ref[k - 1]
               IN IF c[2] = problem.init THEN c ELSE Reference(nd, c)
    IN ref[N * Cardinality(States)]

\* The references lead from every node to the initial state, and never in a
\* circle, neither inside an agent nor through several (operators may cost
\* nothing, and agents that reach a state at the same cost tell each other):
\* otherwise extractPath or the hand-over from agent to agent would not end.
ReferencesEnd ==
    \A a \in Agent : \A s \in States :
        node[a][s].st # "NEW" => Origin(node, <<a, s>>)[2] = problem.init

\* Tracing never fails (PLAN_SEARCH_ABORT of tracePath): wherever the part of
\* a path inside an agent begins, that is the initial state or came from
\* another agent, however often the nodes change while messages are under way.
TraceNeverFails == \A a \in Agent : answer[a] # Aborted

\* Every plan can be traced to its beginning.
TraceComplete == ReferencesEnd /\ TraceNeverFails

\* A completed plan costs no more than the best goal of the agent that asked
\* for it, however many better ways to the states on its path came up while it
\* was traced.
TracedWithinGoal ==
    \A a \in Agent : answer[a].st = "found" => answer[a].cost <= goalCost[a]

\* A verified plan is an optimal one.
VerifiedIsOptimal ==
    Verify => \A a \in Agent : answer[a].st = "found" => answer[a].cost = Optimum

\* A search that has nothing left to expand or to verify has no solution: a
\* solution that somebody reached is kept by somebody until it is accepted.
SolutionKept == Quiet => Stopped \/ Optimum = MaxCost

TypeOK ==
    /\ problem \in Problems
    /\ \A a \in Agent :
         /\ \A i \in DOMAIN list[a] : node[a][list[a][i].s].st # "NEW"
         /\ goal[a] = NoState <=> goalCost[a] = MaxCost
         /\ \A t \in DOMAIN objs[a] :
              /\ objs[a][t].count.initiator <=> t[1] = a
              /\ objs[a][t].init = <<>> => a # t[1]
         /\ answer[a].st \in {"searching", "found", "abort"}

=============================================================================
