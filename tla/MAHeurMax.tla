------------------------------ MODULE MAHeurMax ------------------------------
(***************************************************************************)
(* The distributed h^max heuristic (src/heur_ma_max.c).  An agent that wants *)
(* the value of a state relaxes its projection of the problem, in which it  *)
(* sees the operators of the others without their private facts.  Then it   *)
(* asks one agent after another to correct the values of that agent's       *)
(* operators, and asks again whoever's operators have changed since, until  *)
(* nobody is left to be asked.  The agent asked relaxes its private facts   *)
(* only; a fake precondition carries the value the asking agent has for     *)
(* each public operator.  All agents evaluate states at the same time and   *)
(* answer each other while they wait.                                       *)
(*                                                                         *)
(* Packing a state into a message and the agents' views of its private part *)
(* are abstracted to its identity.                                          *)
(***************************************************************************)
EXTENDS Projections

CONSTANTS Problems,   \* the planning problems
          MaxEval     \* bound on the states each agent evaluates

VARIABLES problem,    \* the planning problem, fixed
          heur,       \* heur[a]: what a's heuristic is built from, fixed
          state,      \* state[a]: the state a evaluates (init_state)
          waiting,    \* whether a waits for a response in searchMAHeur
          relax,      \* relax[a]: the relaxation of a's projection
          changed,    \* changed[a]: agents a has to ask (agent_changed)
          cur,        \* cur[a]: the agent a has asked (cur_agent_id)
          fake,       \* fake[a]: values of the fake facts of a's private part
          value,      \* value[a]: the value of state[a], once it is known
          evals,      \* evaluations a has started
          chan

vars == <<problem, heur, state, waiting, relax, changed, cur, fake, value, evals, chan>>

-----------------------------------------------------------------------------
\* planHeurMARelaxMaxNew, privateInit: what never changes after that.
NewHeur(p, a) ==
    LET ops == ProjectedOps(p, a)
        priv == PrivateProjOps(p, a)
        faked == FakedOps(p, priv)
    IN [ops |-> ops, task |-> CrossRef(p, "MAX", ops), size |-> AgentSize(ops),
        privOps |-> priv, faked |-> faked,
        privTask |-> WithFakePre(p, CrossRef(p, "MAX", priv), faked)]

-----------------------------------------------------------------------------
Unknown == -1

NoRelax(h) == RelaxInit(h.task, {}, <<>>)

Init == /\ problem \in Problems
        /\ heur = [a \in Agent |-> NewHeur(problem, a)]
        /\ state = [a \in Agent |-> {}]
        /\ waiting = [a \in Agent |-> FALSE]
        /\ relax = [a \in Agent |-> NoRelax(heur[a])]
        /\ changed = [a \in Agent |-> {}]
        /\ cur = [a \in Agent |-> a]
        /\ fake = [a \in Agent |-> FakeValues(problem, heur[a].faked)]
        /\ value = [a \in Agent |-> Unknown]
        /\ evals = [a \in Agent |-> 0]
        /\ chan = NoMsgs

-----------------------------------------------------------------------------
(* Asking *)

\* sendRequest: the values r has for the operators of agent b.
Request(a, s, r, b) ==
    LET ops == heur[a].ops
        mine == SelectSeq([i \in DOMAIN ops |-> i], LAMBDA i : ops[i].owner = b)
    IN [kind |-> "REQUEST", from |-> a, s |-> s,
        ops |-> [k \in DOMAIN mine |-> [id |-> ops[mine[k]].id, value |-> r.oval[mine[k]]]]]

\* planMACommSendToNode sends nothing to the agent itself.
Ask(ch, a, s, r, b) == Send(ch, a, {b} \ {a}, Request(a, s, r, b))

\* heurMAMax, called by searchMAHeur
Evaluate(a) ==
    \E s \in problem.states :
        LET h == heur[a]
            next == (a + 1) % h.size
            r == RelaxFull(h.task, s, FakeValues(problem, {}))
        IN /\ ~waiting[a]
           /\ evals[a] < MaxEval
           /\ evals' = [evals EXCEPT ![a] = @ + 1]
           /\ state' = [state EXCEPT ![a] = s]
           /\ waiting' = [waiting EXCEPT ![a] = TRUE]
           /\ value' = [value EXCEPT ![a] = Unknown]
           /\ changed' = [changed EXCEPT ![a] = 0 .. h.size - 1 \ {a}]
           /\ cur' = [cur EXCEPT ![a] = next]
           /\ relax' = [relax EXCEPT ![a] = r]
           /\ chan' = Ask(chan, a, s, r, next)
           /\ UNCHANGED <<problem, heur, fake>>

-----------------------------------------------------------------------------
(* Answering *)

Larger(x, y) == IF x > y THEN x ELSE y

\* Mutant: the cost of the operator is counted twice.
FakeValueWithCost(v, cost) == v

\* The value of the fake fact of an operator worth v.
FakeValue(v, cost) == Larger(0, v - cost)

\* heurMAMaxRequest, requestSendResponse
RecvRequest(a, b) ==
    /\ chan[b][a] # <<>>
    /\ Head(chan[b][a]).kind = "REQUEST"
    /\ LET m == Head(chan[b][a])
           h == heur[a]
           loc(x) == Loc(h.privOps, x.id)
           known == SelectSeq(m.ops, LAMBDA x : loc(x) > 0)
           set(g, x) == [g EXCEPT ![FakeFact(problem, loc(x))] =
                                     FakeValue(x.value, h.privTask.ops[loc(x)].cost)]
       IN \E f \in {FoldLeft(set, fake[a], known)} :
          \E r \in {RelaxFull(h.privTask, m.s, f)} :
            LET new == SelectSeq(known, LAMBDA x : r.oval[loc(x)] # x.value)
            IN /\ fake' = [fake EXCEPT ![a] = f]
               /\ chan' = Send(Consume(chan, b, a), a, {b},
                               [kind |-> "RESPONSE", from |-> a,
                                ops |-> [k \in DOMAIN new |->
                                           [id |-> new[k].id, value |-> r.oval[loc(new[k])]]]])
    /\ UNCHANGED <<problem, heur, state, waiting, relax, changed, cur, value, evals>>

-----------------------------------------------------------------------------
(* Taking the answer *)

\* updateHMax: take over the values of the response, then remember which
\* operators they changed.
Differing(a, m) == SelectSeq(m.ops, LAMBDA x : relax[a].oval[Loc(heur[a].ops, x.id)] # x.value)
Raised(a, m) ==
    LET set(r, x) == [r EXCEPT !.oval[Loc(heur[a].ops, x.id)] = x.value]
    IN FoldLeft(set, relax[a], m.ops)

\* initOpByOwner leaves out the first operator (op_id > 0).
OpByOwner(a, b) == {i \in DOMAIN heur[a].ops : i > 1 /\ heur[a].ops[i].owner = b}

\* Mutant: the update is compared with itself.
ChangedByNone(a, r, u) == {}

\* updateRelax: who has an operator the update of r to u has changed.
ChangedBy(a, r, u) ==
    {b \in 0 .. heur[a].size - 1 \ {a} :
        \E i \in OpByOwner(a, b) : r.oval[i] # u.oval[i]}

\* Mutant: the agent that has answered is asked again.
StillAsked(S, b, C) == S \cup C

\* agent_changed after b has answered and the operators of C have changed.
ToAsk(S, b, C) == (S \ {b}) \cup C

\* Mutant: the next agent, whether it is to be asked or not.
NextInRing(a, S, b) == (b + 1) % heur[a].size

\* The next agent that is to be asked, in ring order after b.
NextToAsk(a, S, b) ==
    LET n == heur[a].size
        dist(c) == 1 + ((c - b - 1) % n)
    IN CHOOSE c \in S : \A d \in S : dist(c) <= dist(d)

\* heurMAMaxUpdate
RecvResponse(a, b) ==
    /\ waiting[a]
    /\ chan[b][a] # <<>>
    /\ Head(chan[b][a]).kind = "RESPONSE"
    /\ LET m == Head(chan[b][a])
           given == Raised(a, m)
           ids == Differing(a, m)
           upd == IF ids = <<>> THEN given
                  ELSE UpdateMaxFull(heur[a].task, given,
                                     [k \in DOMAIN ids |-> Loc(heur[a].ops, ids[k].id)])
       IN IF b # cur[a]
          THEN /\ chan' = Consume(chan, b, a)
               /\ UNCHANGED <<relax, changed, cur, value, waiting>>
          ELSE \E u \in {upd} :
               LET rest == ToAsk(changed[a], b, ChangedBy(a, given, u))
                   next == NextToAsk(a, rest, b)
               IN /\ relax' = [relax EXCEPT ![a] = u]
                  /\ changed' = [changed EXCEPT ![a] = rest]
                  /\ IF rest = {}
                     THEN /\ value' = [value EXCEPT ![a] = u.val[GoalFact(problem)]]
                          /\ waiting' = [waiting EXCEPT ![a] = FALSE]
                          /\ chan' = Consume(chan, b, a)
                          /\ UNCHANGED cur
                     ELSE /\ cur' = [cur EXCEPT ![a] = next]
                          /\ chan' = Ask(Consume(chan, b, a), a, state[a], u, next)
                          /\ UNCHANGED <<value, waiting>>
    /\ UNCHANGED <<problem, heur, state, fake, evals>>

Recv(a, b) == RecvRequest(a, b) \/ RecvResponse(a, b)

Next == \E a \in Agent : Evaluate(a) \/ \E b \in Others(a) : Recv(a, b)

Spec == Init /\ [][Next]_vars

\* An agent with a message to read reads it, in searchMAHeur while it waits and
\* in searchPostStep otherwise: as long as there is something to do in the
\* cluster, something is done.
Fairness == WF_vars(Next)
FairSpec == Spec /\ Fairness

-----------------------------------------------------------------------------
(* The reference: h^max of the whole problem, as nobody computes it *)

Reference(a) == FactCosts(problem, state[a])

GoalCost(a) == LET cost == Reference(a) IN Max({cost[f] : f \in problem.goal})

\* Every operator can be reached and costs something, and the first operator
\* of a's projection is a's.
Tame(a) == /\ LET cost == Reference(a)
              IN \A o \in ToSet(problem.ops) : o.cost > 0 /\ OpCost(cost, o) < CostMax
           /\ heur[a].ops[1].owner = a

Evaluated(a) == evals[a] > 0 /\ ~waiting[a]

-----------------------------------------------------------------------------
(* Properties *)

\* What the agents compute together is what one that knew everything would,
\* as the test of the heuristic demands (heur_ma.c: assertEquals of the two).
AnswersSequential == \A a \in Agent : Evaluated(a) => value[a] = GoalCost(a)

\* The same for evaluations that are tame.
ExactWhenTame ==
    \A a \in Agent : Evaluated(a) /\ Tame(a) => value[a] = GoalCost(a)

\* No value is ever above the true one, at any time of the evaluation, whatever
\* the other agents ask meanwhile: A* with the heuristic stays optimal.
NeverAbove ==
    \A a \in Agent : evals[a] > 0 =>
        LET cost == Reference(a)
        IN \A i \in DOMAIN heur[a].ops : \A f \in ToSet(heur[a].ops[i].eff) :
              relax[a].val[f] <= cost[f]

\* An agent waits for the one answer it has asked for: never are two questions
\* or answers under way, and none when it does not wait, however the
\* evaluations of the agents overlap.
OneQuestion ==
    \A a \in Agent :
        /\ waiting[a] => cur[a] # a
        /\ \A b \in Others(a) :
             LET asked == SelectSeq(chan[a][b], LAMBDA m : m.kind = "REQUEST")
                 told == SelectSeq(chan[b][a], LAMBDA m : m.kind = "RESPONSE")
             IN Len(asked) + Len(told) = IF waiting[a] /\ cur[a] = b THEN 1 ELSE 0

\* Every evaluation ends: asking again whoever is concerned by an answer comes
\* to an end, and nobody waits for an answer nobody sends.
EvaluationsEnd == \A a \in Agent : waiting[a] ~> ~waiting[a]
=============================================================================
