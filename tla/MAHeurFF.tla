------------------------------ MODULE MAHeurFF ------------------------------
(***************************************************************************)
(* The distributed FF heuristic (src/heur_ma_ff.c).  An agent that wants the *)
(* value of a state finds a relaxed plan in its projection of the problem.  *)
(* For every operator of another agent in it, it asks that agent what the   *)
(* operator's private preconditions take, adds the operators of the answer  *)
(* to the plan, and asks further agents about theirs.  The value is what the *)
(* operators cost that have come together when no answer is outstanding.    *)
(*                                                                         *)
(* Packing a state into a message and the agents' views of its private part *)
(* are abstracted to its identity.                                          *)
(***************************************************************************)
EXTENDS Projections

CONSTANTS Problems,   \* the planning problems
          Askers,     \* the agents that evaluate states
          MaxEval     \* bound on the states each of them evaluates

VARIABLES problem,    \* the planning problem, fixed
          heur,       \* heur[a]: what a's heuristic is built from, fixed
          state,      \* state[a]: the state a evaluates
          plan,       \* plan[a]: the operators of relaxed_plan, by their ids
          peer,       \* peer[a]: the operators a has asked about (peer_op)
          waiting,    \* whether a waits for responses in searchMAHeur
          value,      \* value[a]: the value of state[a], once it is known
          evals,      \* evaluations a has started
          chan

vars == <<problem, heur, state, plan, peer, waiting, value, evals, chan>>

-----------------------------------------------------------------------------
\* planHeurMARelaxFFNew
NewHeur(p, a) ==
    [ops |-> ProjectedOps(p, a), task |-> CrossRef(p, "ADD", ProjectedOps(p, a)),
     privOps |-> PrivateProjOps(p, a)]

Init == /\ problem \in Problems
        /\ heur = [a \in Agent |-> NewHeur(problem, a)]
        /\ state = [a \in Agent |-> {}]
        /\ plan = [a \in Agent |-> {}]
        /\ peer = [a \in Agent |-> {}]
        /\ waiting = [a \in Agent |-> FALSE]
        /\ value = [a \in Agent |-> 0]
        /\ evals = [a \in Agent |-> 0]
        /\ chan = NoMsgs

NoPre == FakeValues(problem, {})

-----------------------------------------------------------------------------
(* An evaluation e: the state s, its plan and peer, and the requests out that *)
(* a step of it has sent                                                    *)

Current(a, s) == [s |-> s, plan |-> plan[a], peer |-> peer[a], out |-> <<>>]

\* maSendHeurRequest
Request(s, o) == [to |-> o.owner, msg |-> [kind |-> "FF_REQUEST", s |-> s, op |-> o.id]]

\* Mutant of AddPeerOp: what has been asked before is asked again.
AskPeerAgain(e, o) ==
    [e EXCEPT !.peer = @ \cup {o.id}, !.out = Append(@, Request(e.s, o))]

\* maAddPeerOp: who has an operator that was not thought of yet is asked.
AddPeerOp(e, o) ==
    IF o.id \in e.plan \cup e.peer THEN e
    ELSE [e EXCEPT !.peer = @ \cup {o.id}, !.out = Append(@, Request(e.s, o))]

\* maAddOpToRelaxedPlan
AddOp(e, o) == [e EXCEPT !.plan = @ \cup {o.id}]

\* The operators the relaxation r needs for the facts of F.
PlanFor(a, r, F) ==
    LET nums == Ascending(Len(heur[a].ops), PlanOps(heur[a].task, r, F))
    IN [i \in DOMAIN nums |-> heur[a].ops[nums[i]]]

\* maExploreLocal, once the relaxation r has reached the facts of F
Explored(a, e, r, F) ==
    LET add(x, o) == Once(x, LAMBDA y : AddOp(IF o.owner # a THEN AddPeerOp(y, o) ELSE y, o))
    IN FoldLeft(add, e, PlanFor(a, r, F))

\* maExploreLocal towards the preconditions of a's operator o: nothing is added
\* if they are out of reach.
ExploreLocal(a, e, o) ==
    LET F == ToSet(o.pre)
        go(x) == IF x.heur = CostMax THEN e ELSE Explored(a, e, x.relax, F)
    IN Once(Relax2(heur[a].task, e.s, NoPre, F), go)

\* Mutant of UpdateLocalOp: what the operator itself needs is not looked for.
UpdateLocalAlone(a, e, id) ==
    LET i == Loc(heur[a].ops, id) IN IF i = 0 THEN e ELSE AddOp(e, heur[a].ops[i])

\* maUpdateLocalOp
UpdateLocalOp(a, e, id) ==
    LET i == Loc(heur[a].ops, id)
    IN IF i = 0 \/ id \in e.plan THEN e
       ELSE Once(AddOp(e, heur[a].ops[i]), LAMBDA x : ExploreLocal(a, x, heur[a].ops[i]))

-----------------------------------------------------------------------------
(* Asking *)

\* planMACommSendToNode sends nothing to the agent itself.
Deliver(ch, a, out) == FoldLeft(LAMBDA c, x : Send(c, a, {x.to} \ {a}, x.msg), ch, out)

\* maHeur, when no answer is outstanding.
Conclude(a, e, ch) ==
    /\ plan' = [plan EXCEPT ![a] = e.plan]
    /\ peer' = [peer EXCEPT ![a] = e.peer]
    /\ waiting' = [waiting EXCEPT ![a] = e.peer # {}]
    /\ value' = [value EXCEPT ![a] = IF e.peer # {} THEN 0 ELSE SetCost(problem, e.plan)]
    /\ chan' = Deliver(ch, a, e.out)

\* planHeurRelaxFFMA, called by searchMAHeur
Evaluate(a) ==
    /\ ~waiting[a]
    /\ evals[a] < MaxEval
    /\ evals' = [evals EXCEPT ![a] = @ + 1]
    /\ \E s \in problem.states :
       \E r \in {Relax(heur[a].task, s, NoPre)} :
          /\ state' = [state EXCEPT ![a] = s]
          /\ IF r.val[GoalFact(problem)] = CostMax
             THEN /\ plan' = [plan EXCEPT ![a] = {}]
                  /\ value' = [value EXCEPT ![a] = CostMax]
                  /\ UNCHANGED <<peer, waiting, chan>>
             ELSE \E e \in {Explored(a, [Current(a, s) EXCEPT !.plan = {}], r, {GoalFact(problem)})} :
                     Conclude(a, e, chan)
    /\ UNCHANGED <<problem, heur>>

\* planHeurRelaxFFMAUpdate
Update(a, b, e, o) ==
    IF o.owner = a THEN UpdateLocalOp(a, e, o.id)
    ELSE AddOp(IF o.owner # b THEN AddPeerOp(e, o) ELSE e, o)

RecvResponse(a, b) ==
    /\ waiting[a]
    /\ chan[b][a] # <<>>
    /\ Head(chan[b][a]).kind = "FF_RESPONSE"
    /\ UNCHANGED <<problem, heur, state, evals>>
    /\ LET m == Head(chan[b][a])
           answered == [Current(a, state[a]) EXCEPT !.peer = @ \ {m.op}]
           update(e, o) == Once(e, LAMBDA x : Update(a, b, x, o))
       IN \E e \in {FoldLeft(update, answered, m.ops)} : Conclude(a, e, Consume(chan, b, a))

-----------------------------------------------------------------------------
(* Answering *)

\* planHeurRelaxFFMARequest: the relaxed plan for the private preconditions of
\* the operator; an empty one if a does not know it or cannot reach them.
Answer(a, m) ==
    LET i == Loc(heur[a].privOps, m.op)
        F == ToSet(heur[a].privOps[i].pre)
        told(x) == IF x.heur = CostMax THEN <<>>
                   ELSE LET ops == PlanFor(a, x.relax, F)
                        IN [k \in DOMAIN ops |-> [id |-> ops[k].id, owner |-> ops[k].owner]]
    IN IF i = 0 THEN <<>> ELSE Once(Relax2(heur[a].task, m.s, NoPre, F), told)

RecvRequest(a, b) ==
    /\ chan[b][a] # <<>>
    /\ Head(chan[b][a]).kind = "FF_REQUEST"
    /\ LET m == Head(chan[b][a])
       IN \E ops \in {Answer(a, m)} :
             chan' = Send(Consume(chan, b, a), a, {b},
                          [kind |-> "FF_RESPONSE", op |-> m.op, ops |-> ops])
    /\ UNCHANGED <<problem, heur, state, plan, peer, waiting, value, evals>>

Recv(a, b) == RecvRequest(a, b) \/ RecvResponse(a, b)

Next == \/ \E a \in Askers : Evaluate(a)
        \/ \E a \in Agent : \E b \in Others(a) : Recv(a, b)

Spec == Init /\ [][Next]_vars

\* As long as there is something to do in the cluster, something is done.
Fairness == WF_vars(Next)
FairSpec == Spec /\ Fairness

-----------------------------------------------------------------------------
(* Properties *)

Evaluated(a) == evals[a] > 0 /\ ~waiting[a]

\* An operator is asked about once, and the agent waits for as many answers as
\* there are questions and answers under way, however the evaluations overlap.
AskedOnce ==
    \A a \in Agent :
        LET asked(b) == SelectSeq(chan[a][b], LAMBDA m : m.kind = "FF_REQUEST")
            told(b) == SelectSeq(chan[b][a], LAMBDA m : m.kind = "FF_RESPONSE")
            both(b) == asked(b) \o told(b)
            ids(b) == [i \in DOMAIN both(b) |-> both(b)[i].op]
        IN /\ peer[a] = UNION {ToSet(ids(b)) : b \in Others(a)}
           /\ Cardinality(peer[a]) = FoldSet(LAMBDA b, n : n + Len(ids(b)), 0, Others(a))
           /\ waiting[a] <=> peer[a] # {}

\* Whatever the operators of the plan need that an agent can reach, private or
\* public, is true in the state or an effect of an operator of the plan: no
\* answer was lost or thought to be superfluous.
Supported(a, f) == f \in state[a] \/ \E i \in plan[a] : InEff(problem.ops[i], f)
PlanIsClosed ==
    \A a \in Agent : Evaluated(a) /\ value[a] # CostMax /\ AllReachable(problem, state[a]) =>
        \A f \in problem.goal \cup UNION {ToSet(problem.ops[i].pre) : i \in plan[a]} :
            Supported(a, f)

\* A state is only cut off as a dead end if no agent could reach the goal from it.
DeadEndsAreReal ==
    \A a \in Agent : evals[a] > 0 /\ value[a] = CostMax =>
        RelaxedCost(problem, state[a]) = CostMax

\* Every evaluation ends, though answers raise new questions.
AskingEnds == \A a \in Agent : waiting[a] ~> ~waiting[a]
=============================================================================
