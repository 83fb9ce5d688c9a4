------------------------------ MODULE MALmCut ------------------------------
(***************************************************************************)
(* The distributed LM-Cut heuristic (src/heur_ma_lm_cut.c).  The agent that *)
(* evaluates a state, the main agent, has the h^max values of its           *)
(* projection corrected by the others, who relax their private facts.  Then *)
(* all of them together look for a cut in the justification graph, of which *)
(* every agent knows the supporters of some operators: first for the goal   *)
(* zone, then for the operators that lead into it.  The cheapest of these    *)
(* is added to the value and taken off the cost of all of them, and h^max    *)
(* is computed again, until the goal costs nothing.                          *)
(*                                                                         *)
(* Packing a state into a message and the agents' views of its private part *)
(* are abstracted to its identity.  Keys of the priority queue that are out *)
(* of reach turn the queue into a heap; among equal keys the model still     *)
(* pops the last inserted one first.                                        *)
(***************************************************************************)
EXTENDS Projections, Cuts

CONSTANTS Problems,   \* the planning problems
          Askers,     \* the agents that evaluate states
          MaxEval     \* bound on the states each of them evaluates

VARIABLES problem,    \* the planning problem, fixed
          heur,       \* heur[a]: what a's heuristic is built from, fixed
          main,       \* main[a]: a's evaluation (plan_heur_ma_lm_cut_t)
          priv,       \* priv[a][b]: what a keeps for the evaluations of b (private_t)
          evals,      \* evaluations a has started
          chan

vars == <<problem, heur, main, priv, evals, chan>>

-----------------------------------------------------------------------------
\* planHeurMALMCutNew, privateInit: what never changes after that.
NewHeur(p, a) ==
    LET ops == ProjectedOps(p, a)
        own == PrivateProjOps(p, a)
    IN [ops |-> ops, task |-> CrossRef(p, "MAX", ops), size |-> AgentSize(ops),
        privOps |-> own, public |-> FakedOps(p, own), privTask |-> CrossRef(p, "MAX", own)]

Finish == "FINISH"
DeadEnd == CostMax       \* PLAN_HEUR_DEAD_END
NoAgent == -1

Blank(t) == [relax |-> RelaxInit(t, {}, <<>>), cut |-> NewCut(t)]

\* An evaluation: phase is the state of the state machine, state the state that
\* is evaluated, opChanged the operators the owner has to be told of, changed
\* the agents that have to be asked or have not answered, value heur_value, and
\* out what the current step has sent.
NewMain(t) == [phase |-> Finish, state |-> {}, relax |-> Blank(t).relax, cut |-> Blank(t).cut,
               opChanged |-> {}, changed |-> {}, cur |-> NoAgent, value |-> 0, out |-> <<>>]

Init == /\ problem \in Problems
        /\ heur = [a \in Agent |-> NewHeur(problem, a)]
        /\ main = [a \in Agent |-> NewMain(heur[a].task)]
        /\ priv = [a \in Agent |-> [b \in Agent |-> Blank(heur[a].privTask)]]
        /\ evals = [a \in Agent |-> 0]
        /\ chan = NoMsgs

NoPre == FakeValues(problem, {})
Waiting(a) == main[a].phase # Finish

-----------------------------------------------------------------------------
(* Messages *)

Post(e, b, m) == [e EXCEPT !.out = Append(@, [to |-> b, msg |-> m])]

\* createMsgsForAgents, sendMsgs: M[b] for every agent b of S.
PostAll(e, S, M) ==
    LET order == SetToSortSeq(S, <)
    IN [e EXCEPT !.out = @ \o [i \in DOMAIN order |-> [to |-> order[i], msg |-> M[order[i]]]]]

\* planMACommSendToNode sends nothing to the agent itself.
Deliver(ch, a, out) ==
    FoldLeft(LAMBDA c, x : Send(c, a, {x.to} \ {a}, x.msg), ch, out)

Remote(a) == 0 .. heur[a].size - 1 \ {a}
OwnedBy(a, b) == {i \in DOMAIN heur[a].ops : heur[a].ops[i].owner = b}
Ids(ops, S) == {ops[i].id : i \in S}

\* The operators of a message that the receiver knows, by their numbers.
Known(ops, ids) == Ascending(Len(ops), {Loc(ops, id) : id \in ids})

-----------------------------------------------------------------------------
(* The main agent: which agent is next *)

\* nextAgentId
NextAgentId(a, e) ==
    LET from == IF e.cur = NoAgent THEN 0 ELSE e.cur + 1
        dist(b) == (b - from) % heur[a].size
    IN IF e.changed = {} THEN NoAgent
       ELSE CHOOSE b \in e.changed : \A c \in e.changed : dist(b) <= dist(c)

\* setAllAgentsAndOpsAsChanged
AllChanged(a, e) ==
    [e EXCEPT !.changed = Remote(a), !.cur = (a + 1) % heur[a].size,
              !.opChanged = DOMAIN heur[a].ops]

\* sendHMaxRequest to e.cur: the operators of that agent that have changed.
SendHMaxRequest(a, e) ==
    LET ops == OwnedBy(a, e.cur) \cap e.opChanged
        told == {[id |-> heur[a].ops[i].id, value |-> e.relax.oval[i]] : i \in ops}
    IN Post([e EXCEPT !.opChanged = @ \ ops, !.changed = @ \ {e.cur}], e.cur,
            [kind |-> "HMAX_REQUEST", ops |-> told])

\* zeroizeAgentChanged, and then the owners of the operators of O change.
NowChanged(a, e, O) ==
    [e EXCEPT !.changed = {heur[a].ops[i].owner : i \in O} \ {a},
              !.cur = (a + 1) % heur[a].size]

-----------------------------------------------------------------------------
(* The main agent: steps of the state machine.  A step that returns 0 goes   *)
(* on with the next one at once.                                            *)

\* stepInit
StepInit(a, e) ==
    LET asked == PostAll(AllChanged(a, e), Remote(a),
                         [b \in Remote(a) |-> [kind |-> "INIT_REQUEST", s |-> e.state]])
        known == [asked EXCEPT !.relax = HMaxFull(heur[a].task, e.state, NoPre)]
    IN Once(known, LAMBDA x : [SendHMaxRequest(a, x) EXCEPT !.phase = "HMAX_UPDATE"])

\* sendFindCutRequests
SendFindCutRequests(a, e, withState) ==
    LET zone == {i \in DOMAIN heur[a].ops : e.cut.op[i] = StartZone}
        done == NowChanged(a, [e EXCEPT !.cut.op = Becomes(@, zone, OpDone)], zone)
        ask(x) == PostAll(x, x.changed,
               [b \in Remote(a) |-> [kind |-> "FIND_CUT_REQUEST",
                                     s |-> IF withState THEN {e.state} ELSE {},
                                     ops |-> Ids(heur[a].ops, zone \cap OwnedBy(a, b))]])
    IN Once(IF withState THEN [done EXCEPT !.changed = Remote(a)] ELSE done, ask)

\* stepFindCut
StepFindCut(a, e) ==
    LET facts == SetToSortSeq(e.state, <) \o <<NoPreFact(problem)>>
        found == [e EXCEPT !.cut = FindFrom(heur[a].task, e.relax, @, facts)]
    IN Once(found, LAMBDA x :
            [SendFindCutRequests(a, x, TRUE) EXCEPT !.phase = "FIND_CUT_UPDATE"])

\* sendGoalZoneRequests, and on to find-cut if there is nobody to ask.
SendGoalZoneRequests(a, e) ==
    LET zone == {i \in DOMAIN heur[a].ops : e.cut.op[i] = GoalZone}
        ask(x) ==
            IF x.changed = {} THEN StepFindCut(a, x)
            ELSE PostAll([x EXCEPT !.phase = "GOAL_ZONE_UPDATE"], x.changed,
                         [b \in Remote(a) |-> [kind |-> "GOAL_ZONE_REQUEST",
                                               ops |-> Ids(heur[a].ops, zone \cap OwnedBy(a, b))]])
    IN Once(NowChanged(a, [e EXCEPT !.cut.op = Becomes(@, zone, OpDone)], zone), ask)

\* stepGoalZone
StepGoalZone(a, e) ==
    LET t == heur[a].task
    IN Once([e EXCEPT !.cut = MarkGoalZone(t, e.relax, NewCut(t), t.goal)],
            LAMBDA x : SendGoalZoneRequests(a, x))

\* Mutant of SendSuppRequest: the operators of all values are told, not only
\* those whose supporter the main agent knows.
SendSuppOfAll(a, e) ==
    PostAll(e, Remote(a), [b \in Remote(a) |->
                [kind |-> "SUPP_REQUEST", ops |-> Ids(heur[a].ops, OwnedBy(a, b))]])

\* sendSuppRequest: the operators whose supporter the main agent knows.
SendSuppRequest(a, e) ==
    LET mine == {i \in DOMAIN heur[a].ops : e.relax.osupp[i] # NoSupp}
    IN PostAll(e, Remote(a),
               [b \in Remote(a) |-> [kind |-> "SUPP_REQUEST",
                                     ops |-> Ids(heur[a].ops, mine \cap OwnedBy(a, b))]])

\* hmaxUpdateOpValueFromMsg: r with the larger values of the message, and the
\* operators they are of, by their numbers in ops.
Raised(ops, r, told) ==
    {x \in told : Loc(ops, x.id) > 0 /\ r.oval[Loc(ops, x.id)] < x.value}
WithValues(ops, v, told) ==
    [i \in DOMAIN v |-> LET of == {x \in told : Loc(ops, x.id) = i}
                        IN IF of = {} THEN v[i] ELSE (CHOOSE x \in of : TRUE).value]
RaisedRelax(t, ops, r, told) ==
    LET up == Raised(ops, r, told)
    IN UpdateMaxFull(t, [r EXCEPT !.oval = WithValues(ops, @, up)],
                     Ascending(Len(ops), {Loc(ops, x.id) : x \in up}))

\* updateHMax: what the values of the message have changed besides themselves.
ChangedOps(a, e, told, r) ==
    LET given == WithValues(heur[a].ops, e.relax.oval, Raised(heur[a].ops, e.relax, told))
    IN {i \in DOMAIN heur[a].ops \ e.opChanged :
            heur[a].ops[i].owner # a /\ given[i] # r.oval[i]}

\* stepHMaxUpdate
StepHMaxUpdate(a, e, b, m) ==
    LET update(r) ==
            LET new == ChangedOps(a, e, m.ops, r)
            IN [e EXCEPT !.relax = r, !.opChanged = @ \cup new,
                         !.changed = @ \cup {heur[a].ops[i].owner : i \in new}]
        go(x) ==
            LET goal == x.relax.val[GoalFact(problem)]
            IN IF x.cur # NoAgent THEN SendHMaxRequest(a, x)
               ELSE IF goal >= Unreachable THEN [x EXCEPT !.value = DeadEnd, !.phase = Finish]
               ELSE IF goal = 0 THEN [x EXCEPT !.phase = Finish]
               ELSE Once(SendSuppRequest(a, x), LAMBDA y : StepGoalZone(a, y))
        asked == Once(Once(RaisedRelax(heur[a].task, heur[a].ops, e.relax, m.ops), update),
                      LAMBDA x : [x EXCEPT !.cur = NextAgentId(a, x)])
    IN Once(asked, go)

\* stepGoalZoneUpdate
StepGoalZoneUpdate(a, e, b, m) ==
    LET mark[c \in CutsOf(heur[a].task), o \in DOMAIN heur[a].ops] ==
            MarkGoalZoneOp(heur[a].task, e.relax, c, o)
        marked == [e EXCEPT !.cut = FoldLeft(LAMBDA c, o : mark[c, o], @, Known(heur[a].ops, m.ops)),
                            !.changed = @ \ {b}]
    IN Once(marked, LAMBDA x : IF x.changed = {} THEN SendGoalZoneRequests(a, x) ELSE x)

\* sendCutRequests, stepCut
StepCut(a, e) ==
    LET asked == [NowChanged(a, e, {}) EXCEPT !.changed = Remote(a), !.phase = "CUT_UPDATE",
                                              !.value = @ + e.cut.min]
    IN IF e.cut.min = CostMax THEN [e EXCEPT !.value = DeadEnd, !.phase = Finish]
       ELSE PostAll(asked, Remote(a),
                    [b \in Remote(a) |-> [kind |-> "CUT_REQUEST", min |-> e.cut.min,
                                          ops |-> Ids(heur[a].ops, e.cut.in \cap OwnedBy(a, b))]])

\* stepFindCutUpdate
StepFindCutUpdate(a, e, b, m) ==
    LET find[c \in CutsOf(heur[a].task), o \in DOMAIN heur[a].ops] ==
            FindOp(heur[a].task, e.relax, c, o)
        lower == [e.cut EXCEPT !.min = Min({@, m.min})]
        found == [e EXCEPT !.cut = FoldLeft(LAMBDA c, o : find[c, o], lower, Known(heur[a].ops, m.ops)),
                           !.changed = @ \ {b}]
        ask(x) == IF x.changed = {} THEN StepCut(a, x) ELSE x
        go(x) == IF x.changed # {} THEN x ELSE Once(SendFindCutRequests(a, x, FALSE), ask)
    IN Once(found, go)

\* stepHMax
StepHMax(a, e) ==
    LET upd == [e EXCEPT !.relax = UpdateByCut(heur[a].task, @, e.cut)]
        asked == PostAll(upd, Remote(a), [b \in Remote(a) |-> [kind |-> "HMAX_INC_REQUEST"]])
    IN Once(AllChanged(a, asked), LAMBDA x :
            [SendHMaxRequest(a, x) EXCEPT !.phase = "HMAX_UPDATE"])

\* stepCutUpdate
StepCutUpdate(a, e, b, m) ==
    LET upd == [e EXCEPT !.cut.in = @ \cup ToSet(Known(heur[a].ops, m.ops)), !.changed = @ \ {b}]
    IN Once(upd, LAMBDA x : IF x.changed = {} THEN StepHMax(a, x) ELSE x)

-----------------------------------------------------------------------------
(* Asking *)

\* heurMA, called by searchMAHeur
Evaluate(a) ==
    /\ ~Waiting(a)
    /\ evals[a] < MaxEval
    /\ \E s \in problem.states :
       \E e \in {StepInit(a, [main[a] EXCEPT !.state = s, !.value = 0])} :
          /\ evals' = [evals EXCEPT ![a] = @ + 1]
          /\ main' = [main EXCEPT ![a] = [e EXCEPT !.out = <<>>]]
          /\ chan' = Deliver(chan, a, e.out)
    /\ UNCHANGED <<problem, heur, priv>>

\* mainLoop: the step of the current state, with the message that has come.
MainLoop(a, b, m) ==
    CASE main[a].phase = "HMAX_UPDATE" -> StepHMaxUpdate(a, main[a], b, m)
      [] main[a].phase = "GOAL_ZONE_UPDATE" -> StepGoalZoneUpdate(a, main[a], b, m)
      [] main[a].phase = "FIND_CUT_UPDATE" -> StepFindCutUpdate(a, main[a], b, m)
      [] main[a].phase = "CUT_UPDATE" -> StepCutUpdate(a, main[a], b, m)

Responses == {"HMAX_RESPONSE", "GOAL_ZONE_RESPONSE", "FIND_CUT_RESPONSE", "CUT_RESPONSE"}

\* heurMAUpdate
RecvResponse(a, b) ==
    /\ Waiting(a)
    /\ chan[b][a] # <<>>
    /\ Head(chan[b][a]).kind \in Responses
    /\ \E e \in {MainLoop(a, b, Head(chan[b][a]))} :
          /\ main' = [main EXCEPT ![a] = [e EXCEPT !.out = <<>>]]
          /\ chan' = Deliver(Consume(chan, b, a), a, e.out)
    /\ UNCHANGED <<problem, heur, priv, evals>>

-----------------------------------------------------------------------------
(* Answering: x is what the agent keeps for the main agent                   *)

\* The public operators in the zone are told to the main agent.
InZone(h, x, zone) == {i \in h.public : x.cut.op[i] = zone}
ToldZone(h, x, zone) == [x EXCEPT !.cut.op = Becomes(@, InZone(h, x, zone), OpDone)]

\* privateInitStep
PrivateInit(h, x, m) == [x EXCEPT !.relax = HMaxFull(h.privTask, m.s, NoPre)]

\* privateHMax, sendHMaxResponse: what the main agent does not know.
PrivateHMax(h, x, m) == [x EXCEPT !.relax = RaisedRelax(h.privTask, h.privOps, @, m.ops)]
HMaxResponse(h, x, m, r) ==
    LET assumed == WithValues(h.privOps, x.relax.oval, m.ops)
        new == {i \in h.public : assumed[i] # r.oval[i] /\ r.unsat[i] = 0}
    IN [kind |-> "HMAX_RESPONSE",
        ops |-> {[id |-> h.privOps[i].id, value |-> r.oval[i]] : i \in new}]

\* privateSupp
PrivateSupp(h, x, m) ==
    [relax |-> [x.relax EXCEPT !.osupp = Becomes(@, ToSet(Known(h.privOps, m.ops)), NoSupp)],
     cut |-> NewCut(h.privTask)]

\* Mutant of PrivateHMaxInc: the cut is not taken off the private costs.
PrivateHMaxKept(h, x, m) == x

\* privateHMaxInc
PrivateHMaxInc(h, x, m) == [x EXCEPT !.relax = UpdateByCut(h.privTask, @, x.cut)]

\* privateGoalZone
PrivateGoalZone(h, x, m) ==
    LET mark[c \in CutsOf(h.privTask), o \in DOMAIN h.privOps] ==
            MarkGoalZoneOp(h.privTask, x.relax, c, o)
    IN [x EXCEPT !.cut = FoldLeft(LAMBDA c, o : mark[c, o], @, Known(h.privOps, m.ops))]

\* privateFindCut
PrivateFindCut(h, x, m) ==
    LET t == h.privTask
        facts == SetToSortSeq(UNION m.s, <) \o <<NoPreFact(problem)>>
        from == IF m.s = {} THEN x.cut ELSE FindFrom(t, x.relax, x.cut, facts)
        find[c \in CutsOf(t), o \in DOMAIN h.privOps] == FindOp(t, x.relax, c, o)
    IN [x EXCEPT !.cut = FoldLeft(LAMBDA c, o : find[c, o], from, Known(h.privOps, m.ops))]

\* privateCut
PrivateCut(h, x, m) ==
    [x EXCEPT !.cut.in = @ \cup ToSet(Known(h.privOps, m.ops)), !.cut.min = m.min]

\* What becomes of x, and the answer if there is one.
Silent(x) == [kept |-> x, answer |-> {}]
Told(x, m) == [kept |-> x, answer |-> {m}]

\* Mutant of ToldOps: an agent with nothing to tell does not answer.
ToldIfAny(h, x, zone, m) ==
    IF InZone(h, x, zone) = {} THEN Silent(x)
    ELSE Told(ToldZone(h, x, zone), m @@ [ops |-> Ids(h.privOps, InZone(h, x, zone))])

\* heurMARequest
ToldOps(h, x, zone, m) ==
    Told(ToldZone(h, x, zone), m @@ [ops |-> Ids(h.privOps, InZone(h, x, zone))])

Answer(h, x, m) ==
    CASE m.kind = "INIT_REQUEST" -> Silent(PrivateInit(h, x, m))
      [] m.kind = "HMAX_INC_REQUEST" -> Silent(PrivateHMaxInc(h, x, m))
      [] m.kind = "SUPP_REQUEST" -> Silent(PrivateSupp(h, x, m))
      [] m.kind = "HMAX_REQUEST" -> 
            Once(PrivateHMax(h, x, m), LAMBDA y : Told(y, HMaxResponse(h, x, m, y.relax)))
      [] m.kind = "GOAL_ZONE_REQUEST" ->
            Once(PrivateGoalZone(h, x, m), LAMBDA y :
                 ToldOps(h, y, GoalZone, [kind |-> "GOAL_ZONE_RESPONSE"]))
      [] m.kind = "FIND_CUT_REQUEST" ->
            Once(PrivateFindCut(h, x, m), LAMBDA y :
                 ToldOps(h, y, StartZone, [kind |-> "FIND_CUT_RESPONSE", min |-> y.cut.min]))
      [] m.kind = "CUT_REQUEST" ->
            LET y == PrivateCut(h, x, m)
            IN Told(y, [kind |-> "CUT_RESPONSE",
                        ops |-> Ids(h.privOps, y.cut.in \cap h.public)])

RecvRequest(a, b) ==
    /\ chan[b][a] # <<>>
    /\ Head(chan[b][a]).kind \notin Responses
    /\ \E x \in {Answer(heur[a], priv[a][b], Head(chan[b][a]))} :
          /\ priv' = [priv EXCEPT ![a][b] = x.kept]
          /\ chan' = Deliver(Consume(chan, b, a), a,
                             SetToSeq({[to |-> b, msg |-> m] : m \in x.answer}))
    /\ UNCHANGED <<problem, heur, main, evals>>

Recv(a, b) == RecvRequest(a, b) \/ RecvResponse(a, b)

Next == \/ \E a \in Askers : Evaluate(a)
        \/ \E a \in Agent : \E b \in Others(a) : Recv(a, b)

Spec == Init /\ [][Next]_vars

\* As long as there is something to do in the cluster, something is done.
Fairness == WF_vars(Next)
FairSpec == Spec /\ Fairness

-----------------------------------------------------------------------------
(* Properties *)

\* The cuts found so far never cost more than the goal really does, however the
\* answers interleave, and only what is out of reach is called a dead end: A*
\* with the heuristic stays optimal and complete.
CutsAreLandmarks ==
    \A a \in Askers : evals[a] > 0 => main[a].value <= RelaxedCost(problem, main[a].state)

\* While a cut is looked for, every public operator costs the same and has the
\* same h^max value at the agent that evaluates and at its owner, and exactly
\* one of the two knows its supporter: the justification graph, of which no
\* agent holds all, is one graph.  (Operators that their owner alone finds out
\* of reach are left out: it never tells of them.)
SameGraph ==
    \A a \in Askers : \A b \in Others(a) :
        main[a].phase \in {"GOAL_ZONE_UPDATE", "FIND_CUT_UPDATE"} =>
           \A i \in OwnedBy(a, b) :
              LET mine == main[a].relax
                  own == priv[b][a].relax
                  j == Loc(heur[b].privOps, heur[a].ops[i].id)
              IN j \in heur[b].public /\ own.unsat[j] = 0 =>
                    /\ mine.oval[i] = own.oval[j] /\ mine.cost[i] = own.cost[j]
                    /\ \/ \E n \in DOMAIN chan[a][b] : chan[a][b][n].kind = "SUPP_REQUEST"
                       \/ (mine.osupp[i] = NoSupp) # (own.osupp[j] = NoSupp)

\* Every evaluation ends: every cut takes something off the way to the goal, and
\* nobody waits for an answer nobody sends.
CuttingEnds == \A a \in Askers : Waiting(a) ~> ~Waiting(a)
=============================================================================
