-------------------------------- MODULE MADTG --------------------------------
(***************************************************************************)
(* The distributed DTG heuristic (src/heur_ma_dtg.c).  In the graphs of an   *)
(* agent the operators of the others lead from the values they need to '?'   *)
(* and from there to the values they reach.  When the way to an open goal   *)
(* passes '?', the agent goes on only when it has asked the others that      *)
(* lead from '?' what it takes, and has added the least of their answers.   *)
(* Who is asked may have to ask others, but none that has asked before; the *)
(* answer to such a question finds its way back by the slots of a list and  *)
(* their numbers (tokens).                                                 *)
(*                                                                         *)
(* A problem has, beside what Projections says, var, which gives a fact its *)
(* variable.  All agents know an operator of the agent with the highest      *)
(* number, so the arrays indexed by agents (fake_op_size) are long enough.   *)
(* Packing a state and the agents' views of its private part are abstracted  *)
(* to its identity, as nobody has transitions between values private to      *)
(* another agent.                                                          *)
(***************************************************************************)
EXTENDS Projections, DTG

CONSTANTS Problems,   \* the planning problems
          Askers,     \* the agents that evaluate states
          MaxEval     \* bound on the states each of them evaluates

VARIABLES problem,    \* the planning problem, fixed
          heur,       \* heur[a]: the graphs of a, fixed
          state,      \* state[a]: the state a evaluates
          ctx,        \* ctx[a]: the context of a's evaluation
          slots,      \* slots[a]: the questions a waits to be answered (waitlist)
          waiting,    \* whether a waits for responses in searchMAHeur
          value,      \* value[a]: the value of state[a], once it is known
          evals,      \* evaluations a has started
          chan

vars == <<problem, heur, state, ctx, slots, waiting, value, evals, chan>>

-----------------------------------------------------------------------------
Nobody == -1

\* initFakeOp: an operator that needs and reaches nothing.
FakeOp(b) == [pre |-> <<>>, eff |-> <<>>, owner |-> b]

\* dtgAddOp: who leads between a value and '?', among the operators of others.
FakeOps(p, others, from, to) ==
    LET leads(o) == \/ to = Unknown(p, VarOf(p, from)) /\ InPre(o, from)
                    \/ from = Unknown(p, VarOf(p, to)) /\ InEff(o, to)
        owners == {o.owner : o \in {q \in ToSet(others) : leads(q)}}
    IN [i \in 1 .. Cardinality(owners) |-> FakeOp(SetToSortSeq(owners, <)[i])]

\* planHeurMADTGNew, initDTGData
NewHeur(p, a) ==
    LET own == SelectSeq(p.ops, LAMBDA o : o.owner = a)
        others == SelectSeq(ProjectedOps(p, a), LAMBDA o : o.owner # a)
        trans == Transitions(p, own, TRUE)
        all(x) == [e \in DOMAIN trans[x] |-> trans[x][e] \o FakeOps(p, others, e[1], e[2])]
    IN Graph(p, [x \in DOMAIN trans |-> all(x)], TRUE)

NoCtx == [values |-> {}, opened |-> {}, goals |-> <<>>, heur |-> 0]

\* A slot whose size is 0, which nobody reads before it is taken again.
FreeSlot == [size |-> 0]

Init == /\ problem \in Problems
        /\ heur = [a \in Agent |-> NewHeur(problem, a)]
        /\ state = [a \in Agent |-> {}]
        /\ ctx = [a \in Agent |-> NoCtx]
        /\ slots = [a \in Agent |-> <<>>]
        /\ waiting = [a \in Agent |-> FALSE]
        /\ value = [a \in Agent |-> 0]
        /\ evals = [a \in Agent |-> 0]
        /\ chan = NoMsgs

-----------------------------------------------------------------------------
(* Questions.  A step of a works on e: its ctx and slots, asked, whether the *)
(* step has asked something, and the messages out it has sent.  A question   *)
(* is asked for the goal of an evaluation (NoReq) or for the question req    *)

NoReq == [from |-> Nobody, msg |-> [token |-> 0, asked |-> <<>>, reach |-> {}]]

Local(a) == [ctx |-> ctx[a], slots |-> slots[a], asked |-> FALSE, out |-> <<>>]

QMark(a, f) == Unknown(problem, heur[a].var[f])

\* hdtgFindOwners
FindOwners(a, f) == {o.owner : o \in ToSet(heur[a].trans[heur[a].var[f]][<<QMark(a, f), f>>])}

\* _sendReqFindOwners
SendFindOwners(a, f, req) == FindOwners(a, f) \ ToSet(req.msg.asked)

\* Mutant of NextToken: a slot with one answer to come is taken for free.
NextTokenTooEarly(list) ==
    LET free == {i \in DOMAIN list : list[i].size <= 1}
    IN Min(free \cup {Len(list) + 1})

\* hdtgNextToken
NextToken(list) ==
    LET free == {i \in DOMAIN list : list[i].size = 0}
    IN Min(free \cup {Len(list) + 1})

TakeSlot(list, token, slot) ==
    IF token > Len(list) THEN Append(list, slot) ELSE [list EXCEPT ![token] = slot]

\* hdtgSendRequest, _sendReqMsgNew: how f is reached, from the value to if there
\* is one, or else from any value of the variable that is reached.
SendRequest(e, a, f, to, req, base) ==
    LET owners == SendFindOwners(a, f, req)
        token == NextToken(e.slots)
        reach == IF req = NoReq THEN e.ctx.values \cap DOMAIN heur[a].path[f].next ELSE req.msg.reach
        msg == [kind |-> "DTG_REQUEST", token |-> token, f |-> f, to |-> to, reach |-> reach,
                asked |-> Append(req.msg.asked, a)]
        slot == [size |-> Cardinality(owners), wait |-> owners,
                 cost |-> [b \in owners |-> 0], base |-> base,
                 agent |-> req.from, token |-> req.msg.token, depth |-> Len(req.msg.asked)]
    IN [e EXCEPT !.asked = TRUE, !.slots = TakeSlot(@, token, slot),
                 !.out = Append(@, [to |-> owners, msg |-> msg])]

\* hdtgCheckPath: the way from v to f before '?' and what comes after it.
AskedAbout(a, f, v) ==
    LET next == heur[a].path[f].next
        pass == {w \in DOMAIN next : next[w] = QMark(a, f) /\ w # QMark(a, f)}
        way[i \in 0 .. Cardinality(DOMAIN next)] == IF i = 0 THEN v ELSE next[way[i - 1]]
        before == {w \in pass : \E i \in DOMAIN way : way[i] = w}
    IN IF v = QMark(a, f) THEN [f |-> next[v], to |-> NoVal]
       ELSE IF before = {} THEN [f |-> NoVal, to |-> NoVal]
       ELSE [f |-> next[QMark(a, f)], to |-> CHOOSE w \in before : TRUE]

\* Whether an agent is left to ask about it.
CanAsk(a, about, req) == about.f # NoVal /\ SendFindOwners(a, about.f, req) # {}

\* hdtgStepRequest: a way that nobody can be asked about is taken as it is.
StepRequest(e, a, f, v) ==
    LET ask(about) == IF CanAsk(a, about, NoReq)
                      THEN SendRequest(e, a, about.f, about.to, NoReq, 0) ELSE e
    IN Once(AskedAbout(a, f, v), ask)

\* hdtgStepNoPath: from '?', if it leads to f.
StepNoPath(e, a, f) ==
    LET len == heur[a].path[f].len[QMark(a, f)]
    IN IF len = CostMax THEN e ELSE StepRequest([e EXCEPT !.ctx.heur = @ + len], a, f, QMark(a, f))

\* hdtgStep
Step(e, a) ==
    LET i == Farthest(e.ctx)
        goal == e.ctx.goals[i]
        go(x) == IF goal.from = NoVal THEN StepNoPath(x, a, goal.fact)
                 ELSE StepRequest(x, a, goal.fact, goal.from)
    IN Once([e EXCEPT !.ctx = CtxStep(heur[a], @, i)], go)

\* The loop of hdtgHeur and update: until something is asked or no goal is open.
Steps(e, a) ==
    LET go(x) == IF x.asked \/ x.ctx.goals = <<>> THEN x ELSE Step(x, a)
    IN Repeat(problem.size, go, e)

-----------------------------------------------------------------------------
(* Answers *)

\* planMACommSendToNode sends nothing to the agent itself.
Deliver(ch, a, out) == FoldLeft(LAMBDA c, x : Send(c, a, x.to \ {a}, x.msg), ch, out)

\* hdtgSendResponse
Respond(e, b, token, cost, depth) ==
    [e EXCEPT !.out = Append(@, [to |-> {b},
        msg |-> [kind |-> IF depth > 1 THEN "DTG_REQRESPONSE" ELSE "DTG_RESPONSE",
                 token |-> token, cost |-> cost]])]

\* _reqDTG: the value to start from, the nearest one if none is given.
ReqDTG(a, m) ==
    LET len == heur[a].path[m.f].len
        nearest(d) == IF d = CostMax THEN QMark(a, m.f) ELSE Min({v \in m.reach : len[v] = d})
    IN IF m.to # NoVal THEN m.to
       ELSE Once(Min({len[v] : v \in m.reach} \cup {CostMax}), nearest)

\* hdtgRequest: what is out of reach, or in the hands of those who have asked
\* already, costs nothing.
Request(e, a, b, m) ==
    LET len(v) == heur[a].path[m.f].len[v]
        answer(cost) == Respond(e, b, m.token, cost, Len(m.asked))
        req == [from |-> b, msg |-> m]
        go(v, about) == IF about.f = NoVal THEN answer(len(v))
                        ELSE IF CanAsk(a, about, req)
                             THEN SendRequest(e, a, about.f, about.to, req, len(v))
                        ELSE answer(0)
        from(v) == IF len(v) = CostMax THEN answer(0)
                   ELSE Once(AskedAbout(a, m.f, v), LAMBDA about : go(v, about))
    IN Once(ReqDTG(a, m), from)

\* Mutant of AllAnswered: the dearest answer counts.
AllAnsweredDearest(e, a, token, slot) ==
    LET cost == Max({slot.cost[b] : b \in slot.wait}) + slot.base
        free == [e EXCEPT !.slots[token] = FreeSlot]
    IN IF slot.agent = Nobody THEN Steps([free EXCEPT !.ctx.heur = @ + cost], a)
       ELSE Respond(free, slot.agent, slot.token, cost, slot.depth)

\* The end of update, when all have answered: the least cost goes to the
\* estimate, or to who has asked.
AllAnswered(e, a, token, slot) ==
    LET cost == Min({slot.cost[b] : b \in slot.wait}) + slot.base
        free == [e EXCEPT !.slots[token] = FreeSlot]
    IN IF slot.agent = Nobody THEN Steps([free EXCEPT !.ctx.heur = @ + cost], a)
       ELSE Respond(free, slot.agent, slot.token, cost, slot.depth)

\* update
Update(e, a, b, m) ==
    LET slot == [e.slots[m.token] EXCEPT !.cost[b] = m.cost, !.size = @ - 1]
    IN IF slot.size # 0 THEN [e EXCEPT !.slots[m.token] = slot]
       ELSE AllAnswered(e, a, m.token, slot)

-----------------------------------------------------------------------------
(* Steps of an agent *)

Commit(a, e, ch) ==
    /\ ctx' = [ctx EXCEPT ![a] = e.ctx]
    /\ slots' = [slots EXCEPT ![a] = e.slots]
    /\ chan' = Deliver(ch, a, e.out)
    /\ UNCHANGED <<problem, heur>>

\* The evaluation of a goes on or ends with e.
Conclude(a, e, ongoing) ==
    /\ waiting' = [waiting EXCEPT ![a] = ongoing]
    /\ value' = [value EXCEPT ![a] = IF ongoing THEN 0 ELSE e.ctx.heur]

\* hdtgHeur, called by searchMAHeur
Evaluate(a) ==
    /\ ~waiting[a]
    /\ evals[a] < MaxEval
    /\ evals' = [evals EXCEPT ![a] = @ + 1]
    /\ \E s \in problem.states :
       \E e \in {Steps([Local(a) EXCEPT !.ctx = CtxInitStep(heur[a], s, problem.goal)], a)} :
          /\ state' = [state EXCEPT ![a] = s]
          /\ Commit(a, e, chan)
          /\ Conclude(a, e, e.asked)

\* hdtgUpdate: the evaluation ends with the answer after which nothing is asked.
RecvResponse(a, b) ==
    /\ waiting[a]
    /\ chan[b][a] # <<>>
    /\ Head(chan[b][a]).kind = "DTG_RESPONSE"
    /\ \E e \in {Update(Local(a), a, b, Head(chan[b][a]))} :
          /\ Commit(a, e, Consume(chan, b, a))
          /\ Conclude(a, e, e.asked \/ e.slots[Head(chan[b][a]).token].size # 0)
    /\ UNCHANGED <<state, evals>>

\* hdtgRequest, which is also called for the answers to questions of others.
RecvRequest(a, b) ==
    /\ chan[b][a] # <<>>
    /\ LET m == Head(chan[b][a])
       IN /\ m.kind \in {"DTG_REQUEST", "DTG_REQRESPONSE"}
          /\ \E e \in {IF m.kind = "DTG_REQUEST" THEN Request(Local(a), a, b, m)
                       ELSE Update(Local(a), a, b, m)} : Commit(a, e, Consume(chan, b, a))
    /\ UNCHANGED <<state, waiting, value, evals>>

Recv(a, b) == RecvRequest(a, b) \/ RecvResponse(a, b)

Next == \/ \E a \in Askers : Evaluate(a)
        \/ \E a \in Agent : \E b \in Others(a) : Recv(a, b)

Spec == Init /\ [][Next]_vars

\* As long as there is something to do in the cluster, something is done.
Fairness == WF_vars(Next)
FairSpec == Spec /\ Fairness

-----------------------------------------------------------------------------
(* Properties *)

\* A slot waits for as many answers as there are questions of it: each is on its
\* way, or kept in a slot of the agent asked that waits for others, or answered
\* on the way back, and exactly one of these.
Asked(a, b, t) ==
    LET here == {i \in DOMAIN chan[a][b] :
                    chan[a][b][i].kind = "DTG_REQUEST" /\ chan[a][b][i].token = t}
        kept == {i \in DOMAIN slots[b] : slots[b][i].size > 0 /\ slots[b][i].agent = a
                                         /\ slots[b][i].token = t}
        back == {i \in DOMAIN chan[b][a] :
                    chan[b][a][i].kind # "DTG_REQUEST" /\ chan[b][a][i].token = t}
    IN Cardinality(here) + Cardinality(kept) + Cardinality(back)
TokensMatch ==
    \A a \in Agent :
        /\ \A b \in Others(a) : \A t \in 1 .. Len(slots[a]) + 1 :
              Asked(a, b, t) = 0 \/ (t <= Len(slots[a]) /\ slots[a][t].size > 0 /\ Asked(a, b, t) = 1)
        /\ \A t \in DOMAIN slots[a] :
              slots[a][t].size = Cardinality({b \in Others(a) : Asked(a, b, t) = 1})
        /\ waiting[a] = (\E t \in DOMAIN slots[a] : slots[a][t].size > 0 /\ slots[a][t].agent = Nobody)

\* While an agent waits, the distances of its open goals are those of the values
\* it has reached.
CtxFresh == \A a \in Agent : DistancesFresh(heur[a], ctx[a])

\* The reference: what b answers, and what a estimates, when every question is
\* answered before anything else happens.
RECURSIVE AnswerAtOnce(_, _)
AnswerAtOnce(b, m) ==
    LET v == ReqDTG(b, m)
        len == heur[b].path[m.f].len[v]
        about == AskedAbout(b, m.f, v)
        left == IF about.f = NoVal THEN {} ELSE FindOwners(b, about.f) \ ToSet(m.asked)
        next == [f |-> about.f, to |-> about.to, reach |-> m.reach, asked |-> Append(m.asked, b)]
    IN IF len = CostMax \/ (about.f # NoVal /\ left = {}) THEN 0
       ELSE IF about.f = NoVal THEN len ELSE len + Min({AnswerAtOnce(c, next) : c \in left})

EstimateAtOnce(a, s) ==
    LET answered(e) ==
            IF ~e.asked THEN e
            ELSE [e EXCEPT !.asked = FALSE, !.slots = <<>>, !.out = <<>>,
                           !.ctx.heur = @ + Min({AnswerAtOnce(c, e.out[1].msg) : c \in e.out[1].to})]
        go(e) == IF e.ctx.goals = <<>> THEN e ELSE Once(Step(e, a), answered)
        start == [ctx |-> CtxInitStep(heur[a], s, problem.goal), slots |-> <<>>, asked |-> FALSE, out |-> <<>>]
    IN Repeat(problem.size, go, start).ctx.heur

\* The estimate depends on the state alone, not on the order of the answers nor
\* on what else the agents are asked and evaluate in the meantime.
EstimateIsSequential ==
    \A a \in Agent : evals[a] > 0 /\ ~waiting[a] => value[a] = EstimateAtOnce(a, state[a])

\* Every evaluation ends, though who is asked asks others.
QuestionsEnd == \A a \in Agent : waiting[a] ~> ~waiting[a]
=============================================================================
