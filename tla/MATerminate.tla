----------------------------- MODULE MATerminate -----------------------------
(***************************************************************************)
(* The termination protocol of the multi-agent search (src/ma_search.c).   *)
(*                                                                         *)
(* An agent that has a complete plan, that gives up, or that was asked to  *)
(* abort sends a REQUEST around the ring of agents.  Several agents may do *)
(* so at once; the request of the least identifier is the only one to come *)
(* back.  Its owner, the "first" agent, then flushes every channel: agents *)
(* send FINAL to all agents ahead of them (up to the first one) and        *)
(* FINAL_ACK to all agents behind them, and leave when FINAL_FIN comes.    *)
(* FINAL from the first agent carries the result everyone returns.         *)
(*                                                                         *)
(* Everything the agents do before that (expanding states, exchanging      *)
(* public states, snapshots, traces of paths, heuristic requests) appears  *)
(* as messages of kind WORK, HEUR_REQUEST and HEUR_UPDATE whose contents   *)
(* do not matter here.  What matters is where in its loop an agent reads   *)
(* messages: between two steps of the search (searchPostStep), while it is *)
(* blocked on an empty open list, and in the middle of a step, while it    *)
(* waits for the other agents' part of a heuristic value (searchMAHeur).   *)
(***************************************************************************)
EXTENDS Channels

CONSTANTS Plan,     \* the plans a completed trace can produce
          Traced,   \* Traced[a]: those that agent a can complete
          NoPlan,   \* the empty path
          Garbage,  \* values malloc may leave in fields of term_t
          MAHeur,   \* whether the heuristic is computed by several agents
          MaxWork   \* bound on messages sent by steps of the search

ASSUME PlanAssumption == NoPlan \notin Plan
ASSUME TracedAssumption == Traced \in [Agent -> SUBSET Plan]
ASSUME GarbageAssumption == Garbage \subseteq Int
ASSUME MAHeurAssumption == MAHeur \in BOOLEAN

NoAgent == N        \* INT_MAX, larger than every identifier

VARIABLES pc,         \* where the agent is in planSearchRun
          terminate,  \* ma->terminate: 0 no, 1 in progress, 2 finished
          res,        \* ma->res
          path,       \* ma->path
          term,       \* ma->term
          chan,       \* chan[a][b]: messages sent by a, not yet read by b
          work        \* messages sent by steps of the search, for MaxWork

vars == <<pc, terminate, res, path, term, chan, work>>

Res == {"FOUND", "NOT_FOUND", "ABORT"}
Kinds == {"WORK", "HEUR_REQUEST", "HEUR_UPDATE",
          "REQUEST", "FINAL", "FINAL_ACK", "FINAL_FIN"}
TermKinds == {"REQUEST", "FINAL", "FINAL_ACK", "FINAL_FIN"}

\* agent: the initiator for REQUEST (terminate_agent), else the sender.
Msg == [kind : Kinds, agent : Agent, res : Res, path : Plan \cup {NoPlan}]

Term == [isInitiator : BOOLEAN, initiator : Agent \cup {NoAgent},
         isFirst : BOOLEAN, isLast : BOOLEAN,
         finals : Int, finalTarget : 0 .. N - 1 \cup Garbage,
         acks   : Int, ackTarget   : 0 .. N - 1 \cup Garbage]

Places == {"step",     \* inside search->step_fn
           "heur",     \* inside searchMAHeur, waiting for a message
           "blocked",  \* in searchPostStep, open list empty
           "post",     \* in searchPostStep, reading messages
           "left"}     \* planMASearchRun returned

-----------------------------------------------------------------------------
(* Agents on the ring, and their messages *)

Succ(a) == IF a = N - 1 THEN 0 ELSE a + 1

\* How far b is ahead of a on the ring.
Dist(a, b) == IF b >= a THEN b - a ELSE b - a + N

\* The k agents ahead of a, and the k agents behind it.
Ahead(a, k)  == {b \in Agent \ {a} : Dist(a, b) <= k}
Behind(a, k) == {b \in Agent \ {a} : Dist(b, a) <= k}

HasMsg(b, a, kinds) == chan[b][a] # <<>> /\ Head(chan[b][a]).kind \in kinds

Plain(k, a) == [kind |-> k, agent |-> a, res |-> "NOT_FOUND", path |-> NoPlan]
Request(a, r, p) == [kind |-> "REQUEST", agent |-> a, res |-> r, path |-> p]
Final(a, r, p)   == [kind |-> "FINAL",   agent |-> a, res |-> r, path |-> p]

-----------------------------------------------------------------------------
Init == /\ pc = [a \in Agent |-> "step"]
        /\ terminate = [a \in Agent |-> 0]
        /\ res = [a \in Agent |-> "NOT_FOUND"]
        /\ path = [a \in Agent |-> NoPlan]
        /\ term \in [Agent -> [isInitiator : {FALSE}, initiator : {NoAgent},
                               isFirst : {g # 0 : g \in Garbage},
                               isLast  : {g # 0 : g \in Garbage},
                               finals  : Garbage, finalTarget : Garbage,
                               acks    : Garbage, ackTarget   : Garbage]]
        /\ chan = NoMsgs
        /\ work = 0

(* terminate(): start the protocol, unless it is already under way.  The   *)
(* request carries the result, but nobody reads it from there.             *)
Terminate(a, r, p, ch) ==
    /\ res'  = [res EXCEPT ![a] = r]
    /\ path' = [path EXCEPT ![a] = p]
    /\ IF terminate[a] # 0
       THEN chan' = ch /\ UNCHANGED <<terminate, term>>
       ELSE /\ chan' = Send(ch, a, {Succ(a)}, Request(a, r, p))
            /\ terminate' = [terminate EXCEPT ![a] = 1]
            /\ term' = [term EXCEPT ![a].isInitiator = TRUE]

(* What makes an agent call terminate(): a path traced completely, a path  *)
(* that cannot be traced, or a verdict on a global dead end.               *)
TraceFound(a, ch)  == \E p \in Traced[a] : Terminate(a, "FOUND", p, ch)
TraceFailed(a, ch) == Terminate(a, "ABORT", path[a], ch)
GiveUp(a, ch)      == Terminate(a, res[a], path[a], ch)

-----------------------------------------------------------------------------
(* Inside a step of the search *)

\* The step sends a message: a public state, a trace, a snapshot mark.
StepSends(a) ==
    /\ pc[a] = "step"
    /\ work < MaxWork
    /\ work' = work + 1
    /\ \E b \in Agent \ {a} : chan' = Send(chan, a, {b}, Plain("WORK", a))
    /\ UNCHANGED <<pc, terminate, res, path, term>>

\* searchReachedGoal, when the path to the goal is this agent's alone or
\* cannot be traced.
StepReachesGoal(a) ==
    /\ pc[a] = "step"
    /\ TraceFound(a, chan) \/ TraceFailed(a, chan)
    /\ UNCHANGED <<pc, work>>

\* searchMAHeur: the heuristic asks another agent; the answer is awaited
\* unless the agent already learnt that the cluster terminates.
StepAsksHeur(a) ==
    /\ MAHeur
    /\ pc[a] = "step"
    /\ work < MaxWork
    /\ work' = work + 1
    /\ \E b \in Agent \ {a} :
          chan' = Send(chan, a, {b}, Plain("HEUR_REQUEST", a))
    /\ pc' = [pc EXCEPT ![a] = IF terminate[a] = 0 THEN "heur" ELSE "step"]
    /\ UNCHANGED <<terminate, res, path, term>>

\* The step is over.  PLAN_SEARCH_FOUND is turned into PLAN_SEARCH_CONT.
StepEnds(a) ==
    /\ pc[a] = "step"
    /\ pc' = [pc EXCEPT ![a] = "post"]
    /\ UNCHANGED <<terminate, res, path, term, chan, work>>

\* The open list is empty: wait for a message.  The list is inspected before
\* the step reads any message, so the termination cannot have begun.
StepFindsNothing(a) ==
    /\ pc[a] = "step"
    /\ terminate[a] = 0
    /\ pc' = [pc EXCEPT ![a] = "blocked"]
    /\ UNCHANGED <<terminate, res, path, term, chan, work>>

\* The abort flag, or the progress callback, ended the step.
StepAborted(a) ==
    /\ pc[a] = "step"
    /\ pc' = [pc EXCEPT ![a] = "post"]
    /\ GiveUp(a, chan)
    /\ UNCHANGED work

\* Waiting for DEAD_END_BLOCK_TIME: agent 0 then starts a verification of
\* the dead end, a snapshot mark to every agent.
BlockTimeout(a) ==
    /\ pc[a] = "blocked"
    /\ IF a = 0 /\ work < MaxWork
       THEN /\ chan' = Send(chan, a, Agent \ {a}, Plain("WORK", a))
            /\ work' = work + 1
       ELSE UNCHANGED <<chan, work>>
    /\ UNCHANGED <<pc, terminate, res, path, term>>

-----------------------------------------------------------------------------
(* Reading messages *)

\* An agent reads wherever it polls or waits for messages.
Reads(a) == pc[a] \in {"heur", "blocked", "post"}

\* Where a reader goes on after a message: a blocked agent proceeds to the
\* polling loop, and one that waits for a heuristic value stops waiting
\* when the termination begins.
AfterMsg(a) ==
    CASE pc[a] = "heur" -> IF terminate'[a] = 0 THEN "heur" ELSE "step"
      [] OTHER          -> "post"

\* processMsg on a message of the search: it may answer or pass something
\* on, complete a path, fail to, or learn about a dead end.
ProcessWork(a, b) ==
    /\ Reads(a) /\ terminate[a] = 0
    /\ HasMsg(b, a, {"WORK"})
    /\ \/ /\ chan' = Consume(chan, b, a)
          /\ UNCHANGED <<terminate, res, path, term, work>>
       \/ /\ work < MaxWork
          /\ work' = work + 1
          /\ \E c \in Agent \ {a} :
                chan' = Send(Consume(chan, b, a), a, {c}, Plain("WORK", a))
          /\ UNCHANGED <<terminate, res, path, term>>
       \/ /\ \/ TraceFound(a, Consume(chan, b, a))
             \/ TraceFailed(a, Consume(chan, b, a))
             \/ GiveUp(a, Consume(chan, b, a))
          /\ UNCHANGED work
    /\ pc' = [pc EXCEPT ![a] = AfterMsg(a)]

\* processMsg on a request of another agent's heuristic: always answered.
ProcessHeurRequest(a, b) ==
    /\ Reads(a) /\ terminate[a] = 0
    /\ HasMsg(b, a, {"HEUR_REQUEST"})
    /\ chan' = Send(Consume(chan, b, a), a, {b}, Plain("HEUR_UPDATE", a))
    /\ pc' = [pc EXCEPT ![a] = AfterMsg(a)]
    /\ UNCHANGED <<terminate, res, path, term, work>>

\* The awaited answer; anywhere else it is reported and dropped.
ProcessHeurUpdate(a, b) ==
    /\ Reads(a) /\ terminate[a] = 0
    /\ HasMsg(b, a, {"HEUR_UPDATE"})
    /\ chan' = Consume(chan, b, a)
    /\ pc' = [pc EXCEPT ![a] = IF pc[a] = "heur" THEN "step" ELSE "post"]
    /\ UNCHANGED <<terminate, res, path, term, work>>

\* The non-blocking receive found nothing: on to the next step.
PostEnds(a) ==
    /\ pc[a] = "post"
    /\ terminate[a] = 0
    /\ pc' = [pc EXCEPT ![a] = "step"]
    /\ UNCHANGED <<terminate, res, path, term, chan, work>>

\* Once the termination is under way everything else is thrown away.
Discard(a, b) ==
    /\ pc[a] = "post"
    /\ terminate[a] = 1
    /\ HasMsg(b, a, Kinds \ TermKinds)
    /\ chan' = Consume(chan, b, a)
    /\ UNCHANGED <<pc, terminate, res, path, term, work>>

-----------------------------------------------------------------------------
(* terminateMsg: the termination messages, read by processMsg (which sets   *)
(* terminate to 1 first) or by the loop that throws the rest away           *)

\* terminatePrepareTargets.
\* Mutant: the first agent counts itself among the others.
TargetsOfFirstLong(t) ==
    [t EXCEPT !.isFirst = TRUE, !.isLast = FALSE,
              !.finals = 0, !.finalTarget = 0,
              !.acks = 0, !.ackTarget = N]

TargetsOfFirst(t) ==
    [t EXCEPT !.isFirst = TRUE, !.isLast = FALSE,
              !.finals = 0, !.finalTarget = 0,
              !.acks = 0, !.ackTarget = N - 1]

TargetsBehind(a, t, init) ==
    [t EXCEPT !.isFirst = FALSE, !.isLast = (Dist(init, a) = N - 1),
              !.finals = 0, !.finalTarget = Dist(init, a),
              !.acks = 0, !.ackTarget = N - 1 - Dist(init, a)]

\* terminateSendFinal (only the first agent attaches the plan) and
\* terminateSendFinalAck; no agent is ahead or behind when the target is 0.
SendFinal(a, t, ch, m) == Send(ch, a, Ahead(a, t.ackTarget), m)

\* Mutant: everybody is told, not only the agents behind.
SendFinalAckToAll(a, t, ch) ==
    Send(ch, a, Agent \ {a}, Plain("FINAL_ACK", a))

SendFinalAck(a, t, ch) ==
    Send(ch, a, Behind(a, t.finalTarget), Plain("FINAL_ACK", a))

ReadsTerm(a, b, k) ==
    /\ Reads(a) /\ terminate[a] \in {0, 1}
    /\ HasMsg(b, a, {k})

\* The end of terminateMsg: t and ch are the agent's fields and the channels
\* after the message was handled.  A counter that meets its target fires
\* once; it is -1 from then on.
Settle(a, t, ch) ==
    LET allFinals == t.finals = t.finalTarget
        allAcks   == t.acks = t.ackTarget
        settled   == [t EXCEPT !.finals = IF allFinals THEN -1 ELSE @,
                               !.acks   = IF allAcks THEN -1 ELSE @]
        fin       == settled.isFirst /\ settled.finals = -1
                                     /\ settled.acks = -1
        afterFinals == IF allFinals /\ t.isLast THEN SendFinalAck(a, t, ch)
                       ELSE IF allFinals /\ ~t.isFirst
                       THEN SendFinal(a, t, ch, Plain("FINAL", a))
                       ELSE ch
        afterAcks   == IF allAcks /\ ~t.isFirst /\ ~t.isLast
                       THEN SendFinalAck(a, t, afterFinals)
                       ELSE afterFinals
    IN /\ term' = [term EXCEPT ![a] = settled]
       /\ terminate' = [terminate EXCEPT ![a] = IF fin THEN 2 ELSE 1]
       /\ chan' = IF fin THEN Send(afterAcks, a, Agent \ {a},
                                   Plain("FINAL_FIN", a))
                  ELSE afterAcks

\* Mutants: initiators pass every request on; they drop every one.
OutranksNobody(a, k) == FALSE
OutranksEverybody(a, k) == term[a].isInitiator

\* An initiator has precedence over agent k.
Outranks(a, k) == term[a].isInitiator /\ k > a

\* An initiator drops the request of a larger one.
DropRequest(a, b) ==
    /\ ReadsTerm(a, b, "REQUEST")
    /\ Head(chan[b][a]).agent # a
    /\ Outranks(a, Head(chan[b][a]).agent)
    /\ chan' = Consume(chan, b, a)
    /\ terminate' = [terminate EXCEPT ![a] = 1]
    /\ pc' = [pc EXCEPT ![a] = AfterMsg(a)]
    /\ UNCHANGED <<res, path, term, work>>

\* Any other request of another agent goes on around the ring; the agent
\* places itself behind the least initiator it has heard of.
ForwardRequest(a, b) ==
    /\ ReadsTerm(a, b, "REQUEST")
    /\ LET m == Head(chan[b][a])
           t == IF m.agent < term[a].initiator
                THEN TargetsBehind(a, [term[a] EXCEPT !.initiator = m.agent],
                                   m.agent)
                ELSE term[a]
       IN /\ m.agent # a
          /\ ~Outranks(a, m.agent)
          /\ Settle(a, t, Send(Consume(chan, b, a), a, {Succ(a)}, m))
    /\ pc' = [pc EXCEPT ![a] = AfterMsg(a)]
    /\ UNCHANGED <<res, path, work>>

\* The agent's own request is back: it is the first agent and starts the
\* flush, sending its result along.
RequestReturns(a, b) ==
    /\ ReadsTerm(a, b, "REQUEST")
    /\ Head(chan[b][a]).agent = a
    /\ LET t == TargetsOfFirst([term[a] EXCEPT !.initiator = a])
       IN Settle(a, t, SendFinal(a, t, Consume(chan, b, a),
                                 Final(a, res[a], path[a])))
    /\ pc' = [pc EXCEPT ![a] = AfterMsg(a)]
    /\ UNCHANGED <<res, path, work>>

\* Mutant: every FINAL is taken for the first agent's.
CarriesAnyResult(a, m) == TRUE

\* Only the least initiator's FINAL carries a result.
CarriesResult(a, m) == m.agent = term[a].initiator

\* FINAL: the first agent's result replaces whatever the agent had.
RecvFinal(a, b) ==
    /\ ReadsTerm(a, b, "FINAL")
    /\ LET m == Head(chan[b][a])
       IN IF CarriesResult(a, m)
          THEN /\ res'  = [res EXCEPT ![a] = m.res]
               /\ path' = [path EXCEPT ![a] = m.path]
          ELSE UNCHANGED <<res, path>>
    /\ Settle(a, [term[a] EXCEPT !.finals = @ + 1], Consume(chan, b, a))
    /\ pc' = [pc EXCEPT ![a] = AfterMsg(a)]
    /\ UNCHANGED work

RecvFinalAck(a, b) ==
    /\ ReadsTerm(a, b, "FINAL_ACK")
    /\ Settle(a, [term[a] EXCEPT !.acks = @ + 1], Consume(chan, b, a))
    /\ pc' = [pc EXCEPT ![a] = AfterMsg(a)]
    /\ UNCHANGED <<res, path, work>>

RecvFinalFin(a, b) ==
    /\ ReadsTerm(a, b, "FINAL_FIN")
    /\ terminate' = [terminate EXCEPT ![a] = 2]
    /\ chan' = Consume(chan, b, a)
    /\ pc' = [pc EXCEPT ![a] = AfterMsg(a)]
    /\ UNCHANGED <<res, path, term, work>>

\* The end of searchPostStep for an agent that finished the protocol: the
\* loop of planSearchRun ends and planMASearchRun returns.
Leave(a) ==
    /\ pc[a] = "post"
    /\ terminate[a] = 2
    /\ res' = [res EXCEPT ![a] = IF @ = "FOUND" THEN "FOUND" ELSE "NOT_FOUND"]
    /\ pc' = [pc EXCEPT ![a] = "left"]
    /\ UNCHANGED <<terminate, path, term, chan, work>>

-----------------------------------------------------------------------------
Step(a) == StepSends(a) \/ StepReachesGoal(a) \/ StepAsksHeur(a)
           \/ StepFindsNothing(a) \/ StepAborted(a)

ReadWork(a) == \E b \in Agent \ {a} :
    ProcessWork(a, b) \/ ProcessHeurRequest(a, b) \/ ProcessHeurUpdate(a, b)
    \/ Discard(a, b)

ReadTerm(a) == \E b \in Agent \ {a} :
    DropRequest(a, b) \/ ForwardRequest(a, b) \/ RequestReturns(a, b)
    \/ RecvFinal(a, b) \/ RecvFinalAck(a, b) \/ RecvFinalFin(a, b)

\* All agents returned: nothing is left to do.
AllLeft == (\A a \in Agent : pc[a] = "left") /\ UNCHANGED vars

Next == \/ \E a \in Agent : \/ Step(a) \/ StepEnds(a) \/ BlockTimeout(a)
                            \/ ReadWork(a) \/ ReadTerm(a)
                            \/ PostEnds(a) \/ Leave(a)
        \/ AllLeft

\* The agent's thread runs on: a step returns, a poll finds nothing, the loop
\* is left.
Proceed(a) == StepEnds(a) \/ PostEnds(a) \/ Leave(a)

(* No thread stands still, and a message in a channel of an agent that      *)
(* polls or waits again and again is read in the end.  Nothing says that an *)
(* agent ever finds a plan, gives up, or asks for a heuristic value.        *)
Fairness == \A a \in Agent : /\ WF_vars(Proceed(a))
                             /\ SF_vars(ReadWork(a) \/ ReadTerm(a))

Spec == Init /\ [][Next]_vars
FairSpec == Spec /\ Fairness

-----------------------------------------------------------------------------
(* Properties *)

\* The variables have the values the C fields can hold; the targets lie
\* between 0 and the number of the other agents once they are computed.
TypeOK ==
    /\ pc \in [Agent -> Places]
    /\ terminate \in [Agent -> 0 .. 2]
    /\ res \in [Agent -> Res]
    /\ path \in [Agent -> Plan \cup {NoPlan}]
    /\ term \in [Agent -> Term]
    /\ chan \in [Agent -> [Agent -> Seq(Msg)]]
    /\ work \in Nat

\* The agent whose request came back.
IsWinner(a) == term[a].isFirst /\ term[a].initiator = a

\* At most one request survives its way around the ring: when an agent's
\* request is back, every other agent has stopped searching and none with a
\* smaller identifier initiated or can still initiate the termination.
LeastInitiatorWins ==
    \A w \in Agent : IsWinner(w) =>
        \A a \in Agent \ {w} : /\ terminate[a] # 0
                              /\ term[a].isInitiator => a > w
                              /\ ~IsWinner(a)

\* What planMASearchRun returns.
Outcome(a) == [found |-> res[a] = "FOUND",
               plan  |-> IF res[a] = "FOUND" THEN path[a] ELSE NoPlan]

\* All agents know the result (src/bin/search.c:843 prints agent 0's): two
\* agents that returned, returned the same outcome, whatever either of them
\* had found before.
Agreement ==
    \A a, b \in Agent : pc[a] = "left" /\ pc[b] = "left" => Outcome(a) = Outcome(b)

\* The flush works: once some agent finished the protocol, nothing but
\* FINAL_FIN is in any channel, so no agent leaves while a public state, an
\* answer, or another termination message is still on its way to somebody.
FlushComplete ==
    (\E a \in Agent : terminate[a] = 2) =>
        \A a, b \in Agent : \A i \in 1 .. Len(chan[a][b]) :
            chan[a][b][i].kind = "FINAL_FIN"

\* The counters of term_t, which planMASearchNew leaves uninitialised, are
\* set up for the winner before the first FINAL or FINAL_ACK reaches the
\* agent, so no counter is compared or incremented while it holds garbage.
CountersReady ==
    \A a, b \in Agent : \A i \in 1 .. Len(chan[b][a]) :
        chan[b][a][i].kind \in {"FINAL", "FINAL_ACK"}
        => term[a].initiator \in Agent /\ IsWinner(term[a].initiator)

\* Once any agent begins the termination every agent returns, also those
\* that are blocked or in the middle of a step.
EveryoneLeaves ==
    (\E a \in Agent : terminate[a] # 0) ~> (\A a \in Agent : pc[a] = "left")

\* The protocol implements AgreeToStop: the verdict is the winner's result.
Running == [running |-> TRUE]
Verdict == IF \E w \in Agent : IsWinner(w)
           THEN Outcome(CHOOSE w \in Agent : IsWinner(w)) ELSE Running
Returned == [a \in Agent |-> IF pc[a] = "left" THEN Outcome(a) ELSE Running]

Agreed == INSTANCE AgreeToStop
    WITH Agents <- Agent, None <- Running,
         Outcomes <- [found : BOOLEAN, plan : Plan \cup {NoPlan}],
         verdict <- Verdict, outcome <- Returned

ImplementsAgreeToStop == Agreed!Spec
=============================================================================
