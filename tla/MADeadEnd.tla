------------------------------ MODULE MADeadEnd ------------------------------
(***************************************************************************)
(* Verification of a global dead end (deadEndVerify and its callbacks,     *)
(* src/ma_search.c): when agent 0 has been blocked on an empty open list   *)
(* for DEAD_END_BLOCK_TIME it starts a snapshot that asks every agent      *)
(* whether it is blocked too, and from the answers decides whether to      *)
(* terminate the cluster.                                                  *)
(*                                                                         *)
(* The search is reduced to the number of states in each open list: a step *)
(* expands one, may put its successors into the list, and may publish the  *)
(* state to everyone.  Nothing bounds how often agent 0 asks, only how many *)
(* verifications it has open at once.                                      *)
(***************************************************************************)
EXTENDS Channels, FiniteSets

CONSTANTS MaxNew,     \* bound on the states generated by expansions
          MaxVerify   \* bound on the verifications in progress at once

Token == 1 .. MaxVerify

Obj == INSTANCE SnapshotObject

VARIABLES pc,         \* "step", "blocked" or "post", as in MATerminate
          blocked,    \* ma->blocked
          open,       \* open[a]: states in a's open list
          chan,
          objs,       \* objs[a]: a's registry, a function from tokens
          generated,  \* states generated so far, for MaxNew
          terminate   \* agent 0 called terminate(): the search is over

vars == <<pc, blocked, open, chan, objs, generated, terminate>>

State == [kind |-> "PUBLIC_STATE"]
SnapMsg(k, t, ack) == [kind |-> k, token |-> t, ack |-> ack]

Object(isInitiator) == [count |-> Obj!NewObject(isInitiator), ack |-> TRUE]

Init == /\ pc = [a \in Agent |-> "step"]
        /\ blocked = [a \in Agent |-> FALSE]
        /\ open = [a \in Agent |-> 1]
        /\ chan = NoMsgs
        /\ objs = [a \in Agent |-> <<>>]
        /\ generated = 0
        /\ terminate = FALSE

-----------------------------------------------------------------------------
\* A step of the search: expand a state, and keep or publish a new one.
Expand(a) ==
    /\ pc[a] = "step" /\ open[a] > 0
    /\ \E kept, published \in {0, 1} :
          /\ generated + kept + published <= MaxNew
          /\ generated' = generated + kept + published
          /\ open' = [open EXCEPT ![a] = @ - 1 + kept]
          /\ chan' = IF published = 1
                     THEN Send(chan, a, Others(a), State) ELSE chan
    /\ pc' = [pc EXCEPT ![a] = "post"]
    /\ UNCHANGED <<blocked, objs, terminate>>

\* The open list is empty.
Block(a) ==
    /\ pc[a] = "step" /\ open[a] = 0
    /\ pc' = [pc EXCEPT ![a] = "blocked"]
    /\ blocked' = [blocked EXCEPT ![a] = TRUE]
    /\ UNCHANGED <<open, chan, objs, generated, terminate>>

InUse(t) == \/ \E a \in Agent : t \in DOMAIN objs[a]
            \/ \E a, b \in Agent : \E i \in 1 .. Len(chan[a][b]) :
                   chan[a][b][i].kind # "PUBLIC_STATE" /\ chan[a][b][i].token = t

\* deadEndVerify: no message came in time.  Tokens are fresh.
BlockTimeout ==
    /\ pc[0] = "blocked"
    /\ \E t \in Token :
          /\ ~InUse(t)
          /\ objs' = [objs EXCEPT ![0] =
                        [u \in DOMAIN @ \cup {t} |->
                            IF u = t THEN Object(TRUE) ELSE @[u]]]
          /\ chan' = Send(chan, 0, Others(0), SnapMsg("INIT", t, FALSE))
    /\ UNCHANGED <<pc, blocked, open, generated, terminate>>

-----------------------------------------------------------------------------
(* processMsg *)

\* publicStateRecv; the objects of a verification ignore public states.
ProcessState(a, b) ==
    /\ Head(chan[b][a]).kind = "PUBLIC_STATE"
    /\ open' = [open EXCEPT ![a] = @ + 1]
    /\ chan' = Consume(chan, b, a)
    /\ UNCHANGED <<objs, terminate>>

Joined(a, t) == IF t \in DOMAIN objs[a] THEN objs[a][t] ELSE Object(FALSE)
\* Mutant: no marks are sent.
MarksNever(a, t, ch) == ch

JoinMarks(a, t, ch) == IF t \in DOMAIN objs[a] THEN ch
                       ELSE Send(ch, a, Others(a), SnapMsg("MARK", t, FALSE))

\* deadEndVerifyInitMsg, -MarkMsg: an agent that takes part acknowledges if
\* it is blocked whenever a mark arrives.  deadEndVerifyResponse: so does the
\* initiator, for every answer.
Acked(a, s, m) ==
    CASE m.kind = "RESPONSE" -> s.ack /\ m.ack /\ blocked[a]
      [] s.count.initiator   -> s.ack
      [] OTHER               -> s.ack /\ blocked[a]

\* deadEndVerifyResponseFinalize
GivesUp(ack) == ~ack

\* The initiator is agent 0, so it is where the answers go.
ProcessSnapshot(a, b) ==
    /\ Head(chan[b][a]).kind \in Obj!SnapKinds
    /\ LET m == Head(chan[b][a])
           t == m.token
           joined == Joined(a, t)
           new == [joined EXCEPT
                     !.count = Obj!Count(joined.count, m.kind, b),
                     !.ack = Acked(a, joined, m)]
           over == Obj!Finished(new.count, m.kind)
           ch   == JoinMarks(a, t, Consume(chan, b, a))
       IN /\ ~Obj!Repeated(joined.count, m.kind, b)
          /\ objs' = [objs EXCEPT ![a] =
                        [u \in (DOMAIN @ \cup {t}) \ (IF over THEN {t} ELSE {})
                            |-> IF u = t THEN new ELSE @[u]]]
          /\ chan' = IF over /\ ~new.count.initiator
                     THEN Send(ch, a, {0}, SnapMsg("RESPONSE", t, new.ack))
                     ELSE ch
          /\ terminate' = (over /\ new.count.initiator /\ GivesUp(new.ack))
    /\ UNCHANGED open

ProcessMsg(a, b) ==
    /\ chan[b][a] # <<>>
    /\ ProcessState(a, b) \/ ProcessSnapshot(a, b)

\* The message that unblocks the agent is processed while blocked is still
\* set; the ones after it are not.
Unblock(a, b) ==
    /\ pc[a] = "blocked"
    /\ ProcessMsg(a, b)
    /\ pc' = [pc EXCEPT ![a] = "post"]
    /\ blocked' = [blocked EXCEPT ![a] = FALSE]
    /\ UNCHANGED generated

Poll(a, b) ==
    /\ pc[a] = "post"
    /\ ProcessMsg(a, b)
    /\ UNCHANGED <<pc, blocked, generated>>

\* The non-blocking receive found nothing.
PostEnds(a) ==
    /\ pc[a] = "post"
    /\ pc' = [pc EXCEPT ![a] = "step"]
    /\ UNCHANGED <<blocked, open, chan, objs, generated, terminate>>

-----------------------------------------------------------------------------
Run(a) == Expand(a) \/ Block(a) \/ PostEnds(a)
Read(a) == \E b \in Others(a) : Unblock(a, b) \/ Poll(a, b)

\* After terminate() the protocol of MATerminate takes over.
Terminated == terminate /\ UNCHANGED vars

Next == \/ /\ ~terminate
           /\ BlockTimeout \/ \E a \in Agent : Run(a) \/ Read(a)
        \/ Terminated

(* Threads run on, messages are read in the end, and agent 0 is not forever  *)
(* interrupted before its timeout while it has a verification to start.     *)
Fairness == /\ \A a \in Agent : /\ WF_vars(~terminate /\ Run(a))
                                /\ SF_vars(~terminate /\ Read(a))
            /\ SF_vars(~terminate /\ BlockTimeout)

Spec == Init /\ [][Next]_vars
FairSpec == Spec /\ Fairness

-----------------------------------------------------------------------------
(* Properties *)

\* Nobody has a state to expand, and none is on its way.
DeadEnd == /\ \A a \in Agent : open[a] = 0
           /\ \A a, b \in Agent : \A i \in 1 .. Len(chan[a][b]) :
                  chan[a][b][i].kind # "PUBLIC_STATE"

\* The verification is of a "global dead end" (src/src/ma_search.c:149, 160):
\* it terminates the cluster only if nobody can continue.
TerminatesAtDeadEndOnly == terminate => DeadEnd

\* Every verification comes to its end, so that agent 0 can ask again.
VerificationsEnd ==
    \A t \in Token : (t \in DOMAIN objs[0]) ~> (t \notin DOMAIN objs[0] \/ terminate)
=============================================================================
