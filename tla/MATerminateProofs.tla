------------------------- MODULE MATerminateProofs -------------------------
(***************************************************************************)
(* Proofs about the termination protocol, for every number of agents, every *)
(* set of plans, and every content of the uninitialised fields: first the   *)
(* election of the agent that terminates, then the flush: why nothing is in *)
(* transit when the first agent leaves, and why all return what it returns. *)
(***************************************************************************)
EXTENDS MATerminate, FiniteSetTheorems, TLAPS

Chans == [Agent -> [Agent -> Seq(Msg)]]

-----------------------------------------------------------------------------
(* The ring *)

LEMMA RingType ==
    ASSUME NEW a \in Agent, NEW b \in Agent
    PROVE  /\ Succ(a) \in Agent
           /\ Dist(a, b) \in 0 .. N - 1
           /\ Dist(a, b) = 0 <=> a = b
BY SizeAssumption DEF Agent, Succ, Dist

-----------------------------------------------------------------------------
(* Sending and reading keep the channels well-formed *)

LEMMA SendType ==
    ASSUME NEW ch \in Chans, NEW a \in Agent, NEW S, NEW m \in Msg
    PROVE  Send(ch, a, S, m) \in Chans
<1>1. ASSUME NEW p \in Agent, NEW q \in Agent
      PROVE  (IF p = a /\ q \in S THEN Append(ch[p][q], m) ELSE ch[p][q]) \in Seq(Msg)
    BY DEF Chans
<1> QED BY <1>1 DEF Send, Chans

\* Reading keeps the types of the channels, and what is read is a message.
LEMMA ConsumeType ==
    ASSUME NEW ch \in Chans, NEW a \in Agent, NEW b \in Agent, ch[b][a] # <<>>
    PROVE  /\ Consume(ch, b, a) \in Chans
           /\ Head(ch[b][a]) \in Msg
<1>1. ch[b][a] \in Seq(Msg)
    BY DEF Chans
<1>2. Head(ch[b][a]) \in Msg /\ Tail(ch[b][a]) \in Seq(Msg)
    BY <1>1
<1>3. [ch[b] EXCEPT ![a] = Tail(@)] \in [Agent -> Seq(Msg)]
    BY <1>2 DEF Chans
<1> QED BY <1>2, <1>3 DEF Consume, Chans

\* What the agents send are messages.
LEMMA MsgTypes ==
    ASSUME NEW a \in Agent, NEW r \in Res, NEW p \in Plan \cup {NoPlan}
    PROVE  /\ Request(a, r, p) \in Msg
           /\ Final(a, r, p) \in Msg
           /\ \A k \in Kinds : Plain(k, a) \in Msg
BY DEF Request, Final, Plain, Msg, Kinds, Res

\* Sending a message without content keeps the types of the channels.
LEMMA PlainSent ==
    ASSUME NEW ch \in Chans, NEW a \in Agent, NEW S, NEW k \in Kinds
    PROVE  Send(ch, a, S, Plain(k, a)) \in Chans
BY MsgTypes, SendType DEF Res

\* term_t keeps its type when its counters change,
LEMMA CountersType ==
    ASSUME NEW t \in Term, NEW f \in Int, NEW k \in Int
    PROVE  [t EXCEPT !.finals = f, !.acks = k] \in Term
BY DEF Term

\* The end of terminateMsg keeps the types.
LEMMA SettleType ==
    ASSUME TypeOK, NEW a \in Agent, NEW t \in Term, NEW ch \in Chans,
           Settle(a, t, ch)
    PROVE  /\ term' \in [Agent -> Term]
           /\ terminate' \in [Agent -> 0 .. 2]
           /\ chan' \in Chans
<1> DEFINE allFinals == t.finals = t.finalTarget
           allAcks   == t.acks = t.ackTarget
           settled   == [t EXCEPT !.finals = IF allFinals THEN -1 ELSE @,
                                  !.acks   = IF allAcks THEN -1 ELSE @]
           fin       == settled.isFirst /\ settled.finals = -1
                                        /\ settled.acks = -1
           afterFinals == IF allFinals /\ t.isLast THEN SendFinalAck(a, t, ch)
                          ELSE IF allFinals /\ ~t.isFirst
                          THEN SendFinal(a, t, ch, Plain("FINAL", a))
                          ELSE ch
           afterAcks   == IF allAcks /\ ~t.isFirst /\ ~t.isLast
                          THEN SendFinalAck(a, t, afterFinals)
                          ELSE afterFinals
<1>1. settled \in Term
  <2>1. t.finals \in Int /\ t.acks \in Int
    BY DEF Term
  <2>2. (IF allFinals THEN -1 ELSE t.finals) \in Int
        /\ (IF allAcks THEN -1 ELSE t.acks) \in Int
    BY <2>1
  <2> QED BY <2>2, CountersType
<1>2. \A k \in Kinds : Plain(k, a) \in Msg
    BY MsgTypes DEF Res
<1>3. \A c \in Chans : /\ SendFinalAck(a, t, c) \in Chans
                       /\ SendFinal(a, t, c, Plain("FINAL", a)) \in Chans
                       /\ Send(c, a, Agent \ {a}, Plain("FINAL_FIN", a)) \in Chans
    BY <1>2, SendType DEF SendFinal, SendFinalAck, Kinds
<1>4. afterFinals \in Chans
    BY <1>3
<1>5. afterAcks \in Chans
    BY <1>3, <1>4
<1>6. /\ term' = [term EXCEPT ![a] = settled]
      /\ terminate' = [terminate EXCEPT ![a] = IF fin THEN 2 ELSE 1]
      /\ chan' = IF fin THEN Send(afterAcks, a, Agent \ {a}, Plain("FINAL_FIN", a))
                 ELSE afterAcks
    BY DEF Settle
<1>7. chan' \in Chans
    BY <1>3, <1>5, <1>6
<1>8. term' \in [Agent -> Term]
    BY <1>1, <1>6 DEF TypeOK
<1>9. terminate' \in [Agent -> 0 .. 2]
    BY <1>6 DEF TypeOK
<1> QED BY <1>7, <1>8, <1>9

-----------------------------------------------------------------------------
(* Type correctness *)

LEMMA TerminateType ==
    ASSUME TypeOK, NEW a \in Agent, NEW r \in Res, NEW p \in Plan \cup {NoPlan},
           NEW ch \in Chans, Terminate(a, r, p, ch)
    PROVE  /\ res' \in [Agent -> Res]
           /\ path' \in [Agent -> Plan \cup {NoPlan}]
           /\ chan' \in Chans
           /\ terminate' \in [Agent -> 0 .. 2]
           /\ term' \in [Agent -> Term]
<1>1. res' \in [Agent -> Res] /\ path' \in [Agent -> Plan \cup {NoPlan}]
    BY DEF Terminate, TypeOK
<1>2. CASE terminate[a] # 0
    BY <1>1, <1>2 DEF Terminate, TypeOK
<1>3. CASE terminate[a] = 0
  <2>1. /\ chan' = Send(ch, a, {Succ(a)}, Request(a, r, p))
        /\ terminate' = [terminate EXCEPT ![a] = 1]
        /\ term' = [term EXCEPT ![a].isInitiator = TRUE]
    BY <1>3 DEF Terminate
  <2>2. chan' \in Chans
    BY <2>1, MsgTypes, SendType
  <2>3. [term[a] EXCEPT !.isInitiator = TRUE] \in Term
    <3>1. term[a] \in Term
      BY DEF TypeOK
    <3> QED BY <3>1 DEF Term
  <2>4. term' \in [Agent -> Term]
    BY <2>1, <2>3 DEF TypeOK
  <2>5. terminate' \in [Agent -> 0 .. 2]
    BY <2>1 DEF TypeOK
  <2> QED BY <1>1, <2>2, <2>4, <2>5
<1> QED BY <1>2, <1>3

\* The three ways of beginning the termination.
LEMMA BeginType ==
    ASSUME TypeOK, NEW a \in Agent, NEW ch \in Chans,
           TraceFound(a, ch) \/ TraceFailed(a, ch) \/ GiveUp(a, ch)
    PROVE  /\ res' \in [Agent -> Res]
           /\ path' \in [Agent -> Plan \cup {NoPlan}]
           /\ chan' \in Chans
           /\ terminate' \in [Agent -> 0 .. 2]
           /\ term' \in [Agent -> Term]
<1>1. PICK r \in Res, p \in Plan \cup {NoPlan} : Terminate(a, r, p, ch)
    BY TracedAssumption DEF TypeOK, TraceFound, TraceFailed, GiveUp, Res
<1> QED BY <1>1, TerminateType

\* The place after a message was handled is a place.
LEMMA AfterMsgType ==
    ASSUME TypeOK, NEW a \in Agent, pc' = [pc EXCEPT ![a] = AfterMsg(a)]
    PROVE  pc' \in [Agent -> Places]
BY DEF TypeOK, AfterMsg, Places

\* term_t keeps its type when one field is set,
LEMMA FieldType ==
    ASSUME NEW t \in Term
    PROVE  /\ \A f \in BOOLEAN : [t EXCEPT !.isFirst = f] \in Term
           /\ \A f \in BOOLEAN : [t EXCEPT !.isLast = f] \in Term
           /\ [t EXCEPT !.finals = 0] \in Term
           /\ [t EXCEPT !.acks = 0] \in Term
           /\ \A d \in 0 .. N - 1 : [t EXCEPT !.finalTarget = d] \in Term
           /\ \A d \in 0 .. N - 1 : [t EXCEPT !.ackTarget = d] \in Term
BY DEF Term

\* when the targets are computed,
LEMMA TargetsType ==
    ASSUME NEW t \in Term, NEW a \in Agent, NEW k \in Agent
    PROVE  /\ TargetsOfFirst([t EXCEPT !.initiator = a]) \in Term
           /\ TargetsBehind(a, [t EXCEPT !.initiator = k], k) \in Term
<1>1. /\ 0 \in 0 .. N - 1 /\ N - 1 \in 0 .. N - 1
      /\ Dist(k, a) \in 0 .. N - 1 /\ N - 1 - Dist(k, a) \in 0 .. N - 1
    BY SizeAssumption, RingType
<1>2. /\ [t EXCEPT !.initiator = a] \in Term
      /\ [t EXCEPT !.initiator = k] \in Term
    BY DEF Term
<1>3. ASSUME NEW u \in Term, NEW f \in BOOLEAN, NEW l \in BOOLEAN,
             NEW d \in 0 .. N - 1, NEW e \in 0 .. N - 1
      PROVE  [u EXCEPT !.isFirst = f, !.isLast = l, !.finals = 0,
                       !.finalTarget = d, !.acks = 0, !.ackTarget = e] \in Term
  <2> DEFINE u1 == [u EXCEPT !.isFirst = f]
             u2 == [u1 EXCEPT !.isLast = l]
             u3 == [u2 EXCEPT !.finals = 0]
             u4 == [u3 EXCEPT !.finalTarget = d]
             u5 == [u4 EXCEPT !.acks = 0]
             u6 == [u5 EXCEPT !.ackTarget = e]
  <2>1. u1 \in Term
    BY FieldType
  <2>2. u2 \in Term
    BY <2>1, FieldType
  <2>3. u3 \in Term
    BY <2>2, FieldType
  <2>4. u4 \in Term
    BY <2>3, FieldType
  <2>5. u5 \in Term
    BY <2>4, FieldType
  <2>6. u6 \in Term
    BY <2>5, FieldType
  <2> QED BY <2>6
<1> QED BY <1>1, <1>2, <1>3 DEF TargetsOfFirst, TargetsBehind

\* and when a message is counted.
LEMMA CountType ==
    ASSUME NEW t \in Term
    PROVE  /\ [t EXCEPT !.finals = @ + 1] \in Term
           /\ [t EXCEPT !.acks = @ + 1] \in Term
BY DEF Term

\* The fields of plan_ma_search_t and all messages have the values the C types
\* and enumerations allow, whatever was in the fields init leaves alone.
THEOREM TypeCorrect == Spec => []TypeOK
<1>1. Init => TypeOK
  <2> SUFFICES ASSUME Init PROVE TypeOK
    OBVIOUS
  <2>1. term \in [Agent -> Term]
    <3>1. {FALSE} \subseteq BOOLEAN /\ {g # 0 : g \in Garbage} \subseteq BOOLEAN
      OBVIOUS
    <3>2. [isInitiator : {FALSE}, initiator : {NoAgent},
           isFirst : {g # 0 : g \in Garbage}, isLast : {g # 0 : g \in Garbage},
           finals : Garbage, finalTarget : Garbage,
           acks : Garbage, ackTarget : Garbage] \subseteq Term
      BY <3>1, GarbageAssumption DEF Term
    <3> QED BY <3>2 DEF Init
  <2>2. chan \in Chans
    BY DEF Init, NoMsgs, Chans
  <2> QED BY <2>1, <2>2 DEF Init, TypeOK, Chans, Places, Res
<1>2. TypeOK /\ [Next]_vars => TypeOK'
  <2> SUFFICES ASSUME TypeOK, [Next]_vars PROVE TypeOK'
    OBVIOUS
  <2>0. chan \in Chans
    BY DEF TypeOK, Chans
  <2>1. ASSUME NEW a \in Agent, Step(a) \/ StepEnds(a) \/ BlockTimeout(a)
        PROVE  TypeOK'
    <3>1. CASE StepSends(a)
      <4>1. chan' \in Chans
        BY <3>1, <2>0, PlainSent DEF StepSends, Kinds
      <4>2. work' \in Nat
        BY <3>1 DEF StepSends, TypeOK
      <4> QED BY <3>1, <4>1, <4>2 DEF StepSends, TypeOK, Chans
    <3>2. CASE StepReachesGoal(a)
      BY <3>2, <2>0, BeginType DEF StepReachesGoal, TypeOK, Chans
    <3>3. CASE StepAsksHeur(a)
      <4>1. chan' \in Chans
        BY <3>3, <2>0, PlainSent DEF StepAsksHeur, Kinds
      <4>2. work' \in Nat
        BY <3>3 DEF StepAsksHeur, TypeOK
      <4> QED BY <3>3, <4>1, <4>2 DEF StepAsksHeur, TypeOK, Chans, Places
    <3>4. CASE StepFindsNothing(a)
      BY <3>4 DEF StepFindsNothing, TypeOK, Chans, Places
    <3>5. CASE StepAborted(a)
      BY <3>5, <2>0, BeginType DEF StepAborted, TypeOK, Chans, Places
    <3>6. CASE StepEnds(a)
      BY <3>6 DEF StepEnds, TypeOK, Chans, Places
    <3>7. CASE BlockTimeout(a)
      <4>1. chan' \in Chans
        BY <3>7, <2>0, PlainSent DEF BlockTimeout, Kinds
      <4>2. work' \in Nat
        BY <3>7 DEF BlockTimeout, TypeOK
      <4> QED BY <3>7, <4>1, <4>2 DEF BlockTimeout, TypeOK, Chans
    <3> QED BY <2>1, <3>1, <3>2, <3>3, <3>4, <3>5, <3>6, <3>7 DEF Step
  <2>2. ASSUME NEW a \in Agent, ReadWork(a)
        PROVE  TypeOK'
    <3>0. PICK b \in Agent \ {a} :
             ProcessWork(a, b) \/ ProcessHeurRequest(a, b)
             \/ ProcessHeurUpdate(a, b) \/ Discard(a, b)
      BY <2>2 DEF ReadWork
    <3>1. chan[b][a] # <<>> /\ Consume(chan, b, a) \in Chans
      BY <3>0, <2>0, ConsumeType
         DEF ProcessWork, ProcessHeurRequest, ProcessHeurUpdate, Discard, HasMsg
    <3>3. CASE ProcessWork(a, b)
      <4>1. pc' \in [Agent -> Places]
        BY <3>3, AfterMsgType DEF ProcessWork
      <4>2. CASE /\ chan' = Consume(chan, b, a)
                 /\ UNCHANGED <<terminate, res, path, term, work>>
        BY <4>1, <4>2, <3>1 DEF TypeOK, Chans
      <4>3. CASE /\ work' = work + 1
                 /\ \E c \in Agent \ {a} :
                       chan' = Send(Consume(chan, b, a), a, {c}, Plain("WORK", a))
                 /\ UNCHANGED <<terminate, res, path, term>>
        <5>1. chan' \in Chans
          BY <4>3, <3>1, PlainSent DEF Kinds
        <5>2. work' \in Nat
          BY <4>3 DEF TypeOK
        <5> QED BY <4>1, <4>3, <5>1, <5>2 DEF TypeOK, Chans
      <4>4. CASE /\ \/ TraceFound(a, Consume(chan, b, a))
                    \/ TraceFailed(a, Consume(chan, b, a))
                    \/ GiveUp(a, Consume(chan, b, a))
                 /\ UNCHANGED work
        BY <4>1, <4>4, <3>1, BeginType DEF TypeOK, Chans
      <4> QED BY <3>3, <4>2, <4>3, <4>4 DEF ProcessWork
    <3>4. CASE ProcessHeurRequest(a, b)
      <4>1. chan' \in Chans
        BY <3>4, <3>1, PlainSent DEF ProcessHeurRequest, Kinds
      <4> QED BY <3>4, <4>1, AfterMsgType DEF ProcessHeurRequest, TypeOK, Chans
    <3>5. CASE ProcessHeurUpdate(a, b)
      BY <3>5, <3>1 DEF ProcessHeurUpdate, TypeOK, Chans, Places
    <3>6. CASE Discard(a, b)
      BY <3>6, <3>1 DEF Discard, TypeOK, Chans
    <3> QED BY <3>0, <3>3, <3>4, <3>5, <3>6
  <2>3. ASSUME NEW a \in Agent, ReadTerm(a)
        PROVE  TypeOK'
    <3>0. PICK b \in Agent \ {a} :
             DropRequest(a, b) \/ ForwardRequest(a, b) \/ RequestReturns(a, b)
             \/ RecvFinal(a, b) \/ RecvFinalAck(a, b) \/ RecvFinalFin(a, b)
      BY <2>3 DEF ReadTerm
    <3> DEFINE m  == Head(chan[b][a])
               ch == Consume(chan, b, a)
    <3>1. chan[b][a] # <<>> /\ pc' \in [Agent -> Places]
      BY <3>0, AfterMsgType
         DEF DropRequest, ForwardRequest, RequestReturns, RecvFinal, RecvFinalAck,
             RecvFinalFin, ReadsTerm, HasMsg
    <3>2. ch \in Chans /\ m \in Msg
      BY <3>1, <2>0, ConsumeType
    <3>3. /\ m.agent \in Agent /\ m.res \in Res /\ m.path \in Plan \cup {NoPlan}
          /\ term[a] \in Term /\ res[a] \in Res /\ path[a] \in Plan \cup {NoPlan}
      BY <3>2 DEF Msg, TypeOK, Chans
    <3>4. CASE DropRequest(a, b)
      BY <3>1, <3>2, <3>4 DEF DropRequest, TypeOK, Chans
    <3>5. CASE ForwardRequest(a, b)
      <4> DEFINE t == IF m.agent < term[a].initiator
                      THEN TargetsBehind(a, [term[a] EXCEPT !.initiator = m.agent],
                                         m.agent)
                      ELSE term[a]
      <4>1. t \in Term
        BY <3>3, TargetsType
      <4>2. Send(ch, a, {Succ(a)}, m) \in Chans
        BY <3>2, SendType
      <4>3. /\ Settle(a, t, Send(ch, a, {Succ(a)}, m))
            /\ UNCHANGED <<res, path, work>>
        BY <3>5 DEF ForwardRequest
      <4> QED BY <3>1, <4>1, <4>2, <4>3, SettleType DEF TypeOK, Chans
    <3>6. CASE RequestReturns(a, b)
      <4> DEFINE t == TargetsOfFirst([term[a] EXCEPT !.initiator = a])
                 f == Final(a, res[a], path[a])
      <4>1. t \in Term
        BY <3>3, TargetsType
      <4>2. SendFinal(a, t, ch, f) \in Chans
        BY <3>2, <3>3, SendType, MsgTypes DEF SendFinal
      <4>3. /\ Settle(a, t, SendFinal(a, t, ch, f))
            /\ UNCHANGED <<res, path, work>>
        BY <3>6 DEF RequestReturns
      <4> QED BY <3>1, <4>1, <4>2, <4>3, SettleType DEF TypeOK, Chans
    <3>7. CASE RecvFinal(a, b)
      <4>1. /\ res' \in [Agent -> Res] /\ path' \in [Agent -> Plan \cup {NoPlan}]
            /\ work' = work
        BY <3>3, <3>7 DEF RecvFinal, TypeOK, Chans
      <4>2. Settle(a, [term[a] EXCEPT !.finals = @ + 1], ch)
        BY <3>7 DEF RecvFinal
      <4> QED BY <3>1, <3>2, <3>3, <4>1, <4>2, CountType, SettleType DEF TypeOK, Chans
    <3>8. CASE RecvFinalAck(a, b)
      <4>1. /\ Settle(a, [term[a] EXCEPT !.acks = @ + 1], ch)
            /\ UNCHANGED <<res, path, work>>
        BY <3>8 DEF RecvFinalAck
      <4> QED BY <3>1, <3>2, <3>3, <4>1, CountType, SettleType DEF TypeOK, Chans
    <3>9. CASE RecvFinalFin(a, b)
      BY <3>1, <3>2, <3>9 DEF RecvFinalFin, TypeOK, Chans
    <3> QED BY <3>0, <3>4, <3>5, <3>6, <3>7, <3>8, <3>9
  <2>4. ASSUME NEW a \in Agent, PostEnds(a)
        PROVE  TypeOK'
    BY <2>4 DEF PostEnds, TypeOK, Chans, Places
  <2>5. ASSUME NEW a \in Agent, Leave(a)
        PROVE  TypeOK'
    BY <2>5 DEF Leave, TypeOK, Chans, Places, Res
  <2>6. CASE UNCHANGED vars
    BY <2>6 DEF vars, TypeOK, Chans
  <2> QED BY <2>1, <2>2, <2>3, <2>4, <2>5, <2>6 DEF Next, AllLeft
<1> QED BY <1>1, <1>2, PTL DEF Spec

-----------------------------------------------------------------------------
(* Messages in transit *)

InTransit(ch, p, q, m) == \E i \in 1 .. Len(ch[p][q]) : ch[p][q][i] = m

\* In transit after a send is what was, and what was sent.
LEMMA SendTransit ==
    ASSUME NEW ch \in Chans, NEW a \in Agent, NEW S, NEW m \in Msg,
           NEW p \in Agent, NEW q \in Agent, NEW x,
           InTransit(Send(ch, a, S, m), p, q, x)
    PROVE  InTransit(ch, p, q, x) \/ (p = a /\ q \in S /\ x = m)
<1>1. ch[p][q] \in Seq(Msg)
    BY DEF Chans
<1>2. Send(ch, a, S, m)[p][q] = IF p = a /\ q \in S THEN Append(ch[p][q], m)
                                ELSE ch[p][q]
    BY DEF Send
<1>3. CASE p = a /\ q \in S
  <2>1. PICK i \in 1 .. Len(Append(ch[p][q], m)) : Append(ch[p][q], m)[i] = x
    BY <1>2, <1>3 DEF InTransit
  <2>2. CASE i \in 1 .. Len(ch[p][q])
    BY <1>1, <2>1, <2>2 DEF InTransit
  <2>3. CASE i = Len(ch[p][q]) + 1
    BY <1>1, <1>3, <2>1, <2>3
  <2> QED BY <1>1, <2>1, <2>2, <2>3
<1>4. CASE ~(p = a /\ q \in S)
    BY <1>2, <1>4 DEF InTransit
<1> QED BY <1>3, <1>4

\* What is read was in transit; nothing comes into the channels by reading.
LEMMA ConsumeTransit ==
    ASSUME NEW ch \in Chans, NEW a \in Agent, NEW b \in Agent, ch[b][a] # <<>>
    PROVE  /\ InTransit(ch, b, a, Head(ch[b][a]))
           /\ \A p, q \in Agent : \A x :
                 InTransit(Consume(ch, b, a), p, q, x) => InTransit(ch, p, q, x)
<1>1. \A p, q \in Agent : ch[p][q] \in Seq(Msg)
    BY DEF Chans
<1>2. InTransit(ch, b, a, Head(ch[b][a]))
  <2>1. Len(ch[b][a]) >= 1 /\ Head(ch[b][a]) = ch[b][a][1]
    BY <1>1
  <2> QED BY <2>1, <1>1 DEF InTransit
<1>3. ASSUME NEW p \in Agent, NEW q \in Agent, NEW x,
             InTransit(Consume(ch, b, a), p, q, x)
      PROVE  InTransit(ch, p, q, x)
  <2>1. Consume(ch, b, a)[p][q] = IF p = b /\ q = a THEN Tail(ch[b][a]) ELSE ch[p][q]
    BY DEF Consume, Chans
  <2>2. CASE p = b /\ q = a
    <3>1. PICK i \in 1 .. Len(Tail(ch[b][a])) : Tail(ch[b][a])[i] = x
      BY <1>3, <2>1, <2>2 DEF InTransit
    <3>2. i + 1 \in 1 .. Len(ch[b][a]) /\ ch[b][a][i + 1] = x
      BY <1>1, <3>1
    <3> QED BY <2>2, <3>2 DEF InTransit
  <2>3. CASE ~(p = b /\ q = a)
    BY <1>3, <2>1, <2>3 DEF InTransit
  <2> QED BY <2>2, <2>3
<1> QED BY <1>2, <1>3

\* The flush sends no request.
LEMMA SettleTransit ==
    ASSUME TypeOK, NEW a \in Agent, NEW t \in Term, NEW ch \in Chans,
           Settle(a, t, ch), NEW p \in Agent, NEW q \in Agent, NEW x,
           x.kind = "REQUEST", InTransit(chan', p, q, x)
    PROVE  InTransit(ch, p, q, x)
<1> DEFINE allFinals == t.finals = t.finalTarget
           allAcks   == t.acks = t.ackTarget
           settled   == [t EXCEPT !.finals = IF allFinals THEN -1 ELSE @,
                                  !.acks   = IF allAcks THEN -1 ELSE @]
           fin       == settled.isFirst /\ settled.finals = -1
                                        /\ settled.acks = -1
           afterFinals == IF allFinals /\ t.isLast THEN SendFinalAck(a, t, ch)
                          ELSE IF allFinals /\ ~t.isFirst
                          THEN SendFinal(a, t, ch, Plain("FINAL", a))
                          ELSE ch
           afterAcks   == IF allAcks /\ ~t.isFirst /\ ~t.isLast
                          THEN SendFinalAck(a, t, afterFinals)
                          ELSE afterFinals
<1>1. ASSUME NEW c \in Chans, NEW S, NEW k \in Kinds \ {"REQUEST"},
             InTransit(Send(c, a, S, Plain(k, a)), p, q, x)
      PROVE  InTransit(c, p, q, x)
  <2>1. Plain(k, a) \in Msg /\ Plain(k, a).kind # "REQUEST"
    BY MsgTypes DEF Plain, Res
  <2>2. x # Plain(k, a)
    BY <2>1
  <2> QED BY <1>1, <2>1, <2>2, SendTransit
<1>2. \A c \in Chans :
         /\ SendFinalAck(a, t, c) \in Chans
         /\ InTransit(SendFinalAck(a, t, c), p, q, x) => InTransit(c, p, q, x)
    BY <1>1, PlainSent DEF SendFinalAck, Kinds
<1>3. /\ SendFinal(a, t, ch, Plain("FINAL", a)) \in Chans
      /\ InTransit(SendFinal(a, t, ch, Plain("FINAL", a)), p, q, x)
            => InTransit(ch, p, q, x)
    BY <1>1, PlainSent DEF SendFinal, Kinds
<1>4. /\ afterFinals \in Chans
      /\ InTransit(afterFinals, p, q, x) => InTransit(ch, p, q, x)
    BY <1>2, <1>3
<1>5. /\ afterAcks \in Chans
      /\ InTransit(afterAcks, p, q, x) => InTransit(ch, p, q, x)
    BY <1>2, <1>4
<1>6. chan' = IF fin THEN Send(afterAcks, a, Agent \ {a}, Plain("FINAL_FIN", a))
              ELSE afterAcks
    BY DEF Settle
<1> HIDE DEF afterAcks, fin
<1>7. CASE fin
    BY <1>1, <1>5, <1>6, <1>7 DEF Kinds
<1> QED BY <1>5, <1>6, <1>7

-----------------------------------------------------------------------------
(* What a step of agent a can do to the election: its own fields move in    *)
(* one direction only, and the requests it sends are its own first one or   *)
(* one it received and does not outrank                                     *)

SendsOwn(a, m) == m.agent = a /\ term'[a].isInitiator

PassesOn(a, m) ==
    /\ m.agent # a
    /\ ~Outranks(a, m.agent)
    /\ term'[a].isInitiator = term[a].isInitiator
    /\ terminate'[a] # 0
    /\ \E b \in Agent : InTransit(chan, b, a, m)

RequestIsBack(a) ==
    \E b \in Agent, m \in Msg : /\ m.kind = "REQUEST" /\ m.agent = a
                               /\ InTransit(chan, b, a, m)

StepEffect(a) ==
    /\ \A j \in Agent \ {a} : terminate'[j] = terminate[j] /\ term'[j] = term[j]
    /\ terminate[a] # 0 => terminate'[a] # 0
    /\ term[a].isInitiator => term'[a].isInitiator
    /\ term'[a].isInitiator => term[a].isInitiator
                                \/ (terminate[a] = 0 /\ terminate'[a] # 0)
    /\ \A p, q \in Agent : \A m \in Msg :
          m.kind = "REQUEST" /\ InTransit(chan', p, q, m)
          => \/ InTransit(chan, p, q, m)
             \/ p = a /\ q = Succ(a) /\ (SendsOwn(a, m) \/ PassesOn(a, m))
    /\ term'[a].isFirst /\ term'[a].initiator = a => IsWinner(a) \/ RequestIsBack(a)

\* Steps that leave the protocol's fields alone and send no request.
LEMMA PlainEffect ==
    ASSUME TypeOK, NEW a \in Agent, UNCHANGED term,
           \A j \in Agent : terminate'[j] = terminate[j]
                             \/ (j = a /\ terminate'[a] # 0),
           \A p, q \in Agent : \A m \in Msg :
              m.kind = "REQUEST" /\ InTransit(chan', p, q, m) => InTransit(chan, p, q, m)
    PROVE  StepEffect(a)
BY DEF StepEffect, IsWinner

\* Messages of other kinds add no request.
LEMMA PlainSend ==
    ASSUME NEW ch \in Chans, NEW a \in Agent, NEW S, NEW k \in Kinds \ {"REQUEST"},
           NEW p \in Agent, NEW q \in Agent, NEW m,
           m.kind = "REQUEST", InTransit(Send(ch, a, S, Plain(k, a)), p, q, m)
    PROVE  InTransit(ch, p, q, m)
<1>1. Plain(k, a) \in Msg /\ Plain(k, a).kind # "REQUEST"
    BY MsgTypes DEF Plain, Res
<1>2. m # Plain(k, a)
    BY <1>1
<1> QED BY <1>1, <1>2, SendTransit

\* An agent begins to terminate: it sends a request unless it takes part already.
LEMMA BeginEffect ==
    ASSUME TypeOK, NEW a \in Agent, NEW ch \in Chans,
           \A p, q \in Agent : \A m : InTransit(ch, p, q, m) => InTransit(chan, p, q, m),
           TraceFound(a, ch) \/ TraceFailed(a, ch) \/ GiveUp(a, ch)
    PROVE  StepEffect(a)
<1>1. PICK r \in Res, pl \in Plan \cup {NoPlan} : Terminate(a, r, pl, ch)
    BY TracedAssumption DEF TypeOK, TraceFound, TraceFailed, GiveUp, Res
<1>2. CASE terminate[a] # 0
  <2>1. UNCHANGED <<terminate, term>> /\ chan' = ch
    BY <1>1, <1>2 DEF Terminate
  <2> QED BY <2>1, PlainEffect
<1>3. CASE terminate[a] = 0
  <2>1. /\ chan' = Send(ch, a, {Succ(a)}, Request(a, r, pl))
        /\ terminate' = [terminate EXCEPT ![a] = 1]
        /\ term' = [term EXCEPT ![a].isInitiator = TRUE]
    BY <1>1, <1>3 DEF Terminate
  <2>2. /\ terminate'[a] = 1 /\ term'[a].isInitiator
        /\ term'[a].isFirst = term[a].isFirst
        /\ term'[a].initiator = term[a].initiator
        /\ \A j \in Agent \ {a} : terminate'[j] = terminate[j] /\ term'[j] = term[j]
    BY <2>1 DEF TypeOK, Term
  <2>3. ASSUME NEW p \in Agent, NEW q \in Agent, NEW m \in Msg,
               InTransit(chan', p, q, m)
        PROVE  InTransit(chan, p, q, m)
               \/ (p = a /\ q = Succ(a) /\ SendsOwn(a, m))
    <3>1. Request(a, r, pl) \in Msg /\ Request(a, r, pl).agent = a
      BY MsgTypes DEF Request
    <3>2. InTransit(ch, p, q, m)
          \/ (p = a /\ q \in {Succ(a)} /\ m = Request(a, r, pl))
      BY <2>1, <2>3, <3>1, SendTransit
    <3>3. CASE m = Request(a, r, pl)
      <4>1. m.agent = a
        BY <3>1, <3>3
      <4> QED BY <2>2, <3>2, <4>1 DEF SendsOwn
    <3> QED BY <3>2, <3>3
  <2> QED BY <1>3, <2>2, <2>3 DEF StepEffect, IsWinner
<1> QED BY <1>2, <1>3

\* What the end of terminateMsg does to the fields of the election.
LEMMA SettleFields ==
    ASSUME TypeOK, NEW a \in Agent, NEW t \in Term, NEW ch \in Chans,
           Settle(a, t, ch)
    PROVE  /\ \A j \in Agent \ {a} : terminate'[j] = terminate[j] /\ term'[j] = term[j]
           /\ terminate'[a] \in {1, 2}
           /\ term'[a].isInitiator = t.isInitiator
           /\ term'[a].initiator = t.initiator
           /\ term'[a].isFirst = t.isFirst
<1>1. \A f, k \in Int : LET u == [t EXCEPT !.finals = f, !.acks = k]
                        IN /\ u.isInitiator = t.isInitiator
                           /\ u.initiator = t.initiator
                           /\ u.isFirst = t.isFirst
    BY DEF Term
<1> DEFINE settled == [t EXCEPT !.finals = IF t.finals = t.finalTarget THEN -1 ELSE @,
                                !.acks = IF t.acks = t.ackTarget THEN -1 ELSE @]
           fin == settled.isFirst /\ settled.finals = -1 /\ settled.acks = -1
<1>2. term' = [term EXCEPT ![a] = settled]
    BY DEF Settle
<1>3. terminate' = [terminate EXCEPT ![a] = IF fin THEN 2 ELSE 1]
    BY DEF Settle
<1>4. /\ settled.isInitiator = t.isInitiator
      /\ settled.initiator = t.initiator
      /\ settled.isFirst = t.isFirst
  <2>1. t.finals \in Int /\ t.acks \in Int
    BY DEF Term
  <2>2. (IF t.finals = t.finalTarget THEN -1 ELSE t.finals) \in Int
        /\ (IF t.acks = t.ackTarget THEN -1 ELSE t.acks) \in Int
    BY <2>1
  <2> QED BY <1>1, <2>2
<1> HIDE DEF settled, fin
<1> QED BY <1>2, <1>3, <1>4 DEF TypeOK

\* Every step does to requests and initiators what StepEffect says.
LEMMA NextEffect ==
    ASSUME TypeOK, Next
    PROVE  UNCHANGED vars \/ \E a \in Agent : StepEffect(a)
<1>0. chan \in Chans
    BY DEF TypeOK, Chans
<1>1. ASSUME NEW a \in Agent, Step(a) \/ StepEnds(a) \/ BlockTimeout(a)
      PROVE  StepEffect(a)
  <2>1. CASE StepReachesGoal(a)
    BY <2>1, <1>0, BeginEffect DEF StepReachesGoal
  <2>2. CASE StepAborted(a)
    BY <2>2, <1>0, BeginEffect DEF StepAborted
  <2>3. CASE StepSends(a) \/ StepAsksHeur(a) \/ StepFindsNothing(a)
             \/ StepEnds(a) \/ BlockTimeout(a)
    <3>1. UNCHANGED <<terminate, term>>
      BY <2>3 DEF StepSends, StepAsksHeur, StepFindsNothing, StepEnds, BlockTimeout
    <3>2. chan' = chan \/ \E S \in SUBSET Agent, k \in Kinds \ {"REQUEST"} :
                             chan' = Send(chan, a, S, Plain(k, a))
      <4>1. \A b \in Agent : {b} \in SUBSET Agent /\ Agent \ {b} \in SUBSET Agent
        OBVIOUS
      <4>2. "WORK" \in Kinds \ {"REQUEST"} /\ "HEUR_REQUEST" \in Kinds \ {"REQUEST"}
        BY DEF Kinds
      <4> QED BY <2>3, <4>1, <4>2
              DEF StepSends, StepAsksHeur, StepFindsNothing, StepEnds, BlockTimeout
    <3>3. ASSUME NEW p \in Agent, NEW q \in Agent, NEW m \in Msg,
                 m.kind = "REQUEST", InTransit(chan', p, q, m)
          PROVE  InTransit(chan, p, q, m)
      BY <1>0, <3>2, <3>3, PlainSend
    <3> QED BY <3>1, <3>3, PlainEffect
  <2> QED BY <1>1, <2>1, <2>2, <2>3 DEF Step
<1>2. ASSUME NEW a \in Agent, ReadWork(a)
      PROVE  StepEffect(a)
  <2>0. PICK b \in Agent \ {a} :
           ProcessWork(a, b) \/ ProcessHeurRequest(a, b)
           \/ ProcessHeurUpdate(a, b) \/ Discard(a, b)
    BY <1>2 DEF ReadWork
  <2> DEFINE ch == Consume(chan, b, a)
  <2>1. chan[b][a] # <<>>
    BY <2>0 DEF ProcessWork, ProcessHeurRequest, ProcessHeurUpdate, Discard, HasMsg
  <2>2. ch \in Chans /\ \A p, q \in Agent : \A m :
                           InTransit(ch, p, q, m) => InTransit(chan, p, q, m)
    BY <1>0, <2>1, ConsumeType, ConsumeTransit
  <2> HIDE DEF ch
  <2>3. CASE TraceFound(a, ch) \/ TraceFailed(a, ch) \/ GiveUp(a, ch)
    BY <2>2, <2>3, BeginEffect
  <2>4. CASE /\ UNCHANGED <<terminate, term>>
             /\ \/ chan' = ch
                \/ \E c \in Agent, k \in Kinds \ {"REQUEST"} :
                      chan' = Send(ch, a, {c}, Plain(k, a))
    <3>1. ASSUME NEW p \in Agent, NEW q \in Agent, NEW m \in Msg,
                 m.kind = "REQUEST", InTransit(chan', p, q, m)
          PROVE  InTransit(chan, p, q, m)
      <4>1. CASE chan' = ch
        BY <2>2, <3>1, <4>1
      <4>2. ASSUME NEW c \in Agent, NEW k \in Kinds \ {"REQUEST"},
                   chan' = Send(ch, a, {c}, Plain(k, a))
            PROVE  InTransit(chan, p, q, m)
        <5>1. InTransit(ch, p, q, m)
          BY <2>2, <3>1, <4>2, PlainSend
        <5> QED BY <2>2, <5>1
      <4> QED BY <2>4, <4>1, <4>2
    <3> QED BY <2>4, <3>1, PlainEffect
  <2>5. "WORK" \in Kinds \ {"REQUEST"} /\ "HEUR_UPDATE" \in Kinds \ {"REQUEST"}
    BY DEF Kinds
  <2>6. CASE ProcessWork(a, b)
    BY <2>3, <2>4, <2>5, <2>6 DEF ProcessWork, ch
  <2>7. CASE ProcessHeurRequest(a, b) \/ ProcessHeurUpdate(a, b) \/ Discard(a, b)
    BY <2>4, <2>5, <2>7 DEF ProcessHeurRequest, ProcessHeurUpdate, Discard, ch
  <2> QED BY <2>0, <2>6, <2>7
<1>3. ASSUME NEW a \in Agent, ReadTerm(a)
      PROVE  StepEffect(a)
  <2>0. PICK b \in Agent \ {a} :
           DropRequest(a, b) \/ ForwardRequest(a, b) \/ RequestReturns(a, b)
           \/ RecvFinal(a, b) \/ RecvFinalAck(a, b) \/ RecvFinalFin(a, b)
    BY <1>3 DEF ReadTerm
  <2> DEFINE ch == Consume(chan, b, a)
             m0 == Head(chan[b][a])
  <2>1. chan[b][a] # <<>>
    BY <2>0 DEF DropRequest, ForwardRequest, RequestReturns, RecvFinal,
                RecvFinalAck, RecvFinalFin, ReadsTerm, HasMsg
  <2>2. /\ ch \in Chans /\ m0 \in Msg /\ InTransit(chan, b, a, m0)
        /\ \A p, q \in Agent : \A m :
              InTransit(ch, p, q, m) => InTransit(chan, p, q, m)
    BY <1>0, <2>1, ConsumeType, ConsumeTransit
  <2>3. /\ m0.agent \in Agent /\ term[a] \in Term
        /\ res[a] \in Res /\ path[a] \in Plan \cup {NoPlan}
    BY <2>2 DEF Msg, TypeOK
  <2>4. CASE DropRequest(a, b) \/ RecvFinalFin(a, b)
    <3>1. UNCHANGED term /\ chan' = ch
          /\ \A j \in Agent : terminate'[j] = terminate[j] \/ (j = a /\ terminate'[a] # 0)
      BY <2>4 DEF DropRequest, RecvFinalFin, TypeOK
    <3> QED BY <2>2, <3>1, PlainEffect
  \* Counting a FINAL or FINAL_ACK.
  <2>5. ASSUME NEW t \in Term, Settle(a, t, ch), t.isInitiator = term[a].isInitiator,
               t.initiator = term[a].initiator, t.isFirst = term[a].isFirst
        PROVE  StepEffect(a)
    <3>1. \A p, q \in Agent : \A m \in Msg :
             m.kind = "REQUEST" /\ InTransit(chan', p, q, m) => InTransit(chan, p, q, m)
      BY <2>2, <2>5, SettleTransit
    <3> QED BY <2>2, <2>5, <3>1, SettleFields DEF StepEffect, IsWinner
  <2>6. CASE RecvFinal(a, b) \/ RecvFinalAck(a, b)
    <3>1. PICK t \in {[term[a] EXCEPT !.finals = @ + 1], [term[a] EXCEPT !.acks = @ + 1]} :
             Settle(a, t, ch)
      BY <2>6 DEF RecvFinal, RecvFinalAck
    <3>2. /\ t \in Term /\ t.isInitiator = term[a].isInitiator
          /\ t.initiator = term[a].initiator /\ t.isFirst = term[a].isFirst
      BY <2>3, CountType DEF Term
    <3> QED BY <2>5, <3>1, <3>2
  <2>7. CASE ForwardRequest(a, b)
    <3> DEFINE t == IF m0.agent < term[a].initiator
                    THEN TargetsBehind(a, [term[a] EXCEPT !.initiator = m0.agent],
                                       m0.agent)
                    ELSE term[a]
               ch2 == Send(ch, a, {Succ(a)}, m0)
    <3>1. /\ Settle(a, t, ch2) /\ m0.agent # a /\ ~Outranks(a, m0.agent)
      BY <2>7 DEF ForwardRequest
    <3>2. t \in Term /\ ch2 \in Chans
      BY <2>2, <2>3, TargetsType, SendType
    <3>3. /\ t.isInitiator = term[a].isInitiator
          /\ t.isFirst /\ t.initiator = a => IsWinner(a)
      <4>1. CASE m0.agent < term[a].initiator
        <5>1. t = TargetsBehind(a, [term[a] EXCEPT !.initiator = m0.agent], m0.agent)
          BY <4>1
        <5>2. t.isInitiator = term[a].isInitiator /\ ~t.isFirst
          BY <2>3, <5>1 DEF TargetsBehind, Term
        <5> QED BY <5>2
      <4>2. CASE ~(m0.agent < term[a].initiator)
        BY <4>2 DEF IsWinner
      <4> QED BY <4>1, <4>2
    <3> HIDE DEF t
    <3>4. PassesOn(a, m0)
      BY <2>2, <3>1, <3>2, <3>3, SettleFields DEF PassesOn
    <3>5. ASSUME NEW p \in Agent, NEW q \in Agent, NEW m \in Msg,
                 m.kind = "REQUEST", InTransit(chan', p, q, m)
          PROVE  InTransit(chan, p, q, m)
                 \/ (p = a /\ q = Succ(a) /\ PassesOn(a, m))
      <4>1. InTransit(ch2, p, q, m)
        BY <3>1, <3>2, <3>5, SettleTransit
      <4>2. InTransit(ch, p, q, m) \/ (p = a /\ q \in {Succ(a)} /\ m = m0)
        BY <2>2, <4>1, SendTransit
      <4> QED BY <2>2, <3>4, <4>2
    <3> QED BY <3>1, <3>2, <3>3, <3>5, SettleFields DEF StepEffect
  <2>8. CASE RequestReturns(a, b)
    <3> DEFINE t  == TargetsOfFirst([term[a] EXCEPT !.initiator = a])
               f  == Final(a, res[a], path[a])
               ch2 == SendFinal(a, t, ch, f)
    <3>1. Settle(a, t, ch2) /\ m0.agent = a /\ m0.kind = "REQUEST"
      BY <2>8 DEF RequestReturns, ReadsTerm, HasMsg
    <3>2. t \in Term /\ ch2 \in Chans /\ f \in Msg /\ f.kind # "REQUEST"
      BY <2>2, <2>3, TargetsType, SendType, MsgTypes DEF SendFinal, Final
    <3>3. t.isInitiator = term[a].isInitiator
      BY <2>3 DEF TargetsOfFirst, Term
    <3>4. RequestIsBack(a)
      BY <2>2, <3>1 DEF RequestIsBack
    <3>5. ASSUME NEW p \in Agent, NEW q \in Agent, NEW m \in Msg,
                 m.kind = "REQUEST", InTransit(chan', p, q, m)
          PROVE  InTransit(chan, p, q, m)
      <4>1. InTransit(ch2, p, q, m)
        BY <3>1, <3>2, <3>5, SettleTransit
      <4>2. m # f
        BY <3>2, <3>5
      <4> QED BY <2>2, <3>2, <4>1, <4>2, SendTransit DEF SendFinal
    <3> HIDE DEF t
    <3> QED BY <3>1, <3>2, <3>3, <3>4, <3>5, SettleFields DEF StepEffect
  <2> QED BY <2>0, <2>4, <2>6, <2>7, <2>8
<1>4. ASSUME NEW a \in Agent, PostEnds(a) \/ Leave(a)
      PROVE  StepEffect(a)
  <2>1. UNCHANGED <<terminate, term, chan>>
    BY <1>4 DEF PostEnds, Leave
  <2> QED BY <2>1, PlainEffect
<1> QED BY <1>1, <1>2, <1>3, <1>4 DEF Next, AllLeft

-----------------------------------------------------------------------------
(* The least initiator wins *)

\* Agent j cannot stop the request of k any more, nor beat it with its own.
Beaten(k, j) == terminate[j] # 0 /\ (term[j].isInitiator => k < j)

InitiatorsTerminate == \A a \in Agent : term[a].isInitiator => terminate[a] # 0

\* A request in a channel was sent by an initiator, is on its way around the
\* ring, and was passed on by everyone between its initiator and its sender.
RequestsBeat ==
    \A p, q \in Agent : \A m \in Msg :
        m.kind = "REQUEST" /\ InTransit(chan, p, q, m)
        => /\ q = Succ(p)
           /\ term[m.agent].isInitiator
           /\ \A j \in Agent \ {m.agent} :
                 Dist(m.agent, j) <= Dist(m.agent, p) => Beaten(m.agent, j)

WinnerBeatsAll ==
    \A w \in Agent : IsWinner(w) => /\ term[w].isInitiator
                                    /\ \A j \in Agent \ {w} : Beaten(w, j)

Election == InitiatorsTerminate /\ RequestsBeat /\ WinnerBeatsAll

\* One step on the ring adds one to the distance from k, up to N - 1.
LEMMA RingNext ==
    ASSUME NEW k \in Agent, NEW p \in Agent
    PROVE  /\ Succ(p) = k => Dist(k, p) = N - 1
           /\ Succ(p) # k => Dist(k, Succ(p)) = Dist(k, p) + 1
           /\ \A j \in Agent : Dist(k, j) = Dist(k, p) => j = p
BY SizeAssumption DEF Agent, Succ, Dist

\* A step preserves what is known of the election.
LEMMA ElectionStep ==
    ASSUME TypeOK, TypeOK', Election, NEW a \in Agent, StepEffect(a)
    PROVE  Election'
<1>1. InitiatorsTerminate'
    BY DEF Election, InitiatorsTerminate, StepEffect
<1>2. ASSUME NEW k \in Agent, NEW j \in Agent, Beaten(k, j)
      PROVE  Beaten(k, j)'
    BY <1>2 DEF Beaten, StepEffect
<1>3. ASSUME NEW j \in Agent, term[j].isInitiator
      PROVE  term'[j].isInitiator
    BY <1>3 DEF StepEffect
<1>4. RequestsBeat'
  <2> SUFFICES ASSUME NEW p \in Agent, NEW q \in Agent, NEW m \in Msg,
                      m.kind = "REQUEST", InTransit(chan', p, q, m)
               PROVE  /\ q = Succ(p)
                      /\ term'[m.agent].isInitiator
                      /\ \A j \in Agent \ {m.agent} :
                            Dist(m.agent, j) <= Dist(m.agent, p)
                            => Beaten(m.agent, j)'
    BY DEF RequestsBeat
  <2> DEFINE k == m.agent
  <2>0. k \in Agent
    BY DEF Msg
  <2> HIDE DEF k
  <2>1. CASE InTransit(chan, p, q, m)
    <3>1. /\ q = Succ(p)
          /\ term[k].isInitiator
          /\ \A j \in Agent \ {k} : Dist(k, j) <= Dist(k, p) => Beaten(k, j)
      BY <2>1 DEF Election, RequestsBeat, k
    <3> QED BY <2>0, <3>1, <1>2, <1>3 DEF k
  <2>2. CASE p = a /\ q = Succ(a) /\ SendsOwn(a, m)
    <3>1. k = a /\ term'[k].isInitiator
      BY <2>2 DEF SendsOwn, k
    <3>2. \A j \in Agent \ {a} : ~(Dist(a, j) <= Dist(a, a))
      BY RingType
    <3> QED BY <2>2, <3>1, <3>2 DEF k
  <2>3. CASE p = a /\ q = Succ(a) /\ PassesOn(a, m)
    <3>1. PICK b \in Agent : InTransit(chan, b, a, m)
      BY <2>3 DEF PassesOn
    <3>2. /\ a = Succ(b)
          /\ term[k].isInitiator
          /\ \A j \in Agent \ {k} : Dist(k, j) <= Dist(k, b) => Beaten(k, j)
      BY <3>1 DEF Election, RequestsBeat, k
    <3>3. a # k /\ Dist(k, a) = Dist(k, b) + 1
      BY <2>0, <2>3, <3>2, RingNext DEF PassesOn, k
    <3>4. Beaten(k, a)'
      <4>1. terminate'[a] # 0 /\ (term'[a].isInitiator => ~(k > a))
        BY <2>3 DEF PassesOn, Outranks, k
      <4> QED BY <2>0, <3>3, <4>1 DEF Beaten, Agent
    <3>5. ASSUME NEW j \in Agent \ {k}, Dist(k, j) <= Dist(k, a)
          PROVE  Beaten(k, j)'
      <4>1. CASE Dist(k, j) <= Dist(k, b)
        BY <2>0, <3>2, <4>1, <1>2
      <4>2. CASE ~(Dist(k, j) <= Dist(k, b))
        <5>0. Dist(k, j) \in Int /\ Dist(k, b) \in Int
          BY <2>0, SizeAssumption DEF Dist, Agent
        <5>1. Dist(k, j) = Dist(k, a)
          BY <3>3, <3>5, <4>2, <5>0
        <5>2. j = a
          BY <2>0, <5>1, RingNext
        <5> QED BY <3>4, <5>2
      <4> QED BY <4>1, <4>2
    <3> QED BY <2>0, <2>3, <3>2, <3>5, <1>3 DEF k
  <2> QED BY <2>1, <2>2, <2>3 DEF StepEffect
<1>5. WinnerBeatsAll'
  <2> SUFFICES ASSUME NEW w \in Agent, IsWinner(w)'
               PROVE  term'[w].isInitiator /\ \A j \in Agent \ {w} : Beaten(w, j)'
    BY DEF WinnerBeatsAll
  <2>1. CASE IsWinner(w)
    BY <2>1, <1>2, <1>3 DEF Election, WinnerBeatsAll
  <2>2. CASE w = a /\ RequestIsBack(a)
    <3>1. PICK b \in Agent, m \in Msg :
             m.kind = "REQUEST" /\ m.agent = a /\ InTransit(chan, b, a, m)
      BY <2>2 DEF RequestIsBack
    <3>2. /\ a = Succ(b) /\ term[a].isInitiator
          /\ \A j \in Agent \ {a} : Dist(a, j) <= Dist(a, b) => Beaten(a, j)
      BY <3>1 DEF Election, RequestsBeat
    <3>3. \A j \in Agent : Dist(a, j) <= Dist(a, b)
      BY <3>2, RingNext, RingType, SizeAssumption
    <3> QED BY <2>2, <3>2, <3>3, <1>2, <1>3
  <2>3. IsWinner(w) \/ (w = a /\ RequestIsBack(a))
    BY DEF StepEffect, IsWinner
  <2> QED BY <2>1, <2>2, <2>3
<1> QED BY <1>1, <1>4, <1>5 DEF Election

\* The election decides for the least initiator.
LEMMA ElectionDecides ==
    ASSUME TypeOK, Election
    PROVE  LeastInitiatorWins
<1> SUFFICES ASSUME NEW w \in Agent, IsWinner(w), NEW a \in Agent \ {w}
             PROVE  /\ terminate[a] # 0
                    /\ term[a].isInitiator => a > w
                    /\ ~IsWinner(a)
    BY DEF LeastInitiatorWins
<1>1. term[w].isInitiator /\ Beaten(w, a)
    BY DEF Election, WinnerBeatsAll
<1>2. IsWinner(a) => term[a].isInitiator /\ Beaten(a, w)
    BY DEF Election, WinnerBeatsAll
<1> QED BY <1>1, <1>2 DEF Beaten, Agent

\* The election's invariant holds throughout.
LEMMA ElectionAlways == Spec => []Election
<1>1. Init => Election
  <2> SUFFICES ASSUME Init PROVE Election
    OBVIOUS
  <2>1. \A a \in Agent : ~term[a].isInitiator /\ term[a].initiator = NoAgent
    BY DEF Init
  <2>2. \A p, q \in Agent : \A m : ~InTransit(chan, p, q, m)
    BY DEF Init, NoMsgs, InTransit
  <2>3. \A a \in Agent : a # NoAgent
    BY SizeAssumption DEF Agent, NoAgent
  <2> QED BY <2>1, <2>2, <2>3
          DEF Election, InitiatorsTerminate, RequestsBeat, WinnerBeatsAll, IsWinner
<1>2. TypeOK /\ TypeOK' /\ Election /\ [Next]_vars => Election'
  <2> SUFFICES ASSUME TypeOK, TypeOK', Election, [Next]_vars PROVE Election'
    OBVIOUS
  <2>1. CASE UNCHANGED vars
    BY <2>1 DEF vars, Election, InitiatorsTerminate, RequestsBeat, WinnerBeatsAll,
                IsWinner, Beaten
  <2> QED BY <2>1, NextEffect, ElectionStep
<1> QED BY <1>1, <1>2, TypeCorrect, PTL DEF Spec

\* At most one request survives its way around the ring, and it is that of
\* the least initiator, for every number of agents (terminateMsg).
THEOREM LeastInitiatorWinsAlways == Spec => []LeastInitiatorWins
<1>1. TypeOK /\ Election => LeastInitiatorWins
  BY ElectionDecides
<1> QED BY <1>1, TypeCorrect, ElectionAlways, PTL

-----------------------------------------------------------------------------
(* What a channel holds while the flush goes on: messages of the search, then *)
(* the one FINAL or FINAL_ACK its sender sends there, then FINAL_FIN         *)

WorkKinds == {"WORK", "HEUR_REQUEST", "HEUR_UPDATE"}

\* The sender has not flushed the channel: only messages of the search are in it.
Unflushed(s) == \A i \in 1 .. Len(s) : s[i].kind \in WorkKinds

\* Message m, the sender's FINAL or FINAL_ACK, is on its way.
MarkAt(s, i, m) ==
    /\ i \in 1 .. Len(s) /\ s[i] = m
    /\ \A j \in 1 .. Len(s) : /\ j < i => s[j].kind \in WorkKinds
                              /\ j > i => s[j].kind = "FINAL_FIN"
Flushing(s, m) == \E i \in 1 .. Len(s) : MarkAt(s, i, m)

\* It was read.
Flushed(s) == \A i \in 1 .. Len(s) : s[i].kind = "FINAL_FIN"

-----------------------------------------------------------------------------
(* Before a request is back: the election *)

NoWinner == \A a \in Agent : ~IsWinner(a)

RequestAt(ch, p, i, m) ==
    /\ i \in 1 .. Len(ch[p][Succ(p)])
    /\ ch[p][Succ(p)][i] = m
    /\ m.kind = "REQUEST"

\* Position (p2, i2) is behind (p, i) on the way of k's request.
IsBehind(k, p, i, p2, i2) == Dist(k, p2) < Dist(k, p) \/ (p2 = p /\ i2 > i)

\* Requests overtake nobody, so those that come behind are of smaller agents.
OrderedIn(ch) ==
    \A p, p2 \in Agent : \A i, i2 \in Nat : \A m, m2 \in Msg :
        /\ RequestAt(ch, p, i, m) /\ RequestAt(ch, p2, i2, m2)
        /\ IsBehind(m.agent, p, i, p2, i2)
        => m2.agent < m.agent

\* Agents a request has passed know of it.
KnownIn(ch) ==
    \A p \in Agent : \A i \in Nat : \A m \in Msg : RequestAt(ch, p, i, m) =>
        \A j \in Agent \ {m.agent} :
            Dist(m.agent, j) <= Dist(m.agent, p) => term[j].initiator <= m.agent

KindsIn(ch, K) ==
    \A p, q \in Agent : \A i \in 1 .. Len(ch[p][q]) : ch[p][q][i].kind \in K

\* Nothing of the flush happened.
Electing ==
    /\ KindsIn(chan, WorkKinds \cup {"REQUEST"})
    /\ \A a \in Agent :
          /\ terminate[a] # 2 /\ pc[a] # "left"
          /\ term[a].initiator \in Agent =>
                /\ term[a].finals = 0
                /\ term[a].acks = IF term[a].isLast THEN -1 ELSE 0

-----------------------------------------------------------------------------
(* After that: the flush from the winner w *)

\* The agents before and after a, as seen from w.
Before(w, a) == {b \in Agent : Dist(w, b) < Dist(w, a)}
After(w, a)  == {b \in Agent : Dist(w, b) > Dist(w, a)}
IsLastOf(w, a) == Dist(w, a) = N - 1

\* What a sends to the agents ahead, and to those behind: sent when all FINAL
\* messages, and when all FINAL_ACK messages, have come.
SentFinal(a) == term[a].finals = -1
SentAck(w, a) == IF IsLastOf(w, a) THEN term[a].finals = -1 ELSE term[a].acks = -1
HasSent(w, a, b) == IF b \in After(w, a) THEN SentFinal(a) ELSE SentAck(w, a)

Outcome2(r, p) == [found |-> r = "FOUND", plan |-> IF r = "FOUND" THEN p ELSE NoPlan]

\* The message with which a flushes its channel to b.
IsMark(w, a, b, m) ==
    /\ m.agent = a
    /\ m.kind = IF b \in After(w, a) THEN "FINAL" ELSE "FINAL_ACK"
    /\ a = w => Outcome2(m.res, m.path) = Outcome(w)

Shape(w, a, b) ==
    IF HasSent(w, a, b)
    THEN Flushed(chan[a][b]) \/ \E m \in Msg : IsMark(w, a, b, m) /\ Flushing(chan[a][b], m)
    ELSE Unflushed(chan[a][b])

\* b has read the message with which a flushed the channel.
HasRead(w, a, b) == HasSent(w, a, b) /\ Flushed(chan[a][b])

FinalsRead(w, a) == {b \in Before(w, a) : HasRead(w, b, a)}
AcksRead(w, a)   == {b \in After(w, a) : HasRead(w, b, a)}

\* A counter after it was compared with its target.
Counts(c, S, T) == c = IF S = T THEN -1 ELSE Cardinality(S)

FlushFrom(w) ==
    /\ \A a \in Agent : /\ term[a].initiator = w
                        /\ terminate[a] # 0
                        /\ terminate[a] = 2 => terminate[w] = 2
                        /\ Counts(term[a].finals, FinalsRead(w, a), Before(w, a))
                        /\ Counts(term[a].acks, AcksRead(w, a), After(w, a))
                        /\ pc[a] = "step" => \A b \in Agent \ {a} : ~HasRead(w, b, a)
    /\ pc[w] # "step"
    /\ terminate[w] = 2 <=> term[w].acks = -1
    /\ \A a \in Agent : \A b \in Agent \ {a} : Shape(w, a, b)
    /\ \A a, b \in Agent : \A i \in 1 .. Len(chan[a][b]) :
          chan[a][b][i].kind = "FINAL_FIN" => terminate[w] = 2
    /\ \A a \in Agent \ {w} : HasRead(w, w, a) => Outcome(a) = Outcome(w)

\* The targets an agent computed when it heard of its initiator.
Targets ==
    \A a \in Agent : term[a].initiator \in Agent =>
        LET i == term[a].initiator
        IN /\ term[i].isInitiator
           /\ term[a].isFirst <=> i = a
           /\ term[a].isLast <=> IsLastOf(i, a)
           /\ term[a].finalTarget = Dist(i, a)
           /\ term[a].ackTarget = N - 1 - Dist(i, a)

Where ==
    \A a \in Agent : /\ chan[a][a] = <<>>
                     /\ terminate[a] # 0 => pc[a] \in {"step", "post", "left"}
                     /\ pc[a] = "left" => terminate[a] = 2
                     /\ terminate[a] = 0 => term[a].initiator = NoAgent

FlushInv ==
    /\ Where
    /\ Targets
    /\ OrderedIn(chan)
    /\ KnownIn(chan)
    /\ NoWinner => Electing
    /\ \A w \in Agent : IsWinner(w) => FlushFrom(w)

-----------------------------------------------------------------------------
(* The shape of a channel, when its sender appends and its reader reads *)

LEMMA ShapeAppend ==
    ASSUME NEW s \in Seq(Msg), NEW x \in Msg
    PROVE  /\ Unflushed(s) /\ x.kind \in WorkKinds => Unflushed(Append(s, x))
           /\ Unflushed(s) => Flushing(Append(s, x), x)
           /\ Flushed(s) /\ x.kind = "FINAL_FIN" => Flushed(Append(s, x))
           /\ \A m : Flushing(s, m) /\ x.kind = "FINAL_FIN" => Flushing(Append(s, x), m)
<1> DEFINE u == Append(s, x)
<1>1. /\ Len(s) \in Nat /\ Len(u) = Len(s) + 1 /\ u[Len(s) + 1] = x
      /\ \A i \in 1 .. Len(s) : u[i] = s[i]
    OBVIOUS
<1> HIDE DEF u
<1>2. Unflushed(s) /\ x.kind \in WorkKinds => Unflushed(u)
    BY <1>1 DEF Unflushed
<1>3. Unflushed(s) => MarkAt(u, Len(s) + 1, x)
    BY <1>1 DEF Unflushed, MarkAt
<1>4. Flushed(s) /\ x.kind = "FINAL_FIN" => Flushed(u)
    BY <1>1 DEF Flushed
<1>5. ASSUME NEW m, NEW i \in 1 .. Len(s), MarkAt(s, i, m), x.kind = "FINAL_FIN"
      PROVE  i \in 1 .. Len(u) /\ MarkAt(u, i, m)
    BY <1>1, <1>5 DEF MarkAt
<1> QED BY <1>1, <1>2, <1>3, <1>4, <1>5 DEF u, Flushing

\* What is at the head of a channel tells how far the flush is, and reading keeps it.
LEMMA ShapeTail ==
    ASSUME NEW s \in Seq(Msg), s # <<>>
    PROVE  /\ Unflushed(s) => Unflushed(Tail(s)) /\ Head(s).kind \in WorkKinds
           /\ Flushed(s) => Flushed(Tail(s)) /\ Head(s).kind = "FINAL_FIN"
           /\ \A m : Flushing(s, m) =>
                 \/ Head(s).kind \in WorkKinds /\ Flushing(Tail(s), m)
                 \/ Head(s) = m /\ Flushed(Tail(s))
<1> DEFINE u == Tail(s)
<1>1. /\ Len(s) \in Nat /\ Len(s) >= 1 /\ Len(u) = Len(s) - 1 /\ Head(s) = s[1]
      /\ \A i \in 1 .. Len(u) : u[i] = s[i + 1]
    OBVIOUS
<1> HIDE DEF u
<1>2. Unflushed(s) => Unflushed(u) /\ Head(s).kind \in WorkKinds
    BY <1>1 DEF Unflushed
<1>3. Flushed(s) => Flushed(u) /\ Head(s).kind = "FINAL_FIN"
    BY <1>1 DEF Flushed
<1>4. ASSUME NEW m, NEW i \in 1 .. Len(s), MarkAt(s, i, m)
      PROVE  \/ Head(s).kind \in WorkKinds /\ Flushing(u, m)
             \/ Head(s) = m /\ Flushed(u)
  <2>1. CASE i = 1
    BY <1>1, <1>4, <2>1 DEF MarkAt, Flushed
  <2>2. CASE i > 1
    <3>1. i - 1 \in 1 .. Len(u) /\ MarkAt(u, i - 1, m)
      BY <1>1, <1>4, <2>2 DEF MarkAt
    <3>2. Head(s).kind \in WorkKinds
      BY <1>1, <1>4, <2>2 DEF MarkAt
    <3> QED BY <3>1, <3>2 DEF Flushing
  <2> QED BY <2>1, <2>2
<1> QED BY <1>2, <1>3, <1>4 DEF u, Flushing

\* A channel with a mark in it was not flushed, and a search message or a mark
\* is at the head of none that was.
LEMMA ShapeApart ==
    ASSUME NEW s \in Seq(Msg), NEW m \in Msg, m.kind # "FINAL_FIN"
    PROVE  Flushing(s, m) => ~Flushed(s)
BY DEF Flushing, Flushed, MarkAt

\* A channel after a send.
LEMMA SendCell ==
    ASSUME NEW ch, NEW a \in Agent, NEW S, NEW m, NEW p \in Agent, NEW q \in Agent
    PROVE  Send(ch, a, S, m)[p][q] = IF p = a /\ q \in S THEN Append(ch[p][q], m)
                                     ELSE ch[p][q]
BY DEF Send

\* A channel after a read.
LEMMA ConsumeCell ==
    ASSUME NEW ch \in Chans, NEW a \in Agent, NEW b \in Agent,
           NEW p \in Agent, NEW q \in Agent
    PROVE  Consume(ch, b, a)[p][q] = IF p = b /\ q = a THEN Tail(ch[p][q])
                                     ELSE ch[p][q]
BY DEF Chans, Consume

-----------------------------------------------------------------------------
(* How many agents are ahead and behind *)

\* The agents to which terminateSendFinal and terminateSendFinalAck send.
LEMMA Targeted ==
    ASSUME NEW w \in Agent, NEW a \in Agent
    PROVE  /\ Ahead(a, N - 1 - Dist(w, a)) = After(w, a)
           /\ Behind(a, Dist(w, a)) = Before(w, a)
           /\ a \notin After(w, a) /\ a \notin Before(w, a)
           /\ \A b \in Agent \ {a} : b \in After(w, a) <=> b \notin Before(w, a)
           /\ \A b \in Agent : b \in After(w, a) <=> a \in Before(w, b)
           /\ w \notin After(w, a) /\ (w \in Before(w, a) <=> a # w)
           /\ IsLastOf(w, a) => After(w, a) = {} /\ Before(w, a) = Agent \ {a}
           /\ ~IsLastOf(w, a) => After(w, a) # {}
<1>1. /\ \A b \in Agent \ {a} :
            /\ Dist(a, b) <= N - 1 - Dist(w, a) <=> Dist(w, b) > Dist(w, a)
            /\ Dist(b, a) <= Dist(w, a) <=> Dist(w, b) < Dist(w, a)
            /\ Dist(w, b) # Dist(w, a)
      /\ \A b \in Agent : Dist(w, b) \in 0 .. N - 1 /\ (Dist(w, b) = 0 <=> b = w)
    BY SizeAssumption DEF Agent, Dist
<1>2. ~IsLastOf(w, a) => Succ(a) \in After(w, a)
    BY SizeAssumption DEF Agent, Dist, IsLastOf, Succ, After
<1>3. Ahead(a, N - 1 - Dist(w, a)) = After(w, a)
    BY <1>1 DEF Ahead, After
<1>4. Behind(a, Dist(w, a)) = Before(w, a)
    BY <1>1 DEF Behind, Before
<1> QED BY <1>1, <1>2, <1>3, <1>4 DEF Before, After, IsLastOf

\* The agent at some distance from w.
Walk(w, d) == IF w + d < N THEN w + d ELSE w + d - N

\* There are n - m agents at the distances m .. n - 1.
LEMMA CountBetween ==
    ASSUME NEW w \in Agent, NEW m \in 0 .. N, NEW n \in m .. N
    PROVE  /\ IsFiniteSet({b \in Agent : m <= Dist(w, b) /\ Dist(w, b) < n})
           /\ Cardinality({b \in Agent : m <= Dist(w, b) /\ Dist(w, b) < n}) = n - m
<1> DEFINE S == {b \in Agent : m <= Dist(w, b) /\ Dist(w, b) < n}
           f == [d \in m .. n - 1 |-> Walk(w, d)]
<1>1. \A d \in m .. n - 1 : Walk(w, d) \in S
    BY SizeAssumption DEF Agent, Dist, Walk
<1>2. \A d, e \in m .. n - 1 : Walk(w, d) = Walk(w, e) => d = e
    BY SizeAssumption DEF Agent, Walk
<1>3. \A b \in S : Dist(w, b) \in m .. n - 1 /\ Walk(w, Dist(w, b)) = b
    BY SizeAssumption DEF Agent, Dist, Walk
<1> HIDE DEF S
<1>4. f \in Bijection(m .. n - 1, S)
  <2>1. f \in [m .. n - 1 -> S]
    BY <1>1
  <2>2. \A d, e \in m .. n - 1 : f[d] = f[e] => d = e
    BY <1>2
  <2>3. \A b \in S : \E d \in m .. n - 1 : f[d] = b
    BY <1>3
  <2> QED BY <2>1, <2>2, <2>3 DEF Bijection, Injection, Surjection, IsInjective
<1>5. ExistsBijection(m .. n - 1, S)
    BY <1>4 DEF ExistsBijection
<1>6. m \in Int /\ n - 1 \in Int /\ n - m \in Nat /\ n \in Int
    BY SizeAssumption
<1>7. IsFiniteSet(m .. n - 1) /\ Cardinality(m .. n - 1) = n - m
  <2>1. \A e \in Int : /\ IsFiniteSet(m .. e)
                       /\ Cardinality(m .. e) = IF m > e THEN 0 ELSE e - m + 1
    BY <1>6, FS_Interval
  <2>2. /\ IsFiniteSet(m .. n - 1)
        /\ Cardinality(m .. n - 1) = IF m > n - 1 THEN 0 ELSE n - 1 - m + 1
    BY <1>6, <2>1
  <2>3. m <= n
    OBVIOUS
  <2> QED BY <1>6, <2>2, <2>3
<1>8. IsFiniteSet(S) /\ Cardinality(S) = n - m
    BY <1>5, <1>7, FS_Bijection
<1> QED BY <1>8 DEF S

\* The targets are the numbers of agents before and after a.
LEMMA Counted ==
    ASSUME NEW w \in Agent, NEW a \in Agent
    PROVE  /\ IsFiniteSet(Before(w, a)) /\ Cardinality(Before(w, a)) = Dist(w, a)
           /\ IsFiniteSet(After(w, a)) /\ Cardinality(After(w, a)) = N - 1 - Dist(w, a)
<1>1. /\ Dist(w, a) \in 0 .. N - 1 /\ N \in Nat
      /\ \A b \in Agent : Dist(w, b) \in 0 .. N - 1
    BY RingType, SizeAssumption
<1>2. Before(w, a) = {b \in Agent : 0 <= Dist(w, b) /\ Dist(w, b) < Dist(w, a)}
    BY <1>1 DEF Before
<1>3. After(w, a) = {b \in Agent : Dist(w, a) + 1 <= Dist(w, b) /\ Dist(w, b) < N}
    BY <1>1 DEF After
<1>4. /\ 0 \in 0 .. N /\ Dist(w, a) \in 0 .. N
      /\ Dist(w, a) + 1 \in 0 .. N /\ N \in Dist(w, a) + 1 .. N
    BY <1>1
<1>5. IsFiniteSet(Before(w, a)) /\ Cardinality(Before(w, a)) = Dist(w, a) - 0
    BY <1>2, <1>4, CountBetween
<1>6. IsFiniteSet(After(w, a)) /\ Cardinality(After(w, a)) = N - (Dist(w, a) + 1)
    BY <1>3, <1>4, CountBetween
<1> QED BY <1>1, <1>5, <1>6

-----------------------------------------------------------------------------
(* Counters: one that is not -1 has not met its target, one more message may *)
(* make it meet the target, and does so once                                *)

LEMMA CounterSettled ==
    ASSUME NEW T, IsFiniteSet(T), NEW S \in SUBSET T, NEW c, Counts(c, S, T)
    PROVE  /\ c # Cardinality(T)
           /\ c = -1 <=> S = T
<1>1. /\ IsFiniteSet(S) /\ Cardinality(S) <= Cardinality(T)
      /\ Cardinality(S) = Cardinality(T) => S = T
    BY FS_Subset
<1>2. Cardinality(S) \in Nat /\ Cardinality(T) \in Nat
    BY <1>1, FS_CardinalityType
<1> QED BY <1>1, <1>2 DEF Counts

\* A counter meets its target with the last of the messages it counts.
LEMMA CounterRead ==
    ASSUME NEW T, IsFiniteSet(T), NEW S \in SUBSET T, NEW x \in T \ S,
           NEW c, Counts(c, S, T)
    PROVE  /\ c + 1 = Cardinality(T) <=> S \cup {x} = T
           /\ Counts(IF c + 1 = Cardinality(T) THEN -1 ELSE c + 1, S \cup {x}, T)
<1>1. /\ IsFiniteSet(S) /\ IsFiniteSet(S \cup {x})
      /\ Cardinality(S \cup {x}) = Cardinality(S) + 1
      /\ Cardinality(S \cup {x}) = Cardinality(T) => S \cup {x} = T
    <2>1. IsFiniteSet(S)
      BY FS_Subset
    <2>2. IsFiniteSet(S \cup {x}) /\ Cardinality(S \cup {x}) = Cardinality(S) + 1
      BY <2>1, FS_AddElement
    <2> QED BY <2>1, <2>2, FS_Subset
<1>2. c = Cardinality(S)
    BY DEF Counts
<1> QED BY <1>1, <1>2 DEF Counts

\* A target of zero is met at once.
LEMMA CounterStarts ==
    ASSUME NEW T, IsFiniteSet(T)
    PROVE  Counts(IF Cardinality(T) = 0 THEN -1 ELSE 0, {}, T)
BY FS_EmptySet DEF Counts

-----------------------------------------------------------------------------
(* The end of terminateMsg, case by case *)

LEMMA SettleCounters ==
    ASSUME TypeOK, NEW a \in Agent, NEW t \in Term, NEW ch \in Chans,
           Settle(a, t, ch)
    PROVE  /\ term'[a].finals = IF t.finals = t.finalTarget THEN -1 ELSE t.finals
           /\ term'[a].acks = IF t.acks = t.ackTarget THEN -1 ELSE t.acks
           /\ term'[a].isLast = t.isLast
           /\ term'[a].finalTarget = t.finalTarget
           /\ term'[a].ackTarget = t.ackTarget
<1> DEFINE f == IF t.finals = t.finalTarget THEN -1 ELSE t.finals
           k == IF t.acks = t.ackTarget THEN -1 ELSE t.acks
<1>1. term' = [term EXCEPT ![a] = [t EXCEPT !.finals = f, !.acks = k]]
    BY DEF Settle
<1>2. f \in Int /\ k \in Int
    BY DEF Term
<1> HIDE DEF f, k
<1>3. LET u == [t EXCEPT !.finals = f, !.acks = k]
      IN /\ u.finals = f /\ u.acks = k /\ u.isLast = t.isLast
         /\ u.finalTarget = t.finalTarget /\ u.ackTarget = t.ackTarget
    BY <1>2 DEF Term
<1>4. term'[a] = [t EXCEPT !.finals = f, !.acks = k]
    BY <1>1 DEF TypeOK
<1> QED BY <1>3, <1>4 DEF f, k

\* Which messages are sent, and whether the protocol is over for the agent.
LEMMA SettleSends ==
    ASSUME TypeOK, NEW a \in Agent, NEW t \in Term, NEW ch \in Chans,
           Settle(a, t, ch)
    PROVE  LET allFinals == t.finals = t.finalTarget
               allAcks   == t.acks = t.ackTarget
           IN /\ ~t.isFirst => terminate'[a] = 1
              /\ ~t.isFirst /\ ~allFinals /\ ~allAcks => chan' = ch
              /\ ~t.isFirst /\ ~allFinals /\ allAcks =>
                    chan' = IF t.isLast THEN ch ELSE SendFinalAck(a, t, ch)
              /\ ~t.isFirst /\ allFinals /\ ~allAcks =>
                    chan' = IF t.isLast THEN SendFinalAck(a, t, ch)
                            ELSE SendFinal(a, t, ch, Plain("FINAL", a))
              /\ t.isFirst /\ ~t.isLast /\ ~allAcks /\ t.acks # -1 =>
                    chan' = ch /\ terminate'[a] = 1
              /\ t.isFirst /\ ~t.isLast /\ allAcks /\ t.finals = -1 =>
                    /\ chan' = Send(ch, a, Agent \ {a}, Plain("FINAL_FIN", a))
                    /\ terminate'[a] = 2
<1> DEFINE allFinals == t.finals = t.finalTarget
           allAcks   == t.acks = t.ackTarget
           settled   == [t EXCEPT !.finals = IF allFinals THEN -1 ELSE @,
                                  !.acks   = IF allAcks THEN -1 ELSE @]
           fin       == settled.isFirst /\ settled.finals = -1
                                        /\ settled.acks = -1
           afterFinals == IF allFinals /\ t.isLast THEN SendFinalAck(a, t, ch)
                          ELSE IF allFinals /\ ~t.isFirst
                          THEN SendFinal(a, t, ch, Plain("FINAL", a))
                          ELSE ch
           afterAcks   == IF allAcks /\ ~t.isFirst /\ ~t.isLast
                          THEN SendFinalAck(a, t, afterFinals)
                          ELSE afterFinals
<1>1. /\ terminate' = [terminate EXCEPT ![a] = IF fin THEN 2 ELSE 1]
      /\ chan' = IF fin THEN Send(afterAcks, a, Agent \ {a}, Plain("FINAL_FIN", a))
                 ELSE afterAcks
    BY DEF Settle
<1>2. terminate'[a] = IF fin THEN 2 ELSE 1
    BY <1>1 DEF TypeOK
<1>3. /\ settled.isFirst = t.isFirst
      /\ settled.finals = IF allFinals THEN -1 ELSE t.finals
      /\ settled.acks = IF allAcks THEN -1 ELSE t.acks
  <2>1. ASSUME NEW f \in Int, NEW k \in Int
        PROVE  LET u == [t EXCEPT !.finals = f, !.acks = k]
               IN u.isFirst = t.isFirst /\ u.finals = f /\ u.acks = k
    BY DEF Term
  <2>2. t.finals \in Int /\ t.acks \in Int
    BY DEF Term
  <2> QED BY <2>1, <2>2
<1>4. t.isFirst \in BOOLEAN /\ t.isLast \in BOOLEAN
    BY DEF Term
<1>5. fin <=> /\ t.isFirst
              /\ (IF allFinals THEN -1 ELSE t.finals) = -1
              /\ (IF allAcks THEN -1 ELSE t.acks) = -1
    BY <1>3, <1>4
<1> HIDE DEF fin, settled
<1>6. CASE ~t.isFirst
    BY <1>1, <1>2, <1>4, <1>5, <1>6
<1>7. CASE t.isFirst /\ ~t.isLast
    BY <1>1, <1>2, <1>4, <1>5, <1>7
<1> QED BY <1>4, <1>6, <1>7

-----------------------------------------------------------------------------
(* Steps of the search, and messages of the search that are read            *)

\* The channels after a read a message of the search, or none.
SearchReads(a, ch) ==
    \/ ch = chan
    \/ \E b \in Agent \ {a} : /\ chan[b][a] # <<>>
                              /\ Head(chan[b][a]).kind \in WorkKinds
                              /\ ch = Consume(chan, b, a)

SearchSends(a, ch) ==
    \/ chan' = ch
    \/ \E S \in SUBSET (Agent \ {a}) : \E k \in WorkKinds :
          chan' = Send(ch, a, S, Plain(k, a))

\* Agent a sends its request: only now, if ever.
Begins(a, ch) ==
    /\ terminate[a] = 0
    /\ terminate' = [terminate EXCEPT ![a] = 1]
    /\ term' = [term EXCEPT ![a].isInitiator = TRUE]
    /\ \E r \in Res : \E p \in Plan \cup {NoPlan} :
          chan' = Send(ch, a, {Succ(a)}, Request(a, r, p))

SearchMove(a) ==
    /\ \A j \in Agent \ {a} : pc'[j] = pc[j] /\ res'[j] = res[j] /\ path'[j] = path[j]
    /\ pc'[a] # "left"
    /\ terminate'[a] # 0 => pc'[a] \in {"step", "post"}
    /\ \E ch : /\ SearchReads(a, ch)
               /\ \/ Begins(a, ch)
                  \/ SearchSends(a, ch) /\ UNCHANGED <<terminate, term>>
    /\ terminate[a] # 0 =>
          /\ UNCHANGED <<terminate, term>>
          /\ \/ pc[a] = "step" /\ SearchSends(a, chan)
             \/ /\ pc[a] = "post" /\ UNCHANGED <<pc, res, path>>
                /\ SearchReads(a, chan')

\* Readers and searchers, before and after the termination begins.
LEMMA Begun ==
    ASSUME TypeOK, NEW a \in Agent, NEW ch,
           TraceFound(a, ch) \/ TraceFailed(a, ch) \/ GiveUp(a, ch)
    PROVE  /\ \A j \in Agent \ {a} : res'[j] = res[j] /\ path'[j] = path[j]
           /\ \/ Begins(a, ch) /\ terminate'[a] = 1
              \/ /\ terminate[a] # 0 /\ chan' = ch
                 /\ UNCHANGED <<terminate, term>>
<1>1. PICK r \in Res, p \in Plan \cup {NoPlan} : Terminate(a, r, p, ch)
    BY TracedAssumption DEF TypeOK, TraceFound, TraceFailed, GiveUp, Res
<1>2. \A j \in Agent \ {a} : res'[j] = res[j] /\ path'[j] = path[j]
    BY <1>1 DEF Terminate, TypeOK
<1>3. CASE terminate[a] # 0
    BY <1>1, <1>2, <1>3 DEF Terminate
<1>4. CASE terminate[a] = 0
  <2>1. /\ chan' = Send(ch, a, {Succ(a)}, Request(a, r, p))
        /\ terminate' = [terminate EXCEPT ![a] = 1]
        /\ term' = [term EXCEPT ![a].isInitiator = TRUE]
    BY <1>1, <1>4 DEF Terminate
  <2>2. terminate'[a] = 1
    BY <2>1 DEF TypeOK
  <2> QED BY <1>2, <1>4, <2>1, <2>2 DEF Begins
<1> QED BY <1>3, <1>4

\* A step of the search is a SearchMove,
LEMMA StepMoves ==
    ASSUME TypeOK, Where, NEW a \in Agent, Step(a) \/ StepEnds(a) \/ BlockTimeout(a)
    PROVE  SearchMove(a)
<1>0. \A b \in Agent \ {a} : {b} \in SUBSET (Agent \ {a})
    OBVIOUS
<1>1. CASE StepSends(a) \/ StepAsksHeur(a)
  <2>1. /\ \A j \in Agent \ {a} : pc'[j] = pc[j]
        /\ pc'[a] \in {"step", "heur"} /\ (terminate[a] # 0 => pc'[a] = "step")
        /\ pc[a] = "step" /\ UNCHANGED <<terminate, res, path, term>>
    BY <1>1 DEF StepSends, StepAsksHeur, TypeOK
  <2>2. SearchSends(a, chan)
    BY <1>0, <1>1 DEF StepSends, StepAsksHeur, SearchSends, WorkKinds
  <2> QED BY <2>1, <2>2 DEF SearchMove, SearchReads
<1>2. CASE StepReachesGoal(a) \/ StepAborted(a)
  <2>1. /\ pc[a] = "step" /\ pc'[a] \in {"step", "post"}
        /\ \A j \in Agent \ {a} : pc'[j] = pc[j]
        /\ TraceFound(a, chan) \/ TraceFailed(a, chan) \/ GiveUp(a, chan)
    BY <1>2 DEF StepReachesGoal, StepAborted, TypeOK
  <2>2. /\ \A j \in Agent \ {a} : res'[j] = res[j] /\ path'[j] = path[j]
        /\ \/ Begins(a, chan) /\ terminate'[a] = 1
           \/ /\ terminate[a] # 0 /\ chan' = chan
              /\ UNCHANGED <<terminate, term>>
    BY <2>1, Begun
  <2>3. Begins(a, chan) => terminate[a] = 0
    BY DEF Begins
  <2> QED BY <2>1, <2>2, <2>3 DEF SearchMove, SearchReads, SearchSends
<1>3. CASE StepEnds(a) \/ StepFindsNothing(a)
  <2>1. /\ \A j \in Agent \ {a} : pc'[j] = pc[j]
        /\ pc'[a] \in {"post", "blocked"} /\ (terminate[a] # 0 => pc'[a] = "post")
        /\ pc[a] = "step" /\ UNCHANGED <<terminate, res, path, term, chan>>
    BY <1>3 DEF StepEnds, StepFindsNothing, TypeOK
  <2> QED BY <2>1 DEF SearchMove, SearchReads, SearchSends
<1>4. CASE BlockTimeout(a)
  <2>1. /\ pc[a] = "blocked" /\ terminate[a] = 0
        /\ UNCHANGED <<pc, terminate, res, path, term>>
    BY <1>4 DEF BlockTimeout, Where
  <2>2. SearchSends(a, chan)
    BY <1>4 DEF BlockTimeout, SearchSends, WorkKinds
  <2> QED BY <2>1, <2>2 DEF SearchMove, SearchReads
<1> QED BY <1>1, <1>2, <1>3, <1>4 DEF Step

\* so is what reads a message of the search,
LEMMA ReadMoves ==
    ASSUME TypeOK, Where, NEW a \in Agent, ReadWork(a) \/ PostEnds(a)
    PROVE  SearchMove(a)
<1>1. CASE PostEnds(a)
  <2>1. /\ \A j \in Agent \ {a} : pc'[j] = pc[j]
        /\ pc'[a] = "step" /\ terminate[a] = 0
        /\ UNCHANGED <<terminate, res, path, term, chan>>
    BY <1>1 DEF PostEnds, TypeOK
  <2> QED BY <2>1 DEF SearchMove, SearchReads, SearchSends
<1>2. ASSUME NEW b \in Agent \ {a},
             ProcessWork(a, b) \/ ProcessHeurRequest(a, b)
             \/ ProcessHeurUpdate(a, b) \/ Discard(a, b)
      PROVE  SearchMove(a)
  <2> DEFINE ch == Consume(chan, b, a)
  <2>0. SearchReads(a, ch)
    <3>1. chan[b][a] # <<>> /\ Head(chan[b][a]).kind \in WorkKinds
      BY <1>2 DEF ProcessWork, ProcessHeurRequest, ProcessHeurUpdate, Discard,
                  HasMsg, WorkKinds, Kinds, TermKinds
    <3> QED BY <3>1 DEF SearchReads
  <2> HIDE DEF ch
  <2>1. CASE Discard(a, b)
    <3>1. pc[a] = "post" /\ chan' = ch /\ UNCHANGED <<pc, terminate, res, path, term>>
      BY <2>1 DEF Discard, ch
    <3> QED BY <2>0, <3>1 DEF SearchMove, SearchSends
  <2>2. ASSUME terminate[a] = 0, pc' = [pc EXCEPT ![a] = AfterMsg(a)],
               \A j \in Agent \ {a} : res'[j] = res[j] /\ path'[j] = path[j],
               \/ Begins(a, ch)
               \/ SearchSends(a, ch) /\ UNCHANGED <<terminate, term>>
        PROVE  SearchMove(a)
    <3>1. /\ \A j \in Agent \ {a} : pc'[j] = pc[j]
          /\ pc'[a] # "left" /\ (terminate'[a] # 0 => pc'[a] \in {"step", "post"})
      BY <2>2 DEF TypeOK, AfterMsg
    <3> QED BY <2>0, <2>2, <3>1 DEF SearchMove
  <2>3. CASE ProcessWork(a, b)
    <3>1. terminate[a] = 0 /\ pc' = [pc EXCEPT ![a] = AfterMsg(a)]
      BY <2>3 DEF ProcessWork
    <3>2. CASE TraceFound(a, ch) \/ TraceFailed(a, ch) \/ GiveUp(a, ch)
      BY <2>2, <3>1, <3>2, Begun
    <3>3. CASE /\ UNCHANGED <<terminate, res, path, term>>
               /\ \/ chan' = ch
                  \/ \E c \in Agent \ {a} : chan' = Send(ch, a, {c}, Plain("WORK", a))
      <4>1. SearchSends(a, ch)
        BY <3>3 DEF SearchSends, WorkKinds
      <4> QED BY <2>2, <3>1, <3>3, <4>1
    <3> QED BY <2>3, <3>2, <3>3 DEF ProcessWork, ch
  <2>4. CASE ProcessHeurRequest(a, b)
    <3>1. /\ terminate[a] = 0 /\ pc' = [pc EXCEPT ![a] = AfterMsg(a)]
          /\ UNCHANGED <<terminate, res, path, term>>
          /\ chan' = Send(ch, a, {b}, Plain("HEUR_UPDATE", a))
      BY <2>4 DEF ProcessHeurRequest, ch
    <3>2. SearchSends(a, ch)
      BY <3>1 DEF SearchSends, WorkKinds
    <3> QED BY <2>2, <3>1, <3>2
  <2>5. CASE ProcessHeurUpdate(a, b)
    <3>1. /\ terminate[a] = 0 /\ pc'[a] \in {"step", "post"} /\ chan' = ch
          /\ \A j \in Agent \ {a} : pc'[j] = pc[j]
          /\ UNCHANGED <<terminate, res, path, term>>
      BY <2>5 DEF ProcessHeurUpdate, ch, TypeOK
    <3> QED BY <2>0, <3>1 DEF SearchMove, SearchSends
  <2> QED BY <1>2, <2>1, <2>3, <2>4, <2>5
<1> QED BY <1>1, <1>2 DEF ReadWork

\* and every other step reads a termination message or leaves.
LEMMA NextMoves ==
    ASSUME TypeOK, Where, Next
    PROVE  \/ UNCHANGED vars
           \/ \E a \in Agent : SearchMove(a) \/ ReadTerm(a) \/ Leave(a)
BY StepMoves, ReadMoves DEF Next, AllLeft

-----------------------------------------------------------------------------
(* The order of requests *)

\* The channels after a message was read, or not.
Reading(ch) == \/ ch = chan
               \/ \E a, b \in Agent : chan[b][a] # <<>> /\ ch = Consume(chan, b, a)

\* Reading moves the messages of a channel by one place at most.
LEMMA ReadAt ==
    ASSUME TypeOK, NEW ch, Reading(ch)
    PROVE  /\ ch \in Chans
           /\ \E d \in [Agent -> 0 .. 1] : \A p \in Agent : \A i \in Nat : \A m :
                 RequestAt(ch, p, i, m) => RequestAt(chan, p, i + d[p], m)
<1>0. chan \in Chans
    BY DEF TypeOK, Chans
<1>1. CASE ch = chan
  <2>1. [p \in Agent |-> 0] \in [Agent -> 0 .. 1]
    OBVIOUS
  <2>2. \A p \in Agent : \A i \in Nat : i + [q \in Agent |-> 0][p] = i
    OBVIOUS
  <2> QED BY <1>0, <1>1, <2>1, <2>2
<1>2. ASSUME NEW a \in Agent, NEW b \in Agent, chan[b][a] # <<>>,
             ch = Consume(chan, b, a)
      PROVE  /\ ch \in Chans
             /\ \E d \in [Agent -> 0 .. 1] : \A p \in Agent : \A i \in Nat : \A m :
                   RequestAt(ch, p, i, m) => RequestAt(chan, p, i + d[p], m)
  <2> DEFINE d == [p \in Agent |-> IF p = b /\ Succ(p) = a THEN 1 ELSE 0]
  <2>1. d \in [Agent -> 0 .. 1]
    OBVIOUS
  <2>2. ASSUME NEW p \in Agent, NEW i \in Nat, NEW m, RequestAt(ch, p, i, m)
        PROVE  RequestAt(chan, p, i + d[p], m)
    <3>1. Succ(p) \in Agent /\ chan[p][Succ(p)] \in Seq(Msg)
      BY <1>0, RingType DEF Chans
    <3>2. ch[p][Succ(p)] = IF p = b /\ Succ(p) = a THEN Tail(chan[p][Succ(p)])
                           ELSE chan[p][Succ(p)]
      BY <1>0, <1>2, <3>1, ConsumeCell
    <3>3. CASE p = b /\ Succ(p) = a
      <4>1. Len(Tail(chan[p][Succ(p)])) = Len(chan[p][Succ(p)]) - 1
            /\ i \in 1 .. Len(Tail(chan[p][Succ(p)]))
            /\ Tail(chan[p][Succ(p)])[i] = chan[p][Succ(p)][i + 1]
        BY <1>2, <2>2, <3>1, <3>2, <3>3 DEF RequestAt
      <4>2. d[p] = 1
        BY <3>3
      <4> QED BY <2>2, <3>1, <3>2, <3>3, <4>1, <4>2 DEF RequestAt
    <3>4. CASE ~(p = b /\ Succ(p) = a)
      <4>1. d[p] = 0
        BY <3>4
      <4> QED BY <2>2, <3>2, <3>4, <4>1 DEF RequestAt
    <3> QED BY <3>3, <3>4
  <2> QED BY <1>0, <1>2, <2>1, <2>2, ConsumeType
<1> QED BY <1>1, <1>2 DEF Reading

\* Reading keeps the order of the requests,
LEMMA OrderedRead ==
    ASSUME TypeOK, NEW ch, Reading(ch), OrderedIn(chan), KnownIn(chan)
    PROVE  OrderedIn(ch) /\ KnownIn(ch)
<1>1. PICK d \in [Agent -> 0 .. 1] : \A p \in Agent : \A i \in Nat : \A m :
                 RequestAt(ch, p, i, m) => RequestAt(chan, p, i + d[p], m)
    BY ReadAt
<1>2. \A p \in Agent : \A i \in Nat : i + d[p] \in Nat
    OBVIOUS
<1>3. ASSUME NEW p \in Agent, NEW p2 \in Agent, NEW i \in Nat, NEW i2 \in Nat,
             NEW m \in Msg, NEW m2 \in Msg,
             RequestAt(ch, p, i, m), RequestAt(ch, p2, i2, m2),
             IsBehind(m.agent, p, i, p2, i2)
      PROVE  m2.agent < m.agent
  <2>1. IsBehind(m.agent, p, i + d[p], p2, i2 + d[p2])
    BY <1>3 DEF IsBehind
  <2> QED BY <1>1, <1>2, <1>3, <2>1 DEF OrderedIn
<1>4. OrderedIn(ch)
    BY <1>3 DEF OrderedIn
<1>5. KnownIn(ch)
    BY <1>1, <1>2 DEF KnownIn
<1> QED BY <1>4, <1>5

\* A message at the end of a channel.
LEMMA AppendedAt ==
    ASSUME NEW ch \in Chans, NEW a \in Agent, NEW S, NEW x \in Msg,
           NEW p \in Agent, NEW i \in Nat, NEW m,
           RequestAt(Send(ch, a, S, x), p, i, m)
    PROVE  \/ RequestAt(ch, p, i, m)
           \/ /\ p = a /\ Succ(a) \in S /\ m = x /\ x.kind = "REQUEST"
              /\ i = Len(ch[a][Succ(a)]) + 1
<1>1. Succ(p) \in Agent /\ ch[p][Succ(p)] \in Seq(Msg)
    BY RingType DEF Chans
<1>2. Send(ch, a, S, x)[p][Succ(p)] = IF p = a /\ Succ(p) \in S
                                      THEN Append(ch[p][Succ(p)], x) ELSE ch[p][Succ(p)]
    BY <1>1, SendCell
<1>3. CASE p = a /\ Succ(p) \in S
  <2>1. i \in 1 .. Len(ch[p][Succ(p)]) + 1 /\ Append(ch[p][Succ(p)], x)[i] = m
    BY <1>1, <1>2, <1>3 DEF RequestAt
  <2>2. CASE i = Len(ch[p][Succ(p)]) + 1
    <3>1. m = x
      BY <1>1, <2>1, <2>2
    <3> QED BY <1>3, <2>2, <3>1 DEF RequestAt
  <2>3. CASE i \in 1 .. Len(ch[p][Succ(p)])
    BY <1>1, <2>1, <2>3 DEF RequestAt
  <2> QED BY <1>1, <2>1, <2>2, <2>3
<1>4. CASE ~(p = a /\ Succ(p) \in S)
    BY <1>2, <1>4 DEF RequestAt
<1> QED BY <1>3, <1>4

\* and so does sending anything else.
LEMMA OrderedPlain ==
    ASSUME NEW ch \in Chans, OrderedIn(ch), KnownIn(ch), NEW a \in Agent, NEW S,
           NEW x \in Msg, x.kind # "REQUEST"
    PROVE  OrderedIn(Send(ch, a, S, x)) /\ KnownIn(Send(ch, a, S, x))
<1>1. \A p \in Agent : \A i \in Nat : \A m :
         RequestAt(Send(ch, a, S, x), p, i, m) => RequestAt(ch, p, i, m)
    BY AppendedAt
<1> HIDE DEF Send
<1> QED BY <1>1 DEF OrderedIn, KnownIn

\* A request joins those in transit: it is behind larger ones only, and only
\* smaller ones are behind it.
LEMMA OrderedRequest ==
    ASSUME NEW ch \in Chans, OrderedIn(ch), NEW a \in Agent, NEW x \in Msg,
           \A p \in Agent : \A i \in Nat : \A m \in Msg :
              RequestAt(ch, p, i, m) /\ Dist(m.agent, a) <= Dist(m.agent, p)
              => x.agent < m.agent,
           \A p \in Agent : \A i \in Nat : \A m \in Msg :
              RequestAt(ch, p, i, m) /\ Dist(x.agent, p) < Dist(x.agent, a)
              => m.agent < x.agent
    PROVE  OrderedIn(Send(ch, a, {Succ(a)}, x))
<1> DEFINE new == Send(ch, a, {Succ(a)}, x)
           last == Len(ch[a][Succ(a)]) + 1
<1>0. last \in Nat
    BY RingType DEF Chans
<1>1. \A p \in Agent : \A i \in Nat : \A m :
         RequestAt(new, p, i, m) =>
            RequestAt(ch, p, i, m) \/ (p = a /\ m = x /\ i = last)
    BY AppendedAt
<1>2. \A i \in Nat : \A m : RequestAt(ch, a, i, m) => i < last
    BY <1>0 DEF RequestAt
<1> HIDE DEF new, last
<1> SUFFICES ASSUME NEW p \in Agent, NEW p2 \in Agent, NEW i \in Nat, NEW i2 \in Nat,
                    NEW m \in Msg, NEW m2 \in Msg,
                    RequestAt(new, p, i, m), RequestAt(new, p2, i2, m2),
                    IsBehind(m.agent, p, i, p2, i2)
             PROVE  m2.agent < m.agent
    BY DEF OrderedIn, new
<1>3. m.agent \in Agent /\ m2.agent \in Agent
    BY DEF Msg
<1>4. \A k, j \in Agent : Dist(k, j) \in Nat
    BY RingType, SizeAssumption
<1>5. CASE RequestAt(ch, p, i, m) /\ RequestAt(ch, p2, i2, m2)
    BY <1>5 DEF OrderedIn
<1>6. CASE RequestAt(ch, p, i, m) /\ p2 = a /\ m2 = x /\ i2 = last
  <2>1. Dist(m.agent, a) <= Dist(m.agent, p)
    BY <1>3, <1>4, <1>6 DEF IsBehind
  <2> QED BY <1>6, <2>1
<1>7. CASE p = a /\ m = x /\ i = last /\ RequestAt(ch, p2, i2, m2)
  <2>1. Dist(x.agent, p2) < Dist(x.agent, a)
    BY <1>0, <1>2, <1>7 DEF IsBehind
  <2> QED BY <1>7, <2>1
<1>8. CASE p = a /\ m = x /\ i = last /\ p2 = a /\ m2 = x /\ i2 = last
    BY <1>0, <1>3, <1>4, <1>8 DEF IsBehind
<1> QED BY <1>1, <1>5, <1>6, <1>7, <1>8

-----------------------------------------------------------------------------
(* Where the agents are, and their targets *)

\* Steps of the search touch no field of the flush.
LEMMA SearchFields ==
    ASSUME TypeOK, NEW a \in Agent, SearchMove(a)
    PROVE  /\ \A j \in Agent :
                 /\ term'[j].initiator = term[j].initiator
                 /\ term'[j].isFirst = term[j].isFirst
                 /\ term'[j].isLast = term[j].isLast
                 /\ term'[j].finals = term[j].finals
                 /\ term'[j].finalTarget = term[j].finalTarget
                 /\ term'[j].acks = term[j].acks
                 /\ term'[j].ackTarget = term[j].ackTarget
                 /\ term[j].isInitiator => term'[j].isInitiator
           /\ \A j \in Agent \ {a} : terminate'[j] = terminate[j]
           /\ terminate'[a] = terminate[a] \/ (terminate[a] = 0 /\ terminate'[a] = 1)
<1>1. CASE UNCHANGED <<terminate, term>>
    BY <1>1
<1>2. CASE /\ terminate[a] = 0 /\ terminate' = [terminate EXCEPT ![a] = 1]
           /\ term' = [term EXCEPT ![a].isInitiator = TRUE]
  <2>1. \A j \in Agent : term'[j] = IF j = a THEN [term[a] EXCEPT !.isInitiator = TRUE]
                                    ELSE term[j]
    BY <1>2 DEF TypeOK
  <2>2. LET u == [term[a] EXCEPT !.isInitiator = TRUE]
        IN /\ u.initiator = term[a].initiator /\ u.isFirst = term[a].isFirst
           /\ u.isLast = term[a].isLast /\ u.finals = term[a].finals
           /\ u.finalTarget = term[a].finalTarget /\ u.acks = term[a].acks
           /\ u.ackTarget = term[a].ackTarget /\ u.isInitiator
    BY DEF TypeOK, Term
  <2> QED BY <1>2, <2>1, <2>2 DEF TypeOK
<1> QED BY <1>1, <1>2 DEF SearchMove, Begins

\* Nobody sends itself a message.
LEMMA SelfSend ==
    ASSUME NEW ch, NEW a \in Agent, NEW S \in SUBSET (Agent \ {a}), NEW m,
           NEW j \in Agent
    PROVE  Send(ch, a, S, m)[j][j] = ch[j][j]
BY SendCell

\* Reading leaves the channels of an agent to itself empty.
LEMMA SelfRead ==
    ASSUME TypeOK, NEW a \in Agent, NEW b \in Agent \ {a}, NEW j \in Agent
    PROVE  Consume(chan, b, a)[j][j] = chan[j][j]
<1>1. chan \in Chans
    BY DEF TypeOK, Chans
<1> QED BY <1>1, ConsumeCell

\* The next on the ring is another agent.
LEMMA SelfSucc == ASSUME NEW a \in Agent
                  PROVE  {Succ(a)} \in SUBSET (Agent \ {a})
BY SizeAssumption DEF Agent, Succ

\* A step of the search keeps the places of the agents,
LEMMA WhereSearch ==
    ASSUME TypeOK, TypeOK', Where, NEW a \in Agent, SearchMove(a)
    PROVE  Where'
<1>1. ASSUME NEW j \in Agent
      PROVE  chan'[j][j] = <<>>
  <2>1. PICK ch : /\ SearchReads(a, ch)
                  /\ Begins(a, ch) \/ SearchSends(a, ch)
    BY DEF SearchMove
  <2>2. ch[j][j] = <<>>
    BY <2>1, SelfRead DEF SearchReads, Where
  <2>3. chan'[j][j] = ch[j][j]
    BY <2>1, SelfSend, SelfSucc DEF Begins, SearchSends
  <2> QED BY <2>2, <2>3
<1>2. /\ \A j \in Agent \ {a} : pc'[j] = pc[j] /\ terminate'[j] = terminate[j]
      /\ \A j \in Agent : term'[j].initiator = term[j].initiator
      /\ pc'[a] # "left" /\ (terminate'[a] # 0 => pc'[a] \in {"step", "post"})
      /\ terminate'[a] = 0 => terminate[a] = 0
    BY SearchFields DEF SearchMove
<1> QED BY <1>1, <1>2 DEF Where

\* and their targets.
LEMMA TargetsSearch ==
    ASSUME TypeOK, TypeOK', Targets, NEW a \in Agent, SearchMove(a)
    PROVE  Targets'
BY SearchFields DEF Targets

\* terminateMsg sends nothing to the agent itself.
LEMMA SettleSelf ==
    ASSUME NEW a \in Agent, NEW t \in Term, NEW ch, Settle(a, t, ch), NEW j \in Agent
    PROVE  chan'[j][j] = ch[j][j]
<1>1. \A k : Ahead(a, k) \in SUBSET (Agent \ {a}) /\ Behind(a, k) \in SUBSET (Agent \ {a})
    BY DEF Ahead, Behind
<1>2. \A c : /\ SendFinalAck(a, t, c)[j][j] = c[j][j]
             /\ SendFinal(a, t, c, Plain("FINAL", a))[j][j] = c[j][j]
             /\ Send(c, a, Agent \ {a}, Plain("FINAL_FIN", a))[j][j] = c[j][j]
    BY <1>1, SelfSend DEF SendFinalAck, SendFinal
<1> QED BY <1>2 DEF Settle

\* What reading a termination message leaves alone.
LEMMA ReadTermMoves ==
    ASSUME TypeOK, TypeOK', Where, NEW a \in Agent, ReadTerm(a)
    PROVE  /\ \A j \in Agent \ {a} : /\ pc'[j] = pc[j] /\ terminate'[j] = terminate[j]
                                     /\ term'[j] = term[j]
                                     /\ res'[j] = res[j] /\ path'[j] = path[j]
           /\ pc'[a] \in {"step", "post"} /\ pc[a] # "left"
           /\ pc[a] = "post" \/ terminate[a] = 0
           /\ pc[a] = "post" => pc'[a] = "post"
           /\ terminate'[a] \in {1, 2}
           /\ term'[a].isInitiator = term[a].isInitiator
           /\ \A j \in Agent : chan'[j][j] = chan[j][j]
<1>1. PICK b \in Agent \ {a} :
         DropRequest(a, b) \/ ForwardRequest(a, b) \/ RequestReturns(a, b)
         \/ RecvFinal(a, b) \/ RecvFinalAck(a, b) \/ RecvFinalFin(a, b)
    BY DEF ReadTerm
<1> DEFINE ch == Consume(chan, b, a)
           m0 == Head(chan[b][a])
<1>2. /\ pc' = [pc EXCEPT ![a] = AfterMsg(a)] /\ Reads(a) /\ chan[b][a] # <<>>
      /\ \A j \in Agent \ {a} : res'[j] = res[j] /\ path'[j] = path[j]
  <2>1. pc' = [pc EXCEPT ![a] = AfterMsg(a)] /\ \E k : ReadsTerm(a, b, k)
    BY <1>1 DEF DropRequest, ForwardRequest, RequestReturns, RecvFinal, RecvFinalAck,
                RecvFinalFin
  <2>2. Reads(a) /\ chan[b][a] # <<>>
    BY <2>1 DEF ReadsTerm, HasMsg
  <2>3. \/ UNCHANGED <<res, path>>
        \/ \E r, p : res' = [res EXCEPT ![a] = r] /\ path' = [path EXCEPT ![a] = p]
    BY <1>1 DEF DropRequest, ForwardRequest, RequestReturns, RecvFinal, RecvFinalAck,
                RecvFinalFin
  <2>4. \A j \in Agent \ {a} : res'[j] = res[j] /\ path'[j] = path[j]
    BY <2>3 DEF TypeOK
  <2> QED BY <2>1, <2>2, <2>4
<1>3. /\ ch \in Chans /\ m0 \in Msg /\ m0.agent \in Agent
      /\ term[a] \in Term /\ res[a] \in Res /\ path[a] \in Plan \cup {NoPlan}
  <2>1. ch \in Chans /\ m0 \in Msg
    BY <1>2, ConsumeType DEF TypeOK, Chans
  <2> QED BY <2>1 DEF Msg, TypeOK
<1>4. /\ \A j \in Agent \ {a} : terminate'[j] = terminate[j] /\ term'[j] = term[j]
      /\ terminate'[a] \in {1, 2}
      /\ term'[a].isInitiator = term[a].isInitiator
      /\ \A j \in Agent : chan'[j][j] = chan[j][j]
  <2>0. \A j \in Agent : ch[j][j] = chan[j][j]
    BY SelfRead
  <2>1. CASE DropRequest(a, b) \/ RecvFinalFin(a, b)
    <3>1. /\ term' = term /\ chan' = ch
          /\ terminate' \in {[terminate EXCEPT ![a] = 1], [terminate EXCEPT ![a] = 2]}
      BY <2>1 DEF DropRequest, RecvFinalFin
    <3> QED BY <2>0, <3>1 DEF TypeOK
  <2>2. ASSUME NEW t \in Term, NEW c \in Chans, Settle(a, t, c),
               t.isInitiator = term[a].isInitiator,
               \A j \in Agent : c[j][j] = chan[j][j]
        PROVE  /\ \A j \in Agent \ {a} : terminate'[j] = terminate[j] /\ term'[j] = term[j]
               /\ terminate'[a] \in {1, 2}
               /\ term'[a].isInitiator = term[a].isInitiator
               /\ \A j \in Agent : chan'[j][j] = chan[j][j]
    BY <2>2, SettleFields, SettleSelf
  <2>3. CASE ForwardRequest(a, b)
    <3> DEFINE t == IF m0.agent < term[a].initiator
                    THEN TargetsBehind(a, [term[a] EXCEPT !.initiator = m0.agent],
                                       m0.agent)
                    ELSE term[a]
               c == Send(ch, a, {Succ(a)}, m0)
    <3>1. Settle(a, t, c)
      BY <2>3 DEF ForwardRequest
    <3>2. t \in Term /\ c \in Chans
      BY <1>3, TargetsType, SendType
    <3>3. t.isInitiator = term[a].isInitiator
      BY <1>3 DEF TargetsBehind, Term
    <3>4. \A j \in Agent : c[j][j] = chan[j][j]
      BY <2>0, SelfSend, SelfSucc
    <3> HIDE DEF t, c
    <3> QED BY <2>2, <3>1, <3>2, <3>3, <3>4
  <2>4. CASE RequestReturns(a, b)
    <3> DEFINE t == TargetsOfFirst([term[a] EXCEPT !.initiator = a])
               f == Final(a, res[a], path[a])
               c == SendFinal(a, t, ch, f)
    <3>1. Settle(a, t, c)
      BY <2>4 DEF RequestReturns
    <3>2. t \in Term /\ c \in Chans
      BY <1>3, TargetsType, SendType, MsgTypes DEF SendFinal
    <3>3. t.isInitiator = term[a].isInitiator
      BY <1>3 DEF TargetsOfFirst, Term
    <3>4. \A j \in Agent : c[j][j] = chan[j][j]
      <4>1. Ahead(a, t.ackTarget) \in SUBSET (Agent \ {a})
        BY DEF Ahead
      <4> QED BY <2>0, <4>1, SelfSend DEF SendFinal
    <3> HIDE DEF t, c
    <3> QED BY <2>2, <3>1, <3>2, <3>3, <3>4
  <2>5. CASE RecvFinal(a, b) \/ RecvFinalAck(a, b)
    <3>1. PICK t \in {[term[a] EXCEPT !.finals = @ + 1], [term[a] EXCEPT !.acks = @ + 1]} :
             Settle(a, t, ch)
      BY <2>5 DEF RecvFinal, RecvFinalAck
    <3>2. t \in Term /\ t.isInitiator = term[a].isInitiator
      BY <1>3, <3>1, CountType DEF Term
    <3> HIDE DEF ch
    <3> QED BY <1>3, <2>0, <2>2, <3>1, <3>2
  <2> QED BY <1>1, <2>1, <2>3, <2>4, <2>5
<1>5. /\ \A j \in Agent \ {a} : pc'[j] = pc[j]
      /\ pc'[a] \in {"step", "post"} /\ pc[a] \in {"heur", "blocked", "post"}
      /\ pc[a] = "post" => pc'[a] = "post"
    BY <1>2, <1>4 DEF TypeOK, AfterMsg, Reads
<1>6. pc[a] = "post" \/ terminate[a] = 0
    BY <1>5 DEF Where
<1> QED BY <1>2, <1>4, <1>5, <1>6

\* A termination message keeps the places of the agents.
LEMMA WhereReadTerm ==
    ASSUME TypeOK, TypeOK', Where, NEW a \in Agent, ReadTerm(a)
    PROVE  Where'
<1>1. ASSUME NEW j \in Agent
      PROVE  /\ chan'[j][j] = <<>>
             /\ terminate'[j] # 0 => pc'[j] \in {"step", "post", "left"}
             /\ pc'[j] = "left" => terminate'[j] = 2
             /\ terminate'[j] = 0 => term'[j].initiator = NoAgent
    BY ReadTermMoves DEF Where
<1> QED BY <1>1 DEF Where

\* An agent leaves: its outcome is what it was.
LEMMA LeaveMoves ==
    ASSUME TypeOK, NEW a \in Agent, Leave(a)
    PROVE  /\ UNCHANGED <<terminate, path, term, chan>>
           /\ terminate[a] = 2 /\ pc[a] = "post" /\ pc'[a] = "left"
           /\ \A j \in Agent \ {a} : pc'[j] = pc[j] /\ res'[j] = res[j]
           /\ \A j \in Agent : Outcome(j)' = Outcome(j)
<1>1. /\ UNCHANGED <<terminate, path, term, chan>>
      /\ terminate[a] = 2 /\ pc[a] = "post" /\ pc'[a] = "left"
      /\ \A j \in Agent \ {a} : pc'[j] = pc[j] /\ res'[j] = res[j]
      /\ res'[a] = IF res[a] = "FOUND" THEN "FOUND" ELSE "NOT_FOUND"
    BY DEF Leave, TypeOK
<1>2. \A j \in Agent : (res'[j] = "FOUND") <=> (res[j] = "FOUND")
    BY <1>1
<1> QED BY <1>1, <1>2 DEF Outcome

\* An initiator another agent knows of.
LEMMA TargetsReadTerm ==
    ASSUME TypeOK, TypeOK', Election, Targets, Where, NEW a \in Agent, ReadTerm(a)
    PROVE  Targets'
<1>1. /\ \A j \in Agent \ {a} : term'[j] = term[j]
      /\ \A j \in Agent : term'[j].isInitiator = term[j].isInitiator
    BY ReadTermMoves
<1> DEFINE Right(t) == t.initiator \in Agent =>
                 LET i == t.initiator
                 IN /\ term[i].isInitiator
                    /\ t.isFirst <=> i = a
                    /\ t.isLast <=> IsLastOf(i, a)
                    /\ t.finalTarget = Dist(i, a)
                    /\ t.ackTarget = N - 1 - Dist(i, a)
<1>2. Right(term[a])
    BY DEF Targets
<1>3. ASSUME NEW t \in Term, NEW ch \in Chans, Settle(a, t, ch), Right(t)
      PROVE  Right(term'[a])
    BY <1>3, SettleFields, SettleCounters
<1>4. Right(term'[a])
  <2>1. PICK b \in Agent \ {a} :
           DropRequest(a, b) \/ ForwardRequest(a, b) \/ RequestReturns(a, b)
           \/ RecvFinal(a, b) \/ RecvFinalAck(a, b) \/ RecvFinalFin(a, b)
    BY DEF ReadTerm
  <2> DEFINE ch == Consume(chan, b, a)
             m0 == Head(chan[b][a])
  <2>2. /\ chan \in Chans /\ chan[b][a] # <<>>
    BY <2>1 DEF DropRequest, ForwardRequest, RequestReturns, RecvFinal, RecvFinalAck,
                RecvFinalFin, ReadsTerm, HasMsg, TypeOK, Chans
  <2>3. /\ ch \in Chans /\ m0 \in Msg /\ m0.agent \in Agent /\ InTransit(chan, b, a, m0)
        /\ term[a] \in Term /\ res[a] \in Res /\ path[a] \in Plan \cup {NoPlan}
    <3>1. ch \in Chans /\ m0 \in Msg /\ InTransit(chan, b, a, m0)
      BY <2>2, ConsumeType, ConsumeTransit
    <3> QED BY <3>1 DEF Msg, TypeOK
  <2>4. CASE DropRequest(a, b) \/ RecvFinalFin(a, b)
    <3>1. term' = term
      BY <2>4 DEF DropRequest, RecvFinalFin
    <3> QED BY <1>2, <3>1
  <2>5. CASE ForwardRequest(a, b)
    <3> DEFINE t == IF m0.agent < term[a].initiator
                    THEN TargetsBehind(a, [term[a] EXCEPT !.initiator = m0.agent],
                                       m0.agent)
                    ELSE term[a]
               c == Send(ch, a, {Succ(a)}, m0)
    <3>1. Settle(a, t, c) /\ m0.agent # a /\ m0.kind = "REQUEST"
      BY <2>5 DEF ForwardRequest, ReadsTerm, HasMsg
    <3>2. t \in Term /\ c \in Chans
      BY <2>3, TargetsType, SendType
    <3>3. term[m0.agent].isInitiator
      BY <2>3, <3>1 DEF Election, RequestsBeat
    <3>4. Right(t)
      <4>1. CASE m0.agent < term[a].initiator
        <5>1. t = TargetsBehind(a, [term[a] EXCEPT !.initiator = m0.agent], m0.agent)
          BY <4>1
        <5>2. /\ t.initiator = m0.agent /\ ~t.isFirst
              /\ t.isLast = (Dist(m0.agent, a) = N - 1)
              /\ t.finalTarget = Dist(m0.agent, a)
              /\ t.ackTarget = N - 1 - Dist(m0.agent, a)
          BY <2>3, <5>1 DEF TargetsBehind, Term
        <5> QED BY <3>1, <3>3, <5>2 DEF IsLastOf
      <4>2. CASE ~(m0.agent < term[a].initiator)
        BY <1>2, <4>2
      <4> QED BY <4>1, <4>2
    <3> HIDE DEF t, c, Right
    <3> QED BY <1>3, <3>1, <3>2, <3>4
  <2>6. CASE RequestReturns(a, b)
    <3> DEFINE t == TargetsOfFirst([term[a] EXCEPT !.initiator = a])
               f == Final(a, res[a], path[a])
               c == SendFinal(a, t, ch, f)
    <3>1. Settle(a, t, c) /\ m0.agent = a /\ m0.kind = "REQUEST"
      BY <2>6 DEF RequestReturns, ReadsTerm, HasMsg
    <3>2. t \in Term /\ c \in Chans
      BY <2>3, TargetsType, SendType, MsgTypes DEF SendFinal
    <3>3. term[a].isInitiator
      BY <2>3, <3>1 DEF Election, RequestsBeat
    <3>4. /\ t.initiator = a /\ t.isFirst /\ ~t.isLast
          /\ t.finalTarget = 0 /\ t.ackTarget = N - 1
      BY <2>3 DEF TargetsOfFirst, Term
    <3>5. Right(t)
      BY <3>3, <3>4, RingType, SizeAssumption DEF IsLastOf
    <3> HIDE DEF t, c, Right
    <3> QED BY <1>3, <3>1, <3>2, <3>5
  <2>7. CASE RecvFinal(a, b) \/ RecvFinalAck(a, b)
    <3>1. PICK t \in {[term[a] EXCEPT !.finals = @ + 1], [term[a] EXCEPT !.acks = @ + 1]} :
             Settle(a, t, ch)
      BY <2>7 DEF RecvFinal, RecvFinalAck
    <3>2. t \in Term
      BY <2>3, <3>1, CountType
    <3>3. /\ t.initiator = term[a].initiator /\ t.isFirst = term[a].isFirst
          /\ t.isLast = term[a].isLast /\ t.finalTarget = term[a].finalTarget
          /\ t.ackTarget = term[a].ackTarget
      BY <2>3, <3>1 DEF Term
    <3>4. Right(t)
      BY <1>2, <3>3
    <3> HIDE DEF ch, Right
    <3> QED BY <1>3, <2>3, <3>1, <3>2, <3>4
  <2> QED BY <2>1, <2>4, <2>5, <2>6, <2>7
<1> QED BY <1>1, <1>4 DEF Targets

-----------------------------------------------------------------------------
(* What is in the channels, as long as nobody won                           *)

LEMMA KindsRead ==
    ASSUME NEW ch \in Chans, NEW a \in Agent, NEW b \in Agent, ch[b][a] # <<>>,
           NEW K, KindsIn(ch, K)
    PROVE  KindsIn(Consume(ch, b, a), K) /\ Head(ch[b][a]).kind \in K
<1>1. \A p, q \in Agent : \A m : InTransit(ch, p, q, m) => m.kind \in K
    BY DEF InTransit, KindsIn
<1>2. \A p, q \in Agent : \A m : InTransit(Consume(ch, b, a), p, q, m) => m.kind \in K
    BY <1>1, ConsumeTransit
<1>3. Head(ch[b][a]).kind \in K
    BY <1>1, ConsumeTransit
<1> HIDE DEF Consume
<1> QED BY <1>2, <1>3 DEF InTransit, KindsIn

\* A send adds no kind of message but its own.
LEMMA KindsSend ==
    ASSUME NEW ch \in Chans, NEW a \in Agent, NEW S, NEW m \in Msg,
           NEW K, KindsIn(ch, K), m.kind \in K
    PROVE  KindsIn(Send(ch, a, S, m), K)
<1>1. \A p, q \in Agent : \A x : InTransit(ch, p, q, x) => x.kind \in K
    BY DEF InTransit, KindsIn
<1>2. \A p, q \in Agent : \A x : InTransit(Send(ch, a, S, m), p, q, x) => x.kind \in K
    BY <1>1, SendTransit
<1> HIDE DEF Send
<1> QED BY <1>2 DEF InTransit, KindsIn

\* A step of the search reads one message at most.
LEMMA SearchReading ==
    ASSUME TypeOK, NEW a \in Agent, NEW ch, SearchReads(a, ch)
    PROVE  Reading(ch)
BY DEF SearchReads, Reading

\* A request in transit was sent by an initiator, and the agents it passed do
\* not search any more.
LEMMA RequestsStop ==
    ASSUME TypeOK, Election, NEW p \in Agent, NEW i \in Nat, NEW m \in Msg,
           RequestAt(chan, p, i, m)
    PROVE  /\ m.agent \in Agent
           /\ term[m.agent].isInitiator
           /\ \A j \in Agent : Dist(m.agent, j) <= Dist(m.agent, p) =>
                 /\ terminate[j] # 0
                 /\ j # m.agent => Beaten(m.agent, j)
<1>1. InTransit(chan, p, Succ(p), m) /\ m.kind = "REQUEST" /\ Succ(p) \in Agent
    BY RingType DEF RequestAt, InTransit
<1>2. /\ term[m.agent].isInitiator
      /\ \A j \in Agent \ {m.agent} :
            Dist(m.agent, j) <= Dist(m.agent, p) => Beaten(m.agent, j)
    BY <1>1 DEF Election, RequestsBeat
<1>3. m.agent \in Agent
    BY DEF Msg
<1>4. terminate[m.agent] # 0
    BY <1>2, <1>3 DEF Election, InitiatorsTerminate
<1> QED BY <1>2, <1>3, <1>4 DEF Beaten

\* A step of the search keeps the order of the requests: an initiator that begins
\* is in front of none that is smaller.
LEMMA OrderedSearch ==
    ASSUME TypeOK, TypeOK', Election, OrderedIn(chan), KnownIn(chan),
           NEW a \in Agent, SearchMove(a)
    PROVE  OrderedIn(chan)' /\ KnownIn(chan)'
<1>1. PICK ch : /\ SearchReads(a, ch)
                /\ Begins(a, ch) \/ SearchSends(a, ch)
    BY DEF SearchMove
<1>2. ch \in Chans /\ OrderedIn(ch) /\ KnownIn(ch)
    BY <1>1, SearchReading, ReadAt, OrderedRead
<1>3. OrderedIn(chan') /\ KnownIn(chan')
  <2>1. CASE SearchSends(a, ch)
    <3>1. \A k \in WorkKinds : Plain(k, a) \in Msg /\ Plain(k, a).kind # "REQUEST"
      BY MsgTypes DEF Plain, WorkKinds, Kinds, Res
    <3> QED BY <1>2, <2>1, <3>1, OrderedPlain DEF SearchSends
  <2>2. CASE Begins(a, ch)
    <3>1. PICK r \in Res, pl \in Plan \cup {NoPlan} :
             chan' = Send(ch, a, {Succ(a)}, Request(a, r, pl))
      BY <2>2 DEF Begins
    <3> DEFINE x == Request(a, r, pl)
    <3>2. x \in Msg /\ x.agent = a
      BY MsgTypes DEF Request
    <3> HIDE DEF x
    <3>3. ASSUME NEW p \in Agent, NEW i \in Nat, NEW m \in Msg, RequestAt(ch, p, i, m)
          PROVE  m.agent \in Agent /\ ~(Dist(m.agent, a) <= Dist(m.agent, p))
      <4>1. PICK n \in Nat : RequestAt(chan, p, n, m)
        BY <1>1, <3>3, SearchReading, ReadAt
      <4> QED BY <2>2, <4>1, RequestsStop DEF Begins
    <3>4. \A j \in Agent : Dist(a, j) \in 0 .. N - 1 /\ (Dist(a, j) = 0 <=> a = j)
      BY RingType
    <3>5. OrderedIn(Send(ch, a, {Succ(a)}, x))
      <4>1. \A p \in Agent : \A i \in Nat : \A m \in Msg :
               RequestAt(ch, p, i, m) /\ Dist(m.agent, a) <= Dist(m.agent, p)
               => x.agent < m.agent
        BY <3>3
      <4>2. \A p \in Agent : \A i \in Nat : \A m \in Msg :
               RequestAt(ch, p, i, m) /\ Dist(x.agent, p) < Dist(x.agent, a)
               => m.agent < x.agent
        BY <3>2, <3>4, SizeAssumption
      <4> QED BY <1>2, <3>2, <4>1, <4>2, OrderedRequest
    <3>6. KnownIn(Send(ch, a, {Succ(a)}, x))
      <4>1. \A p \in Agent : \A i \in Nat : \A m \in Msg :
               RequestAt(Send(ch, a, {Succ(a)}, x), p, i, m) =>
                  RequestAt(ch, p, i, m) \/ (p = a /\ m = x)
        BY <1>2, <3>2, AppendedAt
      <4>2. \A j \in Agent \ {a} : ~(Dist(a, j) <= Dist(a, a))
        BY <3>4, SizeAssumption
      <4> HIDE DEF Send
      <4> QED BY <1>2, <3>2, <4>1, <4>2 DEF KnownIn
    <3> QED BY <3>1, <3>5, <3>6 DEF x
  <2> QED BY <1>1, <2>1, <2>2
<1>4. KnownIn(chan)'
  <2>1. \A j \in Agent : term'[j].initiator = term[j].initiator
    BY SearchFields
  <2> QED BY <1>3, <2>1 DEF KnownIn, RequestAt
<1>5. OrderedIn(chan)'
    BY <1>3 DEF OrderedIn, RequestAt
<1> QED BY <1>4, <1>5

\* Before the flush a step of the search sends no message of it.
LEMMA ElectingSearch ==
    ASSUME TypeOK, TypeOK', Electing, NEW a \in Agent, SearchMove(a)
    PROVE  Electing'
<1> DEFINE K == WorkKinds \cup {"REQUEST"}
<1>1. PICK ch : /\ SearchReads(a, ch)
                /\ Begins(a, ch) \/ SearchSends(a, ch)
    BY DEF SearchMove
<1>2. ch \in Chans /\ KindsIn(ch, K)
  <2>1. chan \in Chans
    BY DEF TypeOK, Chans
  <2> QED BY <1>1, <2>1, KindsRead, ConsumeType DEF SearchReads, Electing
<1>3. KindsIn(chan', K)
  <2>1. CASE SearchSends(a, ch)
    <3>1. \A k \in WorkKinds : Plain(k, a) \in Msg /\ Plain(k, a).kind \in K
      BY MsgTypes DEF Plain, WorkKinds, Kinds, Res
    <3> QED BY <1>2, <2>1, <3>1, KindsSend DEF SearchSends
  <2>2. CASE Begins(a, ch)
    <3>1. \A r \in Res, pl \in Plan \cup {NoPlan} :
             Request(a, r, pl) \in Msg /\ Request(a, r, pl).kind \in K
      BY MsgTypes DEF Request
    <3> QED BY <1>2, <2>2, <3>1, KindsSend DEF Begins
  <2> QED BY <1>1, <2>1, <2>2
<1>4. \A j \in Agent : terminate'[j] # 2 /\ pc'[j] # "left"
  <2>1. \A j \in Agent \ {a} : pc'[j] = pc[j] /\ terminate'[j] = terminate[j]
    BY SearchFields DEF SearchMove
  <2>2. pc'[a] # "left" /\ terminate'[a] # 2
    BY SearchFields DEF SearchMove, Electing
  <2> QED BY <2>1, <2>2 DEF Electing
<1>5. \A j \in Agent : term'[j].initiator \in Agent =>
                /\ term'[j].finals = 0
                /\ term'[j].acks = IF term'[j].isLast THEN -1 ELSE 0
    BY SearchFields DEF Electing
<1>6. KindsIn(chan, K)'
    BY <1>3 DEF KindsIn, WorkKinds
<1> QED BY <1>4, <1>5, <1>6 DEF Electing

\* A message an agent reads, and the channels after it.
LEMMA TermRead ==
    ASSUME TypeOK, NEW a \in Agent, NEW b \in Agent \ {a}, NEW k, ReadsTerm(a, b, k)
    PROVE  LET m0 == Head(chan[b][a])
               ch == Consume(chan, b, a)
           IN /\ chan \in Chans /\ chan[b][a] # <<>> /\ m0.kind = k
              /\ ch \in Chans /\ m0 \in Msg /\ m0.agent \in Agent
              /\ InTransit(chan, b, a, m0)
              /\ term[a] \in Term /\ res[a] \in Res /\ path[a] \in Plan \cup {NoPlan}
<1>1. chan \in Chans /\ chan[b][a] # <<>> /\ Head(chan[b][a]).kind = k
    BY DEF ReadsTerm, HasMsg, TypeOK, Chans
<1>2. /\ Consume(chan, b, a) \in Chans /\ Head(chan[b][a]) \in Msg
      /\ InTransit(chan, b, a, Head(chan[b][a]))
    BY <1>1, ConsumeType, ConsumeTransit
<1> QED BY <1>1, <1>2 DEF Msg, TypeOK

\* Before there is a winner, passing a request on fires no counter, but the
\* one of the last agent, which has nobody to wait for.
LEMMA ForwardElecting ==
    ASSUME TypeOK, Election, Targets, NoWinner, Electing,
           NEW a \in Agent, NEW b \in Agent \ {a}, ForwardRequest(a, b)
    PROVE  LET m0 == Head(chan[b][a])
           IN /\ chan' = Send(Consume(chan, b, a), a, {Succ(a)}, m0)
              /\ terminate'[a] = 1
              /\ term'[a].initiator = IF m0.agent < term[a].initiator
                                      THEN m0.agent ELSE term[a].initiator
              /\ term'[a].finals = 0
              /\ term'[a].acks = IF term'[a].isLast THEN -1 ELSE 0
<1> DEFINE m0 == Head(chan[b][a])
           t == IF m0.agent < term[a].initiator
                THEN TargetsBehind(a, [term[a] EXCEPT !.initiator = m0.agent], m0.agent)
                ELSE term[a]
           c == Send(Consume(chan, b, a), a, {Succ(a)}, m0)
<1>1. Settle(a, t, c) /\ m0.agent # a /\ ReadsTerm(a, b, "REQUEST")
    BY DEF ForwardRequest
<1>2. /\ Consume(chan, b, a) \in Chans /\ m0 \in Msg /\ m0.agent \in Agent
      /\ term[a] \in Term
    BY <1>1, TermRead
<1>3. t \in Term /\ c \in Chans
    BY <1>2, TargetsType, SendType
<1>4. \A i \in Agent \ {a} : Dist(i, a) \in 1 .. N - 1
    BY RingType, SizeAssumption
<1> HIDE DEF c, m0
<1>5. /\ t.initiator = IF m0.agent < term[a].initiator
                       THEN m0.agent ELSE term[a].initiator
      /\ ~t.isFirst /\ t.finals = 0 /\ t.finalTarget # 0
      /\ t.acks = t.ackTarget => t.isLast
      /\ (IF t.acks = t.ackTarget THEN -1 ELSE t.acks) = IF t.isLast THEN -1 ELSE 0
  <2>1. CASE m0.agent < term[a].initiator
    <3>1. t = TargetsBehind(a, [term[a] EXCEPT !.initiator = m0.agent], m0.agent)
      BY <2>1
    <3>2. /\ t.initiator = m0.agent /\ ~t.isFirst
          /\ t.isLast <=> Dist(m0.agent, a) = N - 1
          /\ t.finals = 0 /\ t.acks = 0
          /\ t.finalTarget = Dist(m0.agent, a)
          /\ t.ackTarget = N - 1 - Dist(m0.agent, a)
      BY <1>2, <3>1 DEF TargetsBehind, Term
    <3> HIDE DEF t
    <3>3. Dist(m0.agent, a) \in 1 .. N - 1 /\ N \in Nat
      BY <1>1, <1>2, <1>4, SizeAssumption
    <3> QED BY <2>1, <3>2, <3>3
  <2>2. CASE ~(m0.agent < term[a].initiator)
    <3>1. t = term[a]
      BY <2>2
    <3>2. term[a].initiator \in Agent
      <4>1. term[a].initiator \in Agent \cup {N} /\ m0.agent < N
        BY <1>2, SizeAssumption DEF Term, NoAgent, Agent
      <4> QED BY <2>2, <4>1
    <3>3. term[a].initiator # a /\ ~term[a].isFirst
      BY <3>2 DEF Targets, NoWinner, IsWinner
    <3>4. /\ t.finals = 0 /\ t.acks = IF t.isLast THEN -1 ELSE 0
          /\ t.isLast <=> Dist(t.initiator, a) = N - 1
          /\ t.finalTarget = Dist(t.initiator, a)
          /\ t.ackTarget = N - 1 - Dist(t.initiator, a)
      BY <3>1, <3>2 DEF Electing, Targets, IsLastOf
    <3>5. Dist(t.initiator, a) \in 1 .. N - 1 /\ N \in Nat
      BY <1>4, <3>1, <3>2, <3>3, SizeAssumption
    <3> HIDE DEF t
    <3> QED BY <2>2, <3>1, <3>3, <3>4, <3>5
  <2> QED BY <2>1, <2>2
<1> HIDE DEF t
<1>6. /\ term'[a].initiator = t.initiator
      /\ term'[a].finals = 0
      /\ term'[a].acks = IF term'[a].isLast THEN -1 ELSE 0
    BY <1>1, <1>3, <1>5, SettleFields, SettleCounters
<1>7. chan' = c /\ terminate'[a] = 1
    BY <1>1, <1>3, <1>5, SettleSends
<1> QED BY <1>5, <1>6, <1>7 DEF c, m0

\* The request at the head is at position 1; the others move up.
LEMMA HeadAt ==
    ASSUME NEW ch \in Chans, NEW b \in Agent, ch[b][Succ(b)] # <<>>,
           Head(ch[b][Succ(b)]).kind = "REQUEST"
    PROVE  /\ RequestAt(ch, b, 1, Head(ch[b][Succ(b)]))
           /\ \A i \in Nat : \A m : RequestAt(Consume(ch, b, Succ(b)), b, i, m)
                 => RequestAt(ch, b, i + 1, m) /\ i >= 1
<1>1. Succ(b) \in Agent /\ ch[b][Succ(b)] \in Seq(Msg)
    BY RingType DEF Chans
<1>2. /\ Consume(ch, b, Succ(b))[b][Succ(b)] = Tail(ch[b][Succ(b)])
      /\ Len(Tail(ch[b][Succ(b)])) = Len(ch[b][Succ(b)]) - 1
      /\ \A i \in 1 .. Len(Tail(ch[b][Succ(b)])) :
            Tail(ch[b][Succ(b)])[i] = ch[b][Succ(b)][i + 1]
      /\ Len(ch[b][Succ(b)]) >= 1 /\ Head(ch[b][Succ(b)]) = ch[b][Succ(b)][1]
    BY <1>1, ConsumeCell
<1> QED BY <1>1, <1>2 DEF RequestAt

\* A request that is passed on keeps its place among those on the ring.
LEMMA OrderedForward ==
    ASSUME TypeOK, TypeOK', Election, OrderedIn(chan), KnownIn(chan), Where,
           NEW a \in Agent, NEW b \in Agent \ {a}, ForwardRequest(a, b),
           chan' = Send(Consume(chan, b, a), a, {Succ(a)}, Head(chan[b][a])),
           term'[a].initiator = IF Head(chan[b][a]).agent < term[a].initiator
                                THEN Head(chan[b][a]).agent ELSE term[a].initiator
    PROVE  OrderedIn(chan)' /\ KnownIn(chan)'
<1> DEFINE x == Head(chan[b][a])
           ch == Consume(chan, b, a)
<1>1. ReadsTerm(a, b, "REQUEST") /\ x.agent # a /\ ~Outranks(a, x.agent)
    BY DEF ForwardRequest
<1>2. /\ ch \in Chans /\ x \in Msg /\ x.agent \in Agent /\ x.kind = "REQUEST"
      /\ chan \in Chans /\ chan[b][a] # <<>> /\ InTransit(chan, b, a, x)
      /\ term[a] \in Term
    BY <1>1, TermRead
<1>3. a = Succ(b) /\ RequestAt(chan, b, 1, x)
  <2>1. a = Succ(b)
    BY <1>2 DEF Election, RequestsBeat
  <2> QED BY <1>2, <2>1, HeadAt
<1>4. Reading(ch)
    BY <1>2 DEF Reading
<1>5. /\ \A k, j \in Agent : Dist(k, j) \in 0 .. N - 1
      /\ \A k, j \in Agent : Dist(k, j) = 0 <=> k = j
      /\ \A k \in Agent \ {a} : Dist(k, a) = Dist(k, b) + 1
      /\ \A k, j \in Agent : Dist(k, j) = Dist(k, b) => j = b
    BY <1>3, RingType, RingNext
<1>6. OrderedIn(ch) /\ KnownIn(ch)
    BY <1>4, OrderedRead
<1>7. ASSUME NEW p \in Agent, NEW i \in Nat, NEW m \in Msg, RequestAt(ch, p, i, m)
      PROVE  \E n \in Nat : RequestAt(chan, p, n, m) /\ (p = b => n > 1)
  <2>1. CASE p = b
    <3>1. RequestAt(chan, b, i + 1, m) /\ i + 1 \in Nat /\ i + 1 > 1
      BY <1>2, <1>3, <1>7, <2>1, HeadAt
    <3> QED BY <2>1, <3>1
  <2>2. CASE p # b
    BY <1>4, <1>7, <2>2, ReadAt
  <2> QED BY <2>1, <2>2
<1>8. \A m \in Msg : m.agent \in Agent
    BY DEF Msg
<1> HIDE DEF ch, x
<1>9. OrderedIn(Send(ch, a, {Succ(a)}, x))
  <2>1. ASSUME NEW p \in Agent, NEW i \in Nat, NEW m \in Msg, RequestAt(ch, p, i, m),
               Dist(m.agent, a) <= Dist(m.agent, p)
        PROVE  x.agent < m.agent
    <3>1. PICK n \in Nat : RequestAt(chan, p, n, m) /\ (p = b => n > 1)
      BY <1>7, <2>1
    <3>2. CASE m.agent = a
      <4>1. term[a].isInitiator
        BY <3>1, <3>2, RequestsStop
      <4>2. ~(x.agent > a)
        BY <1>1, <4>1 DEF Outranks
      <4> QED BY <1>1, <1>2, <3>2, <4>2 DEF Agent
    <3>3. CASE m.agent # a
      <4>1. Dist(m.agent, b) < Dist(m.agent, p)
        BY <1>5, <1>8, <2>1, <3>3
      <4>2. IsBehind(m.agent, p, n, b, 1)
        BY <4>1 DEF IsBehind
      <4> QED BY <1>2, <1>3, <3>1, <4>2 DEF OrderedIn
    <3> QED BY <3>2, <3>3
  <2>2. ASSUME NEW p \in Agent, NEW i \in Nat, NEW m \in Msg, RequestAt(ch, p, i, m),
               Dist(x.agent, p) < Dist(x.agent, a)
        PROVE  m.agent < x.agent
    <3>1. PICK n \in Nat : RequestAt(chan, p, n, m) /\ (p = b => n > 1)
      BY <1>7, <2>2
    <3>2. Dist(x.agent, a) = Dist(x.agent, b) + 1
      BY <1>1, <1>2, <1>5
    <3>3. /\ Dist(x.agent, p) \in Int /\ Dist(x.agent, b) \in Int
          /\ Dist(x.agent, p) = Dist(x.agent, b) => p = b
      <4>1. x.agent \in Agent
        BY <1>2
      <4> QED BY <1>5, <4>1
    <3>4. IsBehind(x.agent, b, 1, p, n)
      BY <2>2, <3>1, <3>2, <3>3 DEF IsBehind
    <3> QED BY <1>2, <1>3, <3>1, <3>4 DEF OrderedIn
  <2> QED BY <1>2, <1>6, <2>1, <2>2, OrderedRequest
<1>10. \A p \in Agent : \A i \in Nat : \A m \in Msg : RequestAt(chan', p, i, m) =>
          \A j \in Agent \ {m.agent} :
             Dist(m.agent, j) <= Dist(m.agent, p) => term'[j].initiator <= m.agent
  <2>1. /\ \A j \in Agent \ {a} : term'[j] = term[j]
        /\ term'[a].initiator <= x.agent /\ term'[a].initiator <= term[a].initiator
        /\ \A j \in Agent : term[j].initiator \in Int /\ term'[j].initiator \in Int
    <3>0. \A j \in Agent : term[j].initiator \in Int /\ term'[j].initiator \in Int
      <4>1. \A t \in Term : t.initiator \in Int
        BY SizeAssumption DEF Term, Agent, NoAgent
      <4> QED BY <4>1 DEF TypeOK
    <3>1. \A j \in Agent \ {a} : term'[j] = term[j]
      BY ReadTermMoves DEF ReadTerm
    <3> QED BY <1>2, <3>0, <3>1 DEF x, Agent
  <2>2. ASSUME NEW p \in Agent, NEW i \in Nat, NEW m \in Msg,
               RequestAt(chan', p, i, m),
               NEW j \in Agent \ {m.agent}, Dist(m.agent, j) <= Dist(m.agent, p)
        PROVE  term'[j].initiator <= m.agent
    <3>1. CASE RequestAt(ch, p, i, m)
      <4>1. term[j].initiator <= m.agent
        BY <1>6, <2>2, <3>1 DEF KnownIn
      <4> QED BY <1>8, <2>1, <4>1 DEF Agent
    <3>2. CASE p = a /\ m = x
      <4>1. CASE j = a
        BY <2>1, <3>2, <4>1
      <4>2. CASE j # a
        <5>1. Dist(x.agent, a) = Dist(x.agent, b) + 1 /\ Dist(x.agent, j) # Dist(x.agent, a)
          <6>1. Dist(x.agent, j) = Dist(x.agent, a) => j = a
            BY <1>2, RingNext
          <6> QED BY <1>1, <1>2, <1>5, <4>2, <6>1
        <5>2. Dist(x.agent, j) <= Dist(x.agent, b)
          BY <1>2, <1>5, <2>2, <3>2, <5>1
        <5>3. term[j].initiator <= x.agent
          BY <1>2, <1>3, <2>2, <3>2, <5>2 DEF KnownIn
        <5> QED BY <2>1, <3>2, <4>2, <5>3
      <4> QED BY <4>1, <4>2
    <3>3. RequestAt(Send(ch, a, {Succ(a)}, x), p, i, m)
      BY <2>2 DEF ch, x
    <3> QED BY <1>2, <3>1, <3>2, <3>3, AppendedAt
  <2> QED BY <2>2
<1>11. OrderedIn(chan')
    BY <1>9 DEF ch, x
<1> QED BY <1>10, <1>11 DEF OrderedIn, KnownIn, RequestAt

\* As long as nobody wins, only requests are read, and they stay in order.
LEMMA ElectingReadTerm ==
    ASSUME TypeOK, TypeOK', Election, Targets, Where, NoWinner, NoWinner', Electing,
           OrderedIn(chan), KnownIn(chan), NEW a \in Agent, ReadTerm(a)
    PROVE  OrderedIn(chan)' /\ KnownIn(chan)' /\ Electing'
<1> DEFINE K == WorkKinds \cup {"REQUEST"}
<1>0. PICK b \in Agent \ {a} :
         DropRequest(a, b) \/ ForwardRequest(a, b) \/ RequestReturns(a, b)
         \/ RecvFinal(a, b) \/ RecvFinalAck(a, b) \/ RecvFinalFin(a, b)
    BY DEF ReadTerm
<1> DEFINE x == Head(chan[b][a])
           ch == Consume(chan, b, a)
<1>1. /\ chan \in Chans /\ chan[b][a] # <<>> /\ x \in Msg /\ x.agent \in Agent
      /\ ch \in Chans /\ x.kind \in TermKinds
  <2>1. PICK k \in TermKinds : ReadsTerm(a, b, k)
    BY <1>0 DEF DropRequest, ForwardRequest, RequestReturns, RecvFinal, RecvFinalAck,
                RecvFinalFin, TermKinds
  <2> QED BY <2>1, TermRead
<1>2. KindsIn(ch, K) /\ x.kind = "REQUEST"
  <2>1. KindsIn(ch, K) /\ x.kind \in K
    BY <1>1, KindsRead DEF Electing
  <2> QED BY <1>1, <2>1 DEF TermKinds, WorkKinds
<1>3. Reading(ch)
    BY <1>1 DEF Reading
<1>4. /\ \A j \in Agent \ {a} : /\ pc'[j] = pc[j] /\ terminate'[j] = terminate[j]
                                /\ term'[j] = term[j]
      /\ pc'[a] # "left"
    BY ReadTermMoves
<1>5. CASE DropRequest(a, b)
  <2>1. term' = term /\ chan' = ch /\ terminate'[a] = 1
    BY <1>5 DEF DropRequest, TypeOK
  <2>2. OrderedIn(ch) /\ KnownIn(ch)
    BY <1>3, OrderedRead
  <2>3. OrderedIn(chan)' /\ KnownIn(chan)'
    BY <2>1, <2>2 DEF OrderedIn, KnownIn, RequestAt
  <2>4. KindsIn(chan, K)'
    BY <1>2, <2>1 DEF KindsIn, WorkKinds
  <2>5. \A j \in Agent : terminate'[j] # 2 /\ pc'[j] # "left"
    BY <1>4, <2>1 DEF Electing
  <2> QED BY <2>1, <2>3, <2>4, <2>5 DEF Electing
<1>6. CASE ForwardRequest(a, b)
  <2>1. /\ chan' = Send(ch, a, {Succ(a)}, x) /\ terminate'[a] = 1
        /\ term'[a].initiator = IF x.agent < term[a].initiator
                                THEN x.agent ELSE term[a].initiator
        /\ term'[a].finals = 0
        /\ term'[a].acks = IF term'[a].isLast THEN -1 ELSE 0
    BY <1>6, ForwardElecting
  <2>2. OrderedIn(chan)' /\ KnownIn(chan)'
    BY <1>6, <2>1, OrderedForward
  <2> HIDE DEF ch, x
  <2>3. KindsIn(chan', K)
    BY <1>1, <1>2, <2>1, KindsSend
  <2>4. KindsIn(chan, K)'
    BY <2>3 DEF KindsIn, WorkKinds
  <2>5. \A j \in Agent : terminate'[j] # 2 /\ pc'[j] # "left"
    BY <1>4, <2>1 DEF Electing
  <2>6. \A j \in Agent : term'[j].initiator \in Agent =>
                /\ term'[j].finals = 0
                /\ term'[j].acks = IF term'[j].isLast THEN -1 ELSE 0
    BY <1>4, <2>1 DEF Electing
  <2> QED BY <2>2, <2>4, <2>5, <2>6 DEF Electing
<1>7. ~RequestReturns(a, b)
  <2> SUFFICES ASSUME RequestReturns(a, b) PROVE FALSE
    OBVIOUS
  <2> DEFINE t == TargetsOfFirst([term[a] EXCEPT !.initiator = a])
             c == SendFinal(a, t, ch, Final(a, res[a], path[a]))
  <2>1. Settle(a, t, c)
    BY DEF RequestReturns
  <2>2. term[a] \in Term /\ res[a] \in Res /\ path[a] \in Plan \cup {NoPlan}
    BY DEF TypeOK
  <2>3. t \in Term /\ c \in Chans /\ t.isFirst /\ t.initiator = a
    BY <1>1, <2>2, TargetsType, SendType, MsgTypes DEF SendFinal, TargetsOfFirst, Term
  <2> HIDE DEF t, c
  <2>4. IsWinner(a)'
    BY <2>1, <2>3, SettleFields DEF IsWinner
  <2> QED BY <2>4 DEF NoWinner
<1>8. ~(RecvFinal(a, b) \/ RecvFinalAck(a, b) \/ RecvFinalFin(a, b))
    BY <1>1, <1>2 DEF RecvFinal, RecvFinalAck, RecvFinalFin, ReadsTerm, HasMsg
<1> QED BY <1>0, <1>5, <1>6, <1>7, <1>8

-----------------------------------------------------------------------------
(* The request that comes back is the last one, and starts the flush        *)

\* When the request of w is back, it has beaten all others: none is left in
\* transit, and w is the initiator everybody knows of.
LEMMA LastRequest ==
    ASSUME TypeOK, Election, Targets, Electing, OrderedIn(chan), KnownIn(chan),
           NEW w \in Agent, NEW b \in Agent \ {w}, RequestReturns(w, b)
    PROVE  /\ KindsIn(Consume(chan, b, w), WorkKinds)
           /\ \A j \in Agent \ {w} : terminate[j] # 0 /\ term[j].initiator = w
           /\ terminate[w] # 0
<1> DEFINE x == Head(chan[b][w])
           ch == Consume(chan, b, w)
<1>1. ReadsTerm(w, b, "REQUEST") /\ x.agent = w
    BY DEF RequestReturns
<1>2. /\ ch \in Chans /\ x \in Msg /\ x.kind = "REQUEST"
      /\ chan \in Chans /\ chan[b][w] # <<>> /\ InTransit(chan, b, w, x)
    BY <1>1, TermRead
<1>3. w = Succ(b) /\ RequestAt(chan, b, 1, x)
  <2>1. w = Succ(b)
    BY <1>2 DEF Election, RequestsBeat
  <2> QED BY <1>2, <2>1, HeadAt
<1>4. /\ Dist(w, b) = N - 1 /\ N \in Nat
      /\ \A j \in Agent : /\ Dist(w, j) \in 0 .. N - 1
                          /\ Dist(w, j) = Dist(w, b) => j = b
    BY <1>3, RingType, RingNext, SizeAssumption
<1>5. \A j \in Agent : /\ terminate[j] # 0
                       /\ j # w => Beaten(w, j)
    BY <1>1, <1>2, <1>3, <1>4, RequestsStop
<1>6. ASSUME NEW p \in Agent, NEW q \in Agent, NEW m \in Msg, m.kind = "REQUEST",
             InTransit(ch, p, q, m)
      PROVE  FALSE
  <2>1. InTransit(chan, p, q, m)
    BY <1>2, <1>6, ConsumeTransit
  <2>2. q = Succ(p)
    BY <1>6, <2>1 DEF Election, RequestsBeat
  <2>3. PICK i \in Nat : RequestAt(ch, p, i, m)
    BY <1>6, <2>2 DEF InTransit, RequestAt
  <2>4. PICK n \in Nat : RequestAt(chan, p, n, m) /\ (p = b => n > 1)
    <3>1. CASE p = b
      <4>1. RequestAt(chan, b, i + 1, m) /\ i + 1 \in Nat /\ i + 1 > 1
        BY <1>2, <1>3, <2>3, <3>1, HeadAt
      <4> QED BY <3>1, <4>1
    <3>2. CASE p # b
      <4>1. Reading(ch)
        BY <1>2 DEF Reading
      <4> QED BY <2>3, <3>2, <4>1, ReadAt
    <3> QED BY <3>1, <3>2
  <2>5. IsBehind(w, b, 1, p, n)
    BY <1>4, <2>4 DEF IsBehind
  <2>6. m.agent < w
    BY <1>1, <1>2, <1>3, <2>4, <2>5 DEF OrderedIn
  <2>7. m.agent \in Agent /\ term[m.agent].isInitiator
    BY <2>4, RequestsStop
  <2> QED BY <1>5, <2>6, <2>7 DEF Beaten, Agent
<1>7. KindsIn(ch, WorkKinds)
  <2>1. KindsIn(ch, WorkKinds \cup {"REQUEST"})
    BY <1>2, KindsRead DEF Electing
  <2>2. ASSUME NEW p \in Agent, NEW q \in Agent, NEW i \in 1 .. Len(ch[p][q])
        PROVE  ch[p][q][i] \in Msg /\ InTransit(ch, p, q, ch[p][q][i])
    <3>1. ch[p][q] \in Seq(Msg)
      BY <1>2 DEF Chans
    <3> QED BY <3>1 DEF InTransit
  <2> HIDE DEF ch
  <2>3. \A p, q \in Agent : \A i \in 1 .. Len(ch[p][q]) : ch[p][q][i].kind # "REQUEST"
    BY <1>6, <2>2
  <2> QED BY <2>1, <2>3 DEF KindsIn
<1>8. ASSUME NEW j \in Agent \ {w}
      PROVE  term[j].initiator = w
  <2>1. Dist(w, j) <= Dist(w, b)
    BY <1>4
  <2>2. term[j].initiator <= w
    BY <1>1, <1>2, <1>3, <2>1 DEF KnownIn
  <2>3. term[j].initiator \in Agent
    <3>1. term[j].initiator \in Agent \cup {N}
      BY DEF TypeOK, Term, NoAgent
    <3> QED BY <2>2, <3>1, SizeAssumption DEF Agent
  <2>4. term[term[j].initiator].isInitiator
    BY <2>3 DEF Targets
  <2> QED BY <1>5, <2>2, <2>3, <2>4 DEF Beaten, Agent
<1> QED BY <1>5, <1>7, <1>8

\* What it does: the winner, with no FINAL to wait for, sends its own.
LEMMA ReturnSends ==
    ASSUME TypeOK, TypeOK', Where, Election, NEW w \in Agent, NEW b \in Agent \ {w},
           RequestReturns(w, b)
    PROVE  LET f == Final(w, res[w], path[w])
           IN /\ chan' = Send(Consume(chan, b, w), w, Agent \ {w}, f)
              /\ Consume(chan, b, w) \in Chans /\ f \in Msg
              /\ terminate'[w] = 1 /\ UNCHANGED <<res, path>>
              /\ term'[w].initiator = w /\ term'[w].isFirst
              /\ term'[w].finals = -1 /\ term'[w].acks = 0
              /\ pc[w] = "post" => pc'[w] = "post"
              /\ \A j \in Agent \ {w} : /\ pc'[j] = pc[j] /\ terminate'[j] = terminate[j]
                                        /\ term'[j] = term[j]
<1> DEFINE ch == Consume(chan, b, w)
           f == Final(w, res[w], path[w])
           t == TargetsOfFirst([term[w] EXCEPT !.initiator = w])
           c == SendFinal(w, t, ch, f)
<1>1. Settle(w, t, c) /\ ReadsTerm(w, b, "REQUEST") /\ UNCHANGED <<res, path>>
    BY DEF RequestReturns
<1>2. ch \in Chans /\ term[w] \in Term /\ f \in Msg
    BY <1>1, TermRead, MsgTypes
<1>3. t \in Term /\ c \in Chans
    BY <1>2, TargetsType, SendType DEF SendFinal
<1>4. /\ t.initiator = w /\ t.isFirst /\ ~t.isLast /\ t.finals = 0 /\ t.acks = 0
      /\ t.finalTarget = 0 /\ t.ackTarget = N - 1
    BY <1>2 DEF TargetsOfFirst, Term
<1>5. N - 1 # 0 /\ Dist(w, w) = 0
    BY SizeAssumption, RingType
<1>6. Ahead(w, N - 1) = Agent \ {w}
    BY SizeAssumption DEF Ahead, Dist, Agent
<1>7. c = Send(ch, w, Agent \ {w}, f)
    BY <1>4, <1>6 DEF SendFinal
<1> HIDE DEF t, c, ch
<1>8. chan' = c /\ terminate'[w] = 1
  <2>1. t.acks # t.ackTarget /\ t.acks # -1
    BY <1>4, <1>5
  <2> QED BY <1>1, <1>3, <1>4, <2>1, SettleSends
<1>9. /\ term'[w].initiator = w /\ term'[w].isFirst
      /\ term'[w].finals = -1 /\ term'[w].acks = 0
  <2>1. t.finals = t.finalTarget /\ t.acks # t.ackTarget
    BY <1>4, <1>5
  <2>2. term'[w].finals = -1 /\ term'[w].acks = 0
    BY <1>1, <1>3, <1>4, <2>1, SettleCounters
  <2> QED BY <1>1, <1>3, <1>4, <2>2, SettleFields
<1>10. /\ pc[w] = "post" => pc'[w] = "post"
       /\ \A j \in Agent \ {w} : /\ pc'[j] = pc[j] /\ terminate'[j] = terminate[j]
                                 /\ term'[j] = term[j]
    BY ReadTermMoves DEF ReadTerm
<1> QED BY <1>1, <1>2, <1>7, <1>8, <1>9, <1>10 DEF ch

\* The request is back: its owner w sends FINAL to the agents behind, and is the
\* only one that does.
LEMMA FlushBegins ==
    ASSUME TypeOK, TypeOK', Election, Targets, Where, Electing,
           OrderedIn(chan), KnownIn(chan),
           NEW w \in Agent, NEW b \in Agent \ {w}, RequestReturns(w, b)
    PROVE  IsWinner(w)' /\ FlushFrom(w)'
<1> DEFINE ch == Consume(chan, b, w)
<1>0. PICK f : f = Final(w, res[w], path[w])
    OBVIOUS
<1>1. /\ chan' = Send(ch, w, Agent \ {w}, f) /\ ch \in Chans /\ f \in Msg
      /\ terminate'[w] = 1 /\ UNCHANGED <<res, path>>
      /\ term'[w].initiator = w /\ term'[w].isFirst
      /\ term'[w].finals = -1 /\ term'[w].acks = 0
      /\ pc[w] = "post" => pc'[w] = "post"
      /\ \A j \in Agent \ {w} : /\ pc'[j] = pc[j] /\ terminate'[j] = terminate[j]
                                /\ term'[j] = term[j]
    BY <1>0, ReturnSends
<1>2. /\ KindsIn(ch, WorkKinds)
      /\ \A j \in Agent \ {w} : terminate[j] # 0 /\ term[j].initiator = w
      /\ terminate[w] # 0
    BY LastRequest
<1>3. pc'[w] = "post"
  <2>1. Reads(w)
    BY DEF RequestReturns, ReadsTerm
  <2> QED BY <1>1, <1>2, <2>1 DEF Where, Reads
<1>4. f.kind = "FINAL" /\ f.agent = w /\ f.res = res[w] /\ f.path = path[w]
    BY <1>0 DEF Final
<1> HIDE DEF ch
<1>5. \A j \in Agent \ {w} :
         /\ term'[j].finals = 0
         /\ IsLastOf(w, j) => term'[j].acks = -1
         /\ ~IsLastOf(w, j) => term'[j].acks = 0
  <2> TAKE j \in Agent \ {w}
  <2>1. term[j].initiator \in Agent /\ (term[j].isLast <=> IsLastOf(w, j))
    BY <1>2 DEF Targets
  <2> QED BY <1>1, <2>1 DEF Electing
<1>6. /\ \A q \in Agent \ {w} : q \in After(w, w)
      /\ \A p, q \in Agent : Dist(p, q) \in 0 .. N - 1 /\ (Dist(p, q) = 0 <=> p = q)
    BY RingType DEF After
<1>7. \A p \in Agent : \A q \in Agent \ {p} : HasSent(w, p, q)' <=> p = w
  <2> TAKE p \in Agent
  <2> TAKE q \in Agent \ {p}
  <2>1. CASE p = w
    BY <1>1, <1>6, <2>1 DEF HasSent, SentFinal
  <2>2. CASE p # w
    <3>1. ~SentFinal(p)' /\ ~SentAck(w, p)'
      BY <1>5, <2>2 DEF SentFinal, SentAck
    <3> QED BY <2>2, <3>1 DEF HasSent
  <2> QED BY <2>1, <2>2
<1>8. \A p, q \in Agent : ch[p][q] \in Seq(Msg) /\ Unflushed(ch[p][q])
    BY <1>1, <1>2 DEF Chans, KindsIn, Unflushed
<1>9. \A p, q \in Agent : chan'[p][q] = IF p = w /\ q \in Agent \ {w}
                                        THEN Append(ch[p][q], f) ELSE ch[p][q]
    BY <1>1, SendCell
<1>10. \A q \in Agent \ {w} : IsMark(w, w, q, f)'
  <2>1. Outcome2(f.res, f.path) = Outcome(w)'
    BY <1>1, <1>4 DEF Outcome2, Outcome
  <2> QED BY <1>4, <1>6, <2>1 DEF IsMark
<1>11. \A q \in Agent \ {w} : Flushing(chan'[w][q], f) /\ ~Flushed(chan'[w][q])
  <2> TAKE q \in Agent \ {w}
  <2>1. Flushing(Append(ch[w][q], f), f)
    BY <1>1, <1>8, ShapeAppend
  <2>2. chan'[w][q] = Append(ch[w][q], f) /\ chan'[w][q] \in Seq(Msg)
    <3>1. chan' \in Chans
      BY DEF TypeOK, Chans
    <3>2. chan'[w][q] \in Seq(Msg)
      BY <3>1 DEF Chans
    <3>3. chan'[w][q] = Append(ch[w][q], f)
      BY <1>9
    <3> QED BY <3>2, <3>3
  <2> QED BY <1>1, <1>4, <2>1, <2>2, ShapeApart
<1>12. \A p \in Agent : \A q \in Agent \ {p} : Shape(w, p, q)' /\ ~HasRead(w, p, q)'
  <2> TAKE p \in Agent
  <2> TAKE q \in Agent \ {p}
  <2>1. CASE p = w
    BY <1>1, <1>7, <1>10, <1>11, <2>1 DEF Shape, HasRead
  <2>2. CASE p # w
    BY <1>7, <1>8, <1>9, <2>2 DEF Shape, HasRead
  <2> QED BY <2>1, <2>2
<1>13. \A a \in Agent : FinalsRead(w, a)' = {} /\ AcksRead(w, a)' = {}
  <2> TAKE a \in Agent
  <2>1. Before(w, a) \subseteq Agent \ {a} /\ After(w, a) \subseteq Agent \ {a}
    BY <1>6 DEF Before, After
  <2>2. FinalsRead(w, a)' = {c \in Before(w, a) : HasRead(w, c, a)'}
    BY DEF FinalsRead, Before
  <2>3. AcksRead(w, a)' = {c \in After(w, a) : HasRead(w, c, a)'}
    BY DEF AcksRead, After
  <2> QED BY <1>12, <2>1, <2>2, <2>3
<1>14. \A a \in Agent : /\ Counts(term'[a].finals, {}, Before(w, a))
                        /\ Counts(term'[a].acks, {}, After(w, a))
  <2> TAKE a \in Agent
  <2>0. /\ Counts(IF Dist(w, a) = 0 THEN -1 ELSE 0, {}, Before(w, a))
        /\ Counts(IF N - 1 - Dist(w, a) = 0 THEN -1 ELSE 0, {}, After(w, a))
    BY Counted, CounterStarts
  <2>1. term'[a].finals = IF Dist(w, a) = 0 THEN -1 ELSE 0
    BY <1>1, <1>5, <1>6
  <2>2. N - 1 - Dist(w, a) = 0 <=> IsLastOf(w, a)
    BY <1>6, SizeAssumption DEF IsLastOf
  <2>3. a = w => ~IsLastOf(w, a)
    BY <1>6, SizeAssumption DEF IsLastOf
  <2>4. term'[a].acks = IF N - 1 - Dist(w, a) = 0 THEN -1 ELSE 0
    BY <1>1, <1>5, <2>2, <2>3
  <2> QED BY <2>0, <2>1, <2>4
<1>15. \A a \in Agent : /\ term'[a].initiator = w /\ terminate'[a] # 0
                        /\ terminate'[a] # 2
    BY <1>1, <1>2 DEF Electing
<1>16. \A p, q \in Agent : \A i \in 1 .. Len(chan'[p][q]) :
          chan'[p][q][i].kind # "FINAL_FIN"
  <2>1. KindsIn(ch, WorkKinds \cup {"FINAL"})
    BY <1>2 DEF KindsIn
  <2>2. KindsIn(chan', WorkKinds \cup {"FINAL"})
    BY <1>1, <1>4, <2>1, KindsSend
  <2> QED BY <2>2 DEF KindsIn, WorkKinds
<1>17. \A a \in Agent :
          /\ Counts(term[a].finals, FinalsRead(w, a), Before(w, a))'
          /\ Counts(term[a].acks, AcksRead(w, a), After(w, a))'
    BY <1>13, <1>14 DEF Counts, Before, After
<1>18. IsWinner(w)'
    BY <1>1 DEF IsWinner
<1>19. pc'[w] # "step" /\ ((terminate'[w] = 2) <=> (term'[w].acks = -1))
    BY <1>1, <1>3
<1>20. \A a \in Agent : \A c \in Agent \ {a} : ~HasRead(w, c, a)'
    BY <1>12
<1> QED BY <1>12, <1>15, <1>16, <1>17, <1>18, <1>19, <1>20 DEF FlushFrom

-----------------------------------------------------------------------------
(* The flush, one channel at a time                                         *)

\* What a winner attaches to its mark does not change.
LEMMA MarkKept ==
    ASSUME NEW w \in Agent, NEW p \in Agent, NEW q \in Agent, NEW m,
           p = w => Outcome(w)' = Outcome(w)
    PROVE  IsMark(w, p, q, m)' <=> IsMark(w, p, q, m)
BY DEF IsMark, After

\* A channel that did not change.
LEMMA CellStays ==
    ASSUME NEW w \in Agent, NEW p \in Agent, NEW q \in Agent, Shape(w, p, q),
           p = w => Outcome(w)' = Outcome(w),
           HasSent(w, p, q)' <=> HasSent(w, p, q),
           chan'[p][q] = chan[p][q]
    PROVE  Shape(w, p, q)' /\ (HasRead(w, p, q)' <=> HasRead(w, p, q))
BY MarkKept DEF Shape, HasRead

\* The sender adds a message of the search before its mark.
LEMMA CellWork ==
    ASSUME TypeOK, NEW w \in Agent, NEW p \in Agent, NEW q \in Agent, Shape(w, p, q),
           ~HasSent(w, p, q), ~HasSent(w, p, q)',
           NEW x \in Msg, x.kind \in WorkKinds, chan'[p][q] = Append(chan[p][q], x)
    PROVE  Shape(w, p, q)' /\ (HasRead(w, p, q)' <=> HasRead(w, p, q))
<1>1. chan[p][q] \in Seq(Msg)
    BY DEF TypeOK
<1> QED BY <1>1, ShapeAppend DEF Shape, HasRead

\* The sender adds its mark.
LEMMA CellMark ==
    ASSUME TypeOK, TypeOK', NEW w \in Agent, NEW p \in Agent, NEW q \in Agent,
           Shape(w, p, q), ~HasSent(w, p, q), HasSent(w, p, q)',
           NEW x \in Msg, IsMark(w, p, q, x)', chan'[p][q] = Append(chan[p][q], x)
    PROVE  Shape(w, p, q)' /\ (HasRead(w, p, q)' <=> HasRead(w, p, q))
<1>1. chan[p][q] \in Seq(Msg) /\ chan'[p][q] \in Seq(Msg)
    BY DEF TypeOK
<1>2. Flushing(chan'[p][q], x)
    BY <1>1, ShapeAppend DEF Shape
<1>3. x.kind # "FINAL_FIN"
    BY DEF IsMark
<1>4. ~Flushed(chan'[p][q])
    BY <1>1, <1>2, <1>3, ShapeApart
<1> QED BY <1>2, <1>4 DEF Shape, HasRead

\* The winner adds its FINAL_FIN.
LEMMA CellFin ==
    ASSUME TypeOK, TypeOK', NEW w \in Agent, NEW p \in Agent, NEW q \in Agent,
           Shape(w, p, q), p = w => Outcome(w)' = Outcome(w),
           HasSent(w, p, q), HasSent(w, p, q)',
           NEW x \in Msg, x.kind = "FINAL_FIN", chan'[p][q] = Append(chan[p][q], x)
    PROVE  Shape(w, p, q)' /\ (HasRead(w, p, q)' <=> HasRead(w, p, q))
<1>1. chan[p][q] \in Seq(Msg) /\ chan'[p][q] \in Seq(Msg)
    BY DEF TypeOK
<1>2. CASE Flushed(chan[p][q])
    BY <1>1, <1>2, ShapeAppend DEF Shape, HasRead
<1>3. ASSUME NEW m \in Msg, IsMark(w, p, q, m), Flushing(chan[p][q], m)
      PROVE  Shape(w, p, q)' /\ (HasRead(w, p, q)' <=> HasRead(w, p, q))
  <2>1. m.kind # "FINAL_FIN" /\ IsMark(w, p, q, m)'
    BY <1>3, MarkKept DEF IsMark
  <2>2. Flushing(chan'[p][q], m)
    BY <1>1, <1>3, ShapeAppend
  <2>3. ~Flushed(chan'[p][q]) /\ ~Flushed(chan[p][q])
    BY <1>1, <1>3, <2>1, <2>2, ShapeApart
  <2> QED BY <2>1, <2>2, <2>3 DEF Shape, HasRead
<1> QED BY <1>2, <1>3 DEF Shape

\* What the reader finds tells how far the sender is.
LEMMA CellReads ==
    ASSUME TypeOK, TypeOK', NEW w \in Agent, NEW p \in Agent, NEW q \in Agent,
           Shape(w, p, q), p = w => Outcome(w)' = Outcome(w),
           HasSent(w, p, q)' <=> HasSent(w, p, q),
           chan[p][q] # <<>>, chan'[p][q] = Tail(chan[p][q])
    PROVE  LET x == Head(chan[p][q])
           IN /\ Shape(w, p, q)'
              /\ \/ x.kind \in WorkKinds /\ (HasRead(w, p, q)' <=> HasRead(w, p, q))
                 \/ IsMark(w, p, q, x) /\ ~HasRead(w, p, q) /\ HasRead(w, p, q)'
                 \/ x.kind = "FINAL_FIN" /\ HasRead(w, p, q) /\ HasRead(w, p, q)'
<1>1. chan[p][q] \in Seq(Msg) /\ chan'[p][q] \in Seq(Msg)
    BY DEF TypeOK
<1>2. CASE ~HasSent(w, p, q)
    BY <1>1, <1>2, ShapeTail DEF Shape, HasRead
<1>3. CASE HasSent(w, p, q) /\ Flushed(chan[p][q])
    BY <1>1, <1>3, ShapeTail DEF Shape, HasRead
<1>4. ASSUME HasSent(w, p, q), NEW m \in Msg, IsMark(w, p, q, m), Flushing(chan[p][q], m)
      PROVE  LET x == Head(chan[p][q])
             IN /\ Shape(w, p, q)'
                /\ \/ x.kind \in WorkKinds /\ (HasRead(w, p, q)' <=> HasRead(w, p, q))
                   \/ IsMark(w, p, q, x) /\ ~HasRead(w, p, q) /\ HasRead(w, p, q)'
  <2>1. m.kind # "FINAL_FIN" /\ IsMark(w, p, q, m)'
    BY <1>4, MarkKept DEF IsMark
  <2>2. ~Flushed(chan[p][q])
    BY <1>1, <1>4, <2>1, ShapeApart
  <2>3. CASE Head(chan[p][q]).kind \in WorkKinds /\ Flushing(chan'[p][q], m)
    <3>1. ~Flushed(chan'[p][q])
      BY <1>1, <2>1, <2>3, ShapeApart
    <3> QED BY <1>4, <2>1, <2>2, <2>3, <3>1 DEF Shape, HasRead
  <2>4. CASE Head(chan[p][q]) = m /\ Flushed(chan'[p][q])
    BY <1>4, <2>2, <2>4 DEF Shape, HasRead
  <2> QED BY <1>1, <1>4, <2>3, <2>4, ShapeTail
<1> QED BY <1>2, <1>3, <1>4 DEF Shape

\* Who has read all it waits for, and has sent its own.
LEMMA SentMeansRead ==
    ASSUME NEW w \in Agent, FlushFrom(w), NEW a \in Agent
    PROVE  /\ term[a].finals = -1 <=> FinalsRead(w, a) = Before(w, a)
           /\ term[a].acks = -1 <=> AcksRead(w, a) = After(w, a)
           /\ term[a].finals # Cardinality(Before(w, a))
           /\ term[a].acks # Cardinality(After(w, a))
<1>1. /\ FinalsRead(w, a) \in SUBSET Before(w, a) /\ IsFiniteSet(Before(w, a))
      /\ AcksRead(w, a) \in SUBSET After(w, a) /\ IsFiniteSet(After(w, a))
    BY Counted DEF FinalsRead, AcksRead
<1>2. /\ Counts(term[a].finals, FinalsRead(w, a), Before(w, a))
      /\ Counts(term[a].acks, AcksRead(w, a), After(w, a))
    BY DEF FlushFrom
<1> QED BY <1>1, <1>2, CounterSettled

\* An agent that searches has read no mark, so it has sent none.
LEMMA SearcherSentNothing ==
    ASSUME NEW w \in Agent, FlushFrom(w), NEW a \in Agent, pc[a] = "step",
           NEW b \in Agent \ {a}
    PROVE  a # w /\ ~HasSent(w, a, b)
<1>1. a # w /\ w \in Agent \ {a}
    BY DEF FlushFrom
<1>2. \A c \in Agent \ {a} : ~HasRead(w, c, a)
    BY DEF FlushFrom
<1>3. w \in Before(w, a) /\ w \notin FinalsRead(w, a)
    BY <1>1, <1>2, Targeted DEF FinalsRead
<1>4. term[a].finals # -1
    BY <1>3, SentMeansRead
<1>5. ~IsLastOf(w, a) => term[a].acks # -1
  <2> SUFFICES ASSUME ~IsLastOf(w, a) PROVE term[a].acks # -1
    OBVIOUS
  <2>1. PICK c \in After(w, a) : c \in Agent \ {a}
    BY Targeted DEF After
  <2>2. c \notin AcksRead(w, a)
    BY <1>2, <2>1 DEF AcksRead
  <2> QED BY <2>1, <2>2, SentMeansRead
<1> QED BY <1>1, <1>4, <1>5 DEF HasSent, SentFinal, SentAck

\* The sets a counter counts, after one more message from b, or none.
LEMMA ReadSets ==
    ASSUME NEW w \in Agent, NEW a \in Agent, NEW B,
           \A c \in Agent \ {a} : HasRead(w, c, a)' <=> HasRead(w, c, a) \/ c \in B
    PROVE  /\ FinalsRead(w, a)' = FinalsRead(w, a) \cup (B \cap Before(w, a))
           /\ AcksRead(w, a)' = AcksRead(w, a) \cup (B \cap After(w, a))
           /\ Before(w, a)' = Before(w, a) /\ After(w, a)' = After(w, a)
<1>1. Before(w, a) \subseteq Agent \ {a} /\ After(w, a) \subseteq Agent \ {a}
    BY Targeted DEF Before, After
<1>2. /\ FinalsRead(w, a)' = {c \in Before(w, a) : HasRead(w, c, a)'}
      /\ AcksRead(w, a)' = {c \in After(w, a) : HasRead(w, c, a)'}
      /\ Before(w, a)' = Before(w, a) /\ After(w, a)' = After(w, a)
    BY DEF FinalsRead, AcksRead, Before, After
<1> QED BY <1>1, <1>2 DEF FinalsRead, AcksRead

\* a has read the flush of one agent more.
LEMMA ReadOneMore ==
    ASSUME NEW w \in Agent, NEW a \in Agent, NEW b,
           \A c \in Agent \ {a} : HasRead(w, c, a)' <=> HasRead(w, c, a) \/ c = b
    PROVE  /\ FinalsRead(w, a)' = FinalsRead(w, a) \cup ({b} \cap Before(w, a))
           /\ AcksRead(w, a)' = AcksRead(w, a) \cup ({b} \cap After(w, a))
           /\ Before(w, a)' = Before(w, a) /\ After(w, a)' = After(w, a)
<1>1. PICK B : B = {b}
    OBVIOUS
<1>2. \A c \in Agent \ {a} : HasRead(w, c, a)' <=> HasRead(w, c, a) \/ c \in B
    BY <1>1
<1>3. /\ FinalsRead(w, a)' = FinalsRead(w, a) \cup (B \cap Before(w, a))
      /\ AcksRead(w, a)' = AcksRead(w, a) \cup (B \cap After(w, a))
      /\ Before(w, a)' = Before(w, a) /\ After(w, a)' = After(w, a)
    BY <1>2, ReadSets
<1> QED BY <1>1, <1>3

\* The counters that counted it are right again.
LEMMA CountsMore ==
    ASSUME NEW w \in Agent, NEW a \in Agent, NEW b,
           \A c \in Agent \ {a} : HasRead(w, c, a)' <=> HasRead(w, c, a) \/ c = b,
           Counts(term'[a].finals, FinalsRead(w, a) \cup ({b} \cap Before(w, a)),
                  Before(w, a)),
           Counts(term'[a].acks, AcksRead(w, a) \cup ({b} \cap After(w, a)),
                  After(w, a))
    PROVE  /\ Counts(term[a].finals, FinalsRead(w, a), Before(w, a))'
           /\ Counts(term[a].acks, AcksRead(w, a), After(w, a))'
<1>1. /\ FinalsRead(w, a)' = FinalsRead(w, a) \cup ({b} \cap Before(w, a))
      /\ AcksRead(w, a)' = AcksRead(w, a) \cup ({b} \cap After(w, a))
      /\ Before(w, a)' = Before(w, a) /\ After(w, a)' = After(w, a)
    BY ReadOneMore
<1>2. Counts(term[a].finals, FinalsRead(w, a), Before(w, a))'
    BY <1>1 DEF Counts
<1>3. Counts(term[a].acks, AcksRead(w, a), After(w, a))'
    BY <1>1 DEF Counts
<1> QED BY <1>2, <1>3

\* Counters of an agent that read nothing of the flush.
LEMMA CountsKept ==
    ASSUME NEW w \in Agent, FlushFrom(w), NEW a \in Agent,
           term'[a].finals = term[a].finals, term'[a].acks = term[a].acks,
           \A c \in Agent \ {a} : HasRead(w, c, a)' <=> HasRead(w, c, a)
    PROVE  /\ Counts(term[a].finals, FinalsRead(w, a), Before(w, a))'
           /\ Counts(term[a].acks, AcksRead(w, a), After(w, a))'
<1>1. /\ FinalsRead(w, a)' = FinalsRead(w, a) /\ AcksRead(w, a)' = AcksRead(w, a)
      /\ Before(w, a)' = Before(w, a) /\ After(w, a)' = After(w, a)
  <2>1. PICK B : B = {}
    OBVIOUS
  <2>2. \A c \in Agent \ {a} : HasRead(w, c, a)' <=> HasRead(w, c, a) \/ c \in B
    BY <2>1
  <2>3. /\ FinalsRead(w, a)' = FinalsRead(w, a) \cup (B \cap Before(w, a))
        /\ AcksRead(w, a)' = AcksRead(w, a) \cup (B \cap After(w, a))
        /\ Before(w, a)' = Before(w, a) /\ After(w, a)' = After(w, a)
    BY <2>2, ReadSets
  <2> QED BY <2>1, <2>3
<1>2. /\ Counts(term[a].finals, FinalsRead(w, a), Before(w, a))
      /\ Counts(term[a].acks, AcksRead(w, a), After(w, a))
    BY DEF FlushFrom
<1> QED BY <1>1, <1>2 DEF Counts

\* Steps that read no mark and count nothing.
LEMMA FlushQuiet ==
    ASSUME NEW w \in Agent, FlushFrom(w),
           \A j \in Agent : /\ term'[j].initiator = term[j].initiator
                            /\ term'[j].finals = term[j].finals
                            /\ term'[j].acks = term[j].acks
                            /\ terminate'[j] # 0
                            /\ terminate'[j] = 2 => terminate[w] = 2
                            /\ pc'[j] = "step" => pc[j] = "step",
           terminate'[w] = terminate[w],
           \A p \in Agent : \A q \in Agent \ {p} :
              Shape(w, p, q)' /\ (HasRead(w, p, q)' <=> HasRead(w, p, q)),
           \A p, q \in Agent : \A i \in 1 .. Len(chan'[p][q]) :
              chan'[p][q][i].kind = "FINAL_FIN" => terminate[w] = 2,
           \A j \in Agent \ {w} : HasRead(w, w, j) => Outcome(j)' = Outcome(w)'
    PROVE  FlushFrom(w)'
<1>1. \A j \in Agent : /\ Counts(term[j].finals, FinalsRead(w, j), Before(w, j))'
                       /\ Counts(term[j].acks, AcksRead(w, j), After(w, j))'
    BY CountsKept
<1>2. \A j \in Agent : /\ term'[j].initiator = w
                       /\ terminate'[j] = 2 => terminate'[w] = 2
                       /\ pc'[j] = "step" => \A c \in Agent \ {j} : ~HasRead(w, c, j)'
    BY DEF FlushFrom
<1>3. pc'[w] # "step" /\ (terminate'[w] = 2 <=> term'[w].acks = -1)
    BY DEF FlushFrom
<1>4. \A j \in Agent \ {w} : HasRead(w, w, j)' => Outcome(j)' = Outcome(w)'
    OBVIOUS
<1> QED BY <1>1, <1>2, <1>3, <1>4 DEF FlushFrom

\* Messages in a channel, after one was read or added.
LEMMA FinRead ==
    ASSUME NEW s \in Seq(Msg), s # <<>>
    PROVE  \A i \in 1 .. Len(Tail(s)) : \E j \in 1 .. Len(s) : Tail(s)[i] = s[j]
<1>1. /\ Len(s) \in Nat /\ Len(Tail(s)) = Len(s) - 1
      /\ \A i \in 1 .. Len(Tail(s)) : Tail(s)[i] = s[i + 1]
    OBVIOUS
<1>2. \A i \in 1 .. Len(Tail(s)) : i + 1 \in 1 .. Len(s)
    BY <1>1
<1> QED BY <1>1, <1>2

\* What is in a channel after a send was there, or was sent.
LEMMA FinAdded ==
    ASSUME NEW s \in Seq(Msg), NEW x \in Msg, NEW i \in 1 .. Len(Append(s, x))
    PROVE  Append(s, x)[i] = x \/ \E j \in 1 .. Len(s) : Append(s, x)[i] = s[j]
<1>1. /\ Len(s) \in Nat /\ Len(Append(s, x)) = Len(s) + 1
      /\ Append(s, x)[Len(s) + 1] = x
      /\ \A j \in 1 .. Len(s) : Append(s, x)[j] = s[j]
    OBVIOUS
<1> QED BY <1>1

\* The search does not disturb the flush: a flushed channel gets no more work.
LEMMA FlushSearch ==
    ASSUME TypeOK, TypeOK', Where, NEW w \in Agent, FlushFrom(w),
           NEW a \in Agent, SearchMove(a)
    PROVE  FlushFrom(w)'
<1>0. chan \in Chans
    BY DEF TypeOK, Chans
<1>1. /\ terminate[a] # 0 /\ UNCHANGED <<terminate, term>>
      /\ \A j \in Agent \ {a} : pc'[j] = pc[j] /\ res'[j] = res[j] /\ path'[j] = path[j]
      /\ \/ pc[a] = "step" /\ SearchSends(a, chan)
         \/ /\ pc[a] = "post" /\ UNCHANGED <<pc, res, path>>
            /\ SearchReads(a, chan')
    BY DEF SearchMove, FlushFrom
<1>2. \A p, q \in Agent : HasSent(w, p, q)' <=> HasSent(w, p, q)
    BY <1>1 DEF HasSent, SentFinal, SentAck, After, IsLastOf
<1>3. \A p \in Agent : \A q \in Agent \ {p} : Shape(w, p, q) /\ chan[p][q] \in Seq(Msg)
    BY <1>0 DEF FlushFrom, Chans
<1>4. \A p, q \in Agent : \A i \in 1 .. Len(chan[p][q]) :
         chan[p][q][i].kind = "FINAL_FIN" => terminate[w] = 2
    BY DEF FlushFrom
<1>5. \A j \in Agent \ {w} : HasRead(w, w, j) => Outcome(j) = Outcome(w)
    BY DEF FlushFrom
<1>6. /\ a = w => pc[a] # "step"
      /\ \A j \in Agent : terminate[j] # 0 /\ (terminate[j] = 2 => terminate[w] = 2)
    BY DEF FlushFrom
<1>7. CASE pc[a] = "step" /\ SearchSends(a, chan)
  <2>0. a # w
    BY <1>6, <1>7
  <2>1. Outcome(w)' = Outcome(w)
    BY <1>1, <2>0 DEF Outcome
  <2>2. ASSUME NEW j \in Agent \ {w}, HasRead(w, w, j)
        PROVE  Outcome(j)' = Outcome(w)'
    <3>1. j # a
      BY <1>7, <2>2 DEF FlushFrom
    <3>2. Outcome(j)' = Outcome(j)
      BY <1>1, <3>1 DEF Outcome
    <3> QED BY <1>5, <2>1, <2>2, <3>2
  <2>3. CASE chan' = chan
    <3>1. \A p \in Agent : \A q \in Agent \ {p} :
             Shape(w, p, q)' /\ (HasRead(w, p, q)' <=> HasRead(w, p, q))
      BY <1>2, <1>3, <2>1, <2>3, CellStays
    <3> QED BY <1>1, <1>4, <1>6, <1>7, <2>2, <2>3, <3>1, FlushQuiet
  <2>4. ASSUME NEW S \in SUBSET (Agent \ {a}), NEW k \in WorkKinds,
               chan' = Send(chan, a, S, Plain(k, a))
        PROVE  FlushFrom(w)'
    <3>0. PICK x \in Msg : x = Plain(k, a) /\ x.kind \in WorkKinds
      BY MsgTypes DEF Plain, WorkKinds, Kinds, Res
    <3>1. \A p, q \in Agent : chan'[p][q] = IF p = a /\ q \in S
                                            THEN Append(chan[p][q], x) ELSE chan[p][q]
      BY <2>4, <3>0, SendCell
    <3>2. \A p \in Agent : \A q \in Agent \ {p} :
             Shape(w, p, q)' /\ (HasRead(w, p, q)' <=> HasRead(w, p, q))
      <4> TAKE p \in Agent
      <4> TAKE q \in Agent \ {p}
      <4>1. CASE p = a /\ q \in S
        <5>1. ~HasSent(w, a, q)
          BY <1>7, <4>1, SearcherSentNothing
        <5> QED BY <1>2, <1>3, <3>0, <3>1, <4>1, <5>1, CellWork
      <4>2. CASE ~(p = a /\ q \in S)
        BY <1>2, <1>3, <2>1, <3>1, <4>2, CellStays
      <4> QED BY <4>1, <4>2
    <3>3. \A p, q \in Agent : \A i \in 1 .. Len(chan'[p][q]) :
             chan'[p][q][i].kind = "FINAL_FIN" => terminate[w] = 2
      <4>1. x.kind # "FINAL_FIN"
        BY <3>0 DEF WorkKinds
      <4>2. \A p, q \in Agent : chan[p][q] \in Seq(Msg)
        BY <1>0 DEF Chans
      <4>3. ASSUME NEW p \in Agent, NEW q \in Agent
            PROVE  \A i \in 1 .. Len(chan'[p][q]) :
                      chan'[p][q][i].kind = "FINAL_FIN" => terminate[w] = 2
        <5>1. CASE p = a /\ q \in S
          <6>1. chan'[p][q] = Append(chan[p][q], x)
            BY <3>1, <5>1
          <6> QED BY <1>4, <4>1, <4>2, <6>1, FinAdded
        <5>2. CASE ~(p = a /\ q \in S)
          BY <1>4, <3>1, <5>2
        <5> QED BY <5>1, <5>2
      <4> QED BY <4>3
    <3> QED BY <1>1, <1>6, <1>7, <2>2, <3>2, <3>3, FlushQuiet
  <2> QED BY <1>7, <2>3, <2>4 DEF SearchSends
<1>8. CASE /\ pc[a] = "post" /\ UNCHANGED <<pc, res, path>>
           /\ SearchReads(a, chan')
  <2>1. \A j \in Agent : Outcome(j)' = Outcome(j)
    BY <1>8 DEF Outcome
  <2>2. CASE chan' = chan
    <3>1. \A p \in Agent : \A q \in Agent \ {p} :
             Shape(w, p, q)' /\ (HasRead(w, p, q)' <=> HasRead(w, p, q))
      BY <1>2, <1>3, <2>1, <2>2, CellStays
    <3> QED BY <1>1, <1>4, <1>5, <1>6, <1>8, <2>1, <2>2, <3>1, FlushQuiet
  <2>3. ASSUME NEW b \in Agent \ {a}, chan[b][a] # <<>>,
               Head(chan[b][a]).kind \in WorkKinds, chan' = Consume(chan, b, a)
        PROVE  FlushFrom(w)'
    <3>1. \A p, q \in Agent : chan'[p][q] = IF p = b /\ q = a
                                            THEN Tail(chan[p][q]) ELSE chan[p][q]
      BY <1>0, <2>3, ConsumeCell
    <3>2. \A p \in Agent : \A q \in Agent \ {p} :
             Shape(w, p, q)' /\ (HasRead(w, p, q)' <=> HasRead(w, p, q))
      <4> TAKE p \in Agent
      <4> TAKE q \in Agent \ {p}
      <4>1. CASE p = b /\ q = a
        <5>1. \A m : IsMark(w, p, q, m) => m.kind \notin WorkKinds
          BY DEF IsMark, WorkKinds
        <5>2. Head(chan[b][a]).kind # "FINAL_FIN"
          BY <2>3 DEF WorkKinds
        <5> QED BY <1>2, <1>3, <2>1, <2>3, <3>1, <4>1, <5>1, <5>2, CellReads
      <4>2. CASE ~(p = b /\ q = a)
        BY <1>2, <1>3, <2>1, <3>1, <4>2, CellStays
      <4> QED BY <4>1, <4>2
    <3>3. \A p, q \in Agent : \A i \in 1 .. Len(chan'[p][q]) :
             chan'[p][q][i].kind = "FINAL_FIN" => terminate[w] = 2
      <4>1. \A p, q \in Agent : chan[p][q] \in Seq(Msg)
        BY <1>0 DEF Chans
      <4>2. ASSUME NEW p \in Agent, NEW q \in Agent
            PROVE  \A i \in 1 .. Len(chan'[p][q]) :
                      chan'[p][q][i].kind = "FINAL_FIN" => terminate[w] = 2
        <5>1. CASE p = b /\ q = a
          <6>1. chan'[p][q] = Tail(chan[p][q])
            BY <3>1, <5>1
          <6> QED BY <1>4, <2>3, <4>1, <5>1, <6>1, FinRead
        <5>2. CASE ~(p = b /\ q = a)
          BY <1>4, <3>1, <5>2
        <5> QED BY <5>1, <5>2
      <4> QED BY <4>2
    <3> QED BY <1>1, <1>5, <1>6, <1>8, <2>1, <3>2, <3>3, FlushQuiet
  <2> QED BY <1>8, <2>2, <2>3 DEF SearchReads
<1> QED BY <1>1, <1>7, <1>8

\* An agent leaves; the flush goes on as before.
LEMMA FlushLeave ==
    ASSUME TypeOK, NEW w \in Agent, FlushFrom(w), NEW a \in Agent, Leave(a)
    PROVE  FlushFrom(w)'
<1>1. /\ UNCHANGED <<terminate, path, term, chan>> /\ pc'[a] = "left"
      /\ \A j \in Agent \ {a} : pc'[j] = pc[j]
      /\ \A j \in Agent : Outcome(j)' = Outcome(j)
    BY LeaveMoves
<1>2. \A p, q \in Agent : HasSent(w, p, q)' <=> HasSent(w, p, q)
    BY <1>1 DEF HasSent, SentFinal, SentAck, After, IsLastOf
<1>3. \A p \in Agent : \A q \in Agent \ {p} :
         Shape(w, p, q)' /\ (HasRead(w, p, q)' <=> HasRead(w, p, q))
    BY <1>1, <1>2, CellStays DEF FlushFrom
<1>4. \A j \in Agent \ {w} : HasRead(w, w, j) => Outcome(j)' = Outcome(w)'
    BY <1>1 DEF FlushFrom
<1>5. \A p, q \in Agent : \A i \in 1 .. Len(chan'[p][q]) :
         chan'[p][q][i].kind = "FINAL_FIN" => terminate[w] = 2
    BY <1>1 DEF FlushFrom
<1>6. \A j \in Agent : /\ terminate'[j] # 0 /\ (terminate'[j] = 2 => terminate[w] = 2)
                       /\ pc'[j] = "step" => pc[j] = "step"
    BY <1>1 DEF FlushFrom
<1> QED BY <1>1, <1>3, <1>4, <1>5, <1>6, FlushQuiet

\* What an agent reads during the flush, and where it reads it.
LEMMA FlushReads ==
    ASSUME TypeOK, Where, NEW w \in Agent, FlushFrom(w), NEW a \in Agent,
           NEW b \in Agent \ {a}, NEW k \in TermKinds, ReadsTerm(a, b, k)
    PROVE  LET x == Head(chan[b][a])
           IN /\ pc[a] = "post" /\ terminate[a] = 1
              /\ chan[b][a] # <<>> /\ x \in Msg /\ x.kind = k
              /\ \/ IsMark(w, b, a, x)
                 \/ k = "FINAL_FIN" /\ terminate[w] = 2
<1>1. /\ chan[b][a] # <<>> /\ Head(chan[b][a]) \in Msg
      /\ Head(chan[b][a]).kind = k /\ chan[b][a] \in Seq(Msg)
  <2>1. chan[b][a] \in Seq(Msg)
      BY DEF TypeOK, Chans
  <2>2. chan[b][a] # <<>> /\ Head(chan[b][a]).kind = k
      BY DEF ReadsTerm, HasMsg
  <2> QED BY <2>1, <2>2
<1>2. pc[a] = "post" /\ terminate[a] = 1
    BY DEF ReadsTerm, Reads, Where, FlushFrom
<1>3. k \notin WorkKinds
    BY DEF TermKinds, WorkKinds
<1>4. Shape(w, b, a)
    BY DEF FlushFrom
<1>5. IsMark(w, b, a, Head(chan[b][a])) \/ k = "FINAL_FIN"
    BY <1>1, <1>3, <1>4, ShapeTail DEF Shape
<1>6. k = "FINAL_FIN" => terminate[w] = 2
  <2>1. 1 \in 1 .. Len(chan[b][a]) /\ chan[b][a][1] = Head(chan[b][a])
    BY <1>1
  <2> QED BY <1>1, <2>1 DEF FlushFrom
<1> QED BY <1>1, <1>2, <1>5, <1>6

\* The channels, when a reads a message of b.
LEMMA FlushCells ==
    ASSUME TypeOK, NEW w \in Agent, FlushFrom(w),
           NEW a \in Agent, NEW b \in Agent \ {a}, chan[b][a] # <<>>,
           \A p, q \in Agent : chan'[p][q] = IF p = b /\ q = a
                                             THEN Tail(chan[p][q]) ELSE chan[p][q]
    PROVE  \A p, q \in Agent : \A i \in 1 .. Len(chan'[p][q]) :
              chan'[p][q][i].kind = "FINAL_FIN" => terminate[w] = 2
<1>1. \A p, q \in Agent : chan[p][q] \in Seq(Msg)
    BY DEF TypeOK
<1>2. \A p, q \in Agent : \A i \in 1 .. Len(chan[p][q]) :
         chan[p][q][i].kind = "FINAL_FIN" => terminate[w] = 2
    BY DEF FlushFrom
<1>3. ASSUME NEW p \in Agent, NEW q \in Agent
      PROVE  \A i \in 1 .. Len(chan'[p][q]) :
                chan'[p][q][i].kind = "FINAL_FIN" => terminate[w] = 2
  <2>1. CASE p = b /\ q = a
    <3>1. chan'[p][q] = Tail(chan[p][q])
      BY <2>1
    <3> QED BY <1>1, <1>2, <2>1, <3>1, FinRead
  <2>2. CASE ~(p = b /\ q = a)
    BY <1>2, <2>2
  <2> QED BY <2>1, <2>2
<1> QED BY <1>3

\* FINAL_FIN tells an agent to leave.
LEMMA FlushFin ==
    ASSUME TypeOK, TypeOK', Where, NEW w \in Agent, FlushFrom(w),
           NEW a \in Agent, NEW b \in Agent \ {a}, RecvFinalFin(a, b)
    PROVE  FlushFrom(w)'
<1>0. chan \in Chans
    BY DEF TypeOK, Chans
<1>1. /\ terminate' = [terminate EXCEPT ![a] = 2] /\ chan' = Consume(chan, b, a)
      /\ ReadsTerm(a, b, "FINAL_FIN") /\ UNCHANGED <<res, path, term>>
    BY DEF RecvFinalFin
<1>2. /\ pc[a] = "post" /\ terminate[a] = 1 /\ chan[b][a] # <<>>
      /\ Head(chan[b][a]).kind = "FINAL_FIN" /\ terminate[w] = 2
  <2>1. \A m : IsMark(w, b, a, m) => m.kind # "FINAL_FIN"
    BY DEF IsMark
  <2>2. "FINAL_FIN" \in TermKinds
    BY DEF TermKinds
  <2> QED BY <1>1, <2>1, <2>2, FlushReads
<1>3. \A j \in Agent : terminate'[j] = IF j = a THEN 2 ELSE terminate[j]
    BY <1>1 DEF TypeOK
<1>4. \A j \in Agent : pc'[j] = pc[j]
  <2>1. ReadTerm(a)
    BY DEF ReadTerm
  <2> QED BY <1>2, <2>1, ReadTermMoves
<1>5. /\ \A j \in Agent : Outcome(j)' = Outcome(j)
      /\ \A p, q \in Agent : HasSent(w, p, q)' <=> HasSent(w, p, q)
    BY <1>1 DEF Outcome, HasSent, SentFinal, SentAck, After, IsLastOf
<1>6. \A p, q \in Agent : chan'[p][q] = IF p = b /\ q = a
                                        THEN Tail(chan[p][q]) ELSE chan[p][q]
    BY <1>0, <1>1, ConsumeCell
<1>7. \A p \in Agent : \A q \in Agent \ {p} :
         Shape(w, p, q)' /\ (HasRead(w, p, q)' <=> HasRead(w, p, q))
  <2> TAKE p \in Agent
  <2> TAKE q \in Agent \ {p}
  <2>0. Shape(w, p, q)
    BY DEF FlushFrom
  <2>1. CASE p = b /\ q = a
    <3>1. \A m : IsMark(w, p, q, m) => m.kind # "FINAL_FIN"
      BY DEF IsMark
    <3>2. Head(chan[p][q]).kind \notin WorkKinds
      BY <1>2, <2>1 DEF WorkKinds
    <3> QED BY <1>2, <1>5, <1>6, <2>0, <2>1, <3>1, <3>2, CellReads
  <2>2. CASE ~(p = b /\ q = a)
    BY <1>5, <1>6, <2>0, <2>2, CellStays
  <2> QED BY <2>1, <2>2
<1>8. \A j \in Agent \ {w} : HasRead(w, w, j) => Outcome(j)' = Outcome(w)'
    BY <1>5 DEF FlushFrom
<1>9. \A p, q \in Agent : \A i \in 1 .. Len(chan'[p][q]) :
         chan'[p][q][i].kind = "FINAL_FIN" => terminate[w] = 2
    BY <1>2, <1>6, FlushCells
<1>10. \A j \in Agent : terminate'[j] # 0
    BY <1>3 DEF FlushFrom
<1>11. terminate'[w] = terminate[w]
    BY <1>2, <1>3
<1> QED BY <1>1, <1>2, <1>4, <1>7, <1>8, <1>9, <1>10, <1>11, FlushQuiet

-----------------------------------------------------------------------------
(* Steps that read a mark                                                   *)

LEMMA MarkUnread ==
    ASSUME TypeOK, NEW w \in Agent, FlushFrom(w), NEW a \in Agent,
           NEW b \in Agent \ {a}, chan[b][a] # <<>>,
           IsMark(w, b, a, Head(chan[b][a]))
    PROVE  HasSent(w, b, a) /\ ~HasRead(w, b, a)
<1>1. chan[b][a] \in Seq(Msg) /\ Shape(w, b, a)
    BY DEF TypeOK, FlushFrom
<1>2. Head(chan[b][a]).kind \notin WorkKinds /\ Head(chan[b][a]).kind # "FINAL_FIN"
    BY DEF IsMark, WorkKinds
<1> QED BY <1>1, <1>2, ShapeTail DEF Shape, HasRead

\* What such a step leaves of FlushFrom: the reader has counted the mark, and
\* has sent what its counters call for.
LEMMA MarkStep ==
    ASSUME TypeOK, TypeOK', NEW w \in Agent, FlushFrom(w),
           NEW a \in Agent, NEW b \in Agent \ {a}, chan[b][a] # <<>>,
           terminate[a] = 1, IsMark(w, b, a, Head(chan[b][a])),
           \A j \in Agent \ {a} : /\ term'[j] = term[j] /\ terminate'[j] = terminate[j]
                                  /\ pc'[j] = pc[j]
                                  /\ res'[j] = res[j] /\ path'[j] = path[j],
           term'[a].initiator = w, pc'[a] = "post",
           \A p \in Agent \ {a} : \A q \in Agent :
              chan'[p][q] = IF p = b /\ q = a THEN Tail(chan[p][q]) ELSE chan[p][q],
           \A q \in Agent \ {a} :
              Shape(w, a, q)' /\ (HasRead(w, a, q)' <=> HasRead(w, a, q)),
           Counts(term'[a].finals, FinalsRead(w, a) \cup ({b} \cap Before(w, a)),
                  Before(w, a)),
           Counts(term'[a].acks, AcksRead(w, a) \cup ({b} \cap After(w, a)),
                  After(w, a)),
           terminate'[a] # 0,
           terminate'[a] = 2 => a = w,
           a = w => (terminate'[w] = 2 <=> term'[w].acks = -1),
           a = w \/ b # w => Outcome(a)' = Outcome(a),
           a # w /\ b = w => Outcome(a)' = Outcome(w),
           terminate'[w] = 2 \/ KindsIn(chan', Kinds \ {"FINAL_FIN"})
    PROVE  FlushFrom(w)'
<1>1. /\ Outcome(w)' = Outcome(w)
      /\ \A j \in Agent \ {a} : Outcome(j)' = Outcome(j)
    BY DEF Outcome
<1>2. \A p \in Agent : \A q \in Agent \ {p} :
         /\ Shape(w, p, q)'
         /\ HasRead(w, p, q)' <=> HasRead(w, p, q) \/ (p = b /\ q = a)
  <2> TAKE p \in Agent
  <2> TAKE q \in Agent \ {p}
  <2>0. Shape(w, p, q)
    BY DEF FlushFrom
  <2>1. CASE p = a
    BY <2>1
  <2>2. CASE p # a
    <3>1. HasSent(w, p, q)' <=> HasSent(w, p, q)
      BY <2>2 DEF HasSent, SentFinal, SentAck, After, IsLastOf
    <3>2. CASE p = b /\ q = a
      <4>1. /\ Head(chan[p][q]).kind \notin WorkKinds
            /\ Head(chan[p][q]).kind # "FINAL_FIN"
        BY <3>2 DEF IsMark, WorkKinds
      <4>2. chan'[p][q] = Tail(chan[p][q]) /\ chan[p][q] # <<>>
        BY <2>2, <3>2
      <4>3. Shape(w, p, q)' /\ HasRead(w, p, q)'
        BY <1>1, <2>0, <3>1, <4>1, <4>2, CellReads
      <4> QED BY <3>2, <4>3
    <3>3. CASE ~(p = b /\ q = a)
      BY <1>1, <2>0, <2>2, <3>1, <3>3, CellStays
    <3> QED BY <3>2, <3>3
  <2> QED BY <2>1, <2>2
<1>3. \A j \in Agent : /\ Counts(term[j].finals, FinalsRead(w, j), Before(w, j))'
                       /\ Counts(term[j].acks, AcksRead(w, j), After(w, j))'
  <2> TAKE j \in Agent
  <2>1. CASE j # a
    BY <1>2, <2>1, CountsKept
  <2>2. CASE j = a
    <3>1. \A c \in Agent \ {a} : HasRead(w, c, a)' <=> HasRead(w, c, a) \/ c = b
      BY <1>2
    <3>2. /\ Counts(term[a].finals, FinalsRead(w, a), Before(w, a))'
          /\ Counts(term[a].acks, AcksRead(w, a), After(w, a))'
      BY <3>1, CountsMore
    <3> QED BY <2>2, <3>2
  <2> QED BY <2>1, <2>2
<1>4. \A j \in Agent : /\ term'[j].initiator = w /\ terminate'[j] # 0
                       /\ terminate'[j] = 2 => terminate'[w] = 2
  <2> TAKE j \in Agent
  <2>1. CASE j = a
    BY <2>1
  <2>2. CASE j # a
    <3>1. terminate[j] = 2 => terminate[w] = 2
      BY DEF FlushFrom
    <3> QED BY <2>2, <3>1 DEF FlushFrom
  <2> QED BY <2>1, <2>2
<1>5. \A j \in Agent : pc'[j] = "step" => \A c \in Agent \ {j} : ~HasRead(w, c, j)'
  <2> TAKE j \in Agent
  <2>1. CASE j = a
    BY <2>1
  <2>2. CASE j # a
    BY <1>2, <2>2 DEF FlushFrom
  <2> QED BY <2>1, <2>2
<1>6. pc'[w] # "step" /\ (terminate'[w] = 2 <=> term'[w].acks = -1)
    BY DEF FlushFrom
<1>7. ASSUME NEW j \in Agent \ {w}, HasRead(w, w, j)'
      PROVE  Outcome(j)' = Outcome(w)'
  <2>1. HasRead(w, w, j) \/ (w = b /\ j = a)
    BY <1>2, <1>7
  <2>2. HasRead(w, w, j) => Outcome(j) = Outcome(w)
    BY DEF FlushFrom
  <2> QED BY <1>1, <2>1, <2>2
<1>8. \A p, q \in Agent : \A i \in 1 .. Len(chan'[p][q]) :
         chan'[p][q][i].kind = "FINAL_FIN" => terminate'[w] = 2
    BY DEF KindsIn
<1> QED BY <1>2, <1>3, <1>4, <1>5, <1>6, <1>7, <1>8 DEF FlushFrom

\* No FINAL_FIN is there before the winner has sent one.
LEMMA NoFin ==
    ASSUME TypeOK, NEW w \in Agent, FlushFrom(w), terminate[w] # 2
    PROVE  KindsIn(chan, Kinds \ {"FINAL_FIN"})
<1>1. \A p, q \in Agent : \A i \in 1 .. Len(chan[p][q]) :
         chan[p][q][i] \in Msg /\ chan[p][q][i].kind # "FINAL_FIN"
    BY DEF TypeOK, FlushFrom
<1> QED BY <1>1 DEF KindsIn, Msg

\* The channels of a reader that may also send one message to some agents.
ReadsAndSends(a, b, S, x) ==
    chan' = Send(Consume(chan, b, a), a, S, x)

\* Its channels, one by one: q is told, or not.
LEMMA SentCells ==
    ASSUME TypeOK, NEW a \in Agent, NEW b \in Agent \ {a}, chan[b][a] # <<>>,
           NEW S, NEW x \in Msg, ReadsAndSends(a, b, S, x)
    PROVE  /\ \A p \in Agent \ {a} : \A q \in Agent :
                 chan'[p][q] = IF p = b /\ q = a THEN Tail(chan[p][q]) ELSE chan[p][q]
           /\ \A q \in Agent : chan'[a][q] = IF q \in S THEN Append(chan[a][q], x)
                                             ELSE chan[a][q]
<1>1. chan \in Chans
    BY DEF TypeOK, Chans
<1>2. \A p, q \in Agent : chan'[p][q] =
         IF p = a /\ q \in S THEN Append(Consume(chan, b, a)[p][q], x)
         ELSE Consume(chan, b, a)[p][q]
    BY SendCell DEF ReadsAndSends
<1>3. \A p, q \in Agent : Consume(chan, b, a)[p][q] =
         IF p = b /\ q = a THEN Tail(chan[p][q]) ELSE chan[p][q]
    BY <1>1, ConsumeCell
<1> QED BY <1>2, <1>3

\* Kinds of messages in the channels after one was read and others sent.
LEMMA SentKinds ==
    ASSUME TypeOK, NEW a \in Agent, NEW b \in Agent \ {a}, chan[b][a] # <<>>,
           NEW S, NEW x \in Msg, ReadsAndSends(a, b, S, x),
           NEW K, KindsIn(chan, K), x.kind \in K
    PROVE  KindsIn(chan', K)
<1>1. Consume(chan, b, a) \in Chans /\ KindsIn(Consume(chan, b, a), K)
  <2>1. chan \in Chans
    BY DEF TypeOK, Chans
  <2> QED BY <2>1, ConsumeType, KindsRead
<1> QED BY <1>1, KindsSend DEF ReadsAndSends

\* Sending to nobody.
LEMMA SentToNobody ==
    ASSUME TypeOK, NEW a \in Agent, NEW b \in Agent \ {a}, chan[b][a] # <<>>, NEW x,
           chan' = Consume(chan, b, a)
    PROVE  ReadsAndSends(a, b, {}, x)
<1> DEFINE ch == Consume(chan, b, a)
<1>1. ch \in Chans
    BY ConsumeType DEF TypeOK, Chans
<1> HIDE DEF ch
<1>2. ch = [p \in Agent |-> [q \in Agent |-> ch[p][q]]]
    BY <1>1 DEF Chans
<1>3. Send(ch, a, {}, x) = [p \in Agent |-> [q \in Agent |-> ch[p][q]]]
    BY DEF Send
<1> QED BY <1>2, <1>3 DEF ReadsAndSends, ch

\* The fields of an agent that counts a mark, compared with their targets.
LEMMA TargetsMet ==
    ASSUME TypeOK, Targets, NEW w \in Agent, FlushFrom(w), NEW a \in Agent
    PROVE  /\ term[a] \in Term
           /\ term[a].finalTarget = Cardinality(Before(w, a))
           /\ term[a].ackTarget = Cardinality(After(w, a))
           /\ term[a].isFirst <=> w = a
           /\ term[a].isLast <=> IsLastOf(w, a)
           /\ Ahead(a, term[a].ackTarget) = After(w, a)
           /\ Behind(a, term[a].finalTarget) = Before(w, a)
<1>1. term[a] \in Term /\ term[a].initiator = w
    BY DEF TypeOK, FlushFrom
<1>2. /\ term[a].isFirst <=> w = a
      /\ term[a].isLast <=> IsLastOf(w, a)
      /\ term[a].finalTarget = Dist(w, a)
      /\ term[a].ackTarget = N - 1 - Dist(w, a)
    BY <1>1 DEF Targets
<1> QED BY <1>1, <1>2, Counted, Targeted

\* The messages an agent sends when a counter fires are its marks: to those it
\* had sent none, which it now has.
SendsMarks(w, a, S, x) ==
    \A q \in Agent \ {a} :
        IF q \in S THEN ~HasSent(w, a, q) /\ HasSent(w, a, q)' /\ IsMark(w, a, q, x)'
        ELSE HasSent(w, a, q)' <=> HasSent(w, a, q)

\* What a sends are the messages with which it flushes its channels.
LEMMA MarksSent ==
    ASSUME TypeOK, TypeOK', NEW w \in Agent, FlushFrom(w),
           NEW a \in Agent \ {w}, NEW b \in Agent \ {a}, chan[b][a] # <<>>,
           NEW S, NEW x \in Msg, ReadsAndSends(a, b, S, x), SendsMarks(w, a, S, x)
    PROVE  /\ \A p \in Agent \ {a} : \A q \in Agent :
                 chan'[p][q] = IF p = b /\ q = a THEN Tail(chan[p][q]) ELSE chan[p][q]
           /\ \A q \in Agent \ {a} :
                 Shape(w, a, q)' /\ (HasRead(w, a, q)' <=> HasRead(w, a, q))
<1>1. /\ \A p \in Agent \ {a} : \A q \in Agent :
            chan'[p][q] = IF p = b /\ q = a THEN Tail(chan[p][q]) ELSE chan[p][q]
      /\ \A q \in Agent : chan'[a][q] = IF q \in S THEN Append(chan[a][q], x)
                                        ELSE chan[a][q]
    BY SentCells
<1>2. ASSUME NEW q \in Agent \ {a}
      PROVE  Shape(w, a, q)' /\ (HasRead(w, a, q)' <=> HasRead(w, a, q))
  <2>0. Shape(w, a, q)
    BY DEF FlushFrom
  <2>1. CASE q \in S
    <3>1. ~HasSent(w, a, q) /\ HasSent(w, a, q)' /\ IsMark(w, a, q, x)'
      BY <2>1 DEF SendsMarks
    <3>2. chan'[a][q] = Append(chan[a][q], x)
      BY <1>1, <2>1
    <3> QED BY <2>0, <3>1, <3>2, CellMark
  <2>2. CASE q \notin S
    <3>1. HasSent(w, a, q)' <=> HasSent(w, a, q)
      BY <2>2 DEF SendsMarks
    <3>2. chan'[a][q] = chan[a][q]
      BY <1>1, <2>2
    <3> QED BY <2>0, <3>1, <3>2, CellStays
  <2> QED BY <2>1, <2>2
<1> QED BY <1>1, <1>2

\* All FINAL messages are in: the agent passes FINAL on to those ahead of it,
\* and the last agent answers all others with FINAL_ACK.
LEMMA FinalSends ==
    ASSUME TypeOK, TypeOK', Where, Targets, NEW w \in Agent, FlushFrom(w),
           NEW a \in Agent, NEW b \in Agent \ {a}, RecvFinal(a, b)
    PROVE  /\ a # w /\ b \in Before(w, a) /\ b \notin After(w, a)
           /\ term'[a].initiator = w /\ terminate'[a] = 1
           /\ Counts(term'[a].finals, FinalsRead(w, a) \cup {b}, Before(w, a))
           /\ term'[a].acks = term[a].acks
           /\ \E S : \E x \in Msg : /\ x.kind # "FINAL_FIN"
                                    /\ ReadsAndSends(a, b, S, x)
                                    /\ SendsMarks(w, a, S, x)
<1> DEFINE t == [term[a] EXCEPT !.finals = @ + 1]
           ch == Consume(chan, b, a)
           F == FinalsRead(w, a) \cup {b}
<1>1. ReadsTerm(a, b, "FINAL") /\ Settle(a, t, ch)
    BY DEF RecvFinal
<1>2. /\ chan[b][a] # <<>> /\ Head(chan[b][a]).kind = "FINAL"
      /\ IsMark(w, b, a, Head(chan[b][a])) /\ ch \in Chans
  <2>1. "FINAL" \in TermKinds /\ "FINAL" # "FINAL_FIN"
    BY DEF TermKinds
  <2> QED BY <1>1, <2>1, FlushReads, TermRead
<1>3. a # w /\ b \in Before(w, a) /\ b \notin After(w, a)
  <2>1. a \in After(w, b)
    BY <1>2 DEF IsMark
  <2> QED BY <2>1, Targeted
<1>4. /\ t \in Term /\ t.finals = term[a].finals + 1 /\ t.acks = term[a].acks
      /\ t.initiator = w /\ ~t.isFirst
      /\ t.isLast <=> IsLastOf(w, a)
      /\ t.finalTarget = Cardinality(Before(w, a))
      /\ t.ackTarget = Cardinality(After(w, a))
      /\ Ahead(a, t.ackTarget) = After(w, a)
      /\ Behind(a, t.finalTarget) = Before(w, a)
  <2>1. /\ t \in Term /\ t.finals = term[a].finals + 1 /\ t.acks = term[a].acks
        /\ t.initiator = term[a].initiator
        /\ t.isFirst = term[a].isFirst /\ t.isLast = term[a].isLast
        /\ t.finalTarget = term[a].finalTarget /\ t.ackTarget = term[a].ackTarget
    BY CountType DEF TypeOK, Term
  <2>2. term[a].initiator = w
    BY DEF FlushFrom
  <2> HIDE DEF t
  <2> QED BY <1>3, <2>1, <2>2, TargetsMet
<1> HIDE DEF t, ch
<1>5. /\ F \in SUBSET Before(w, a) /\ IsFiniteSet(Before(w, a))
      /\ FinalsRead(w, a) \in SUBSET Before(w, a)
      /\ b \in Before(w, a) \ FinalsRead(w, a)
  <2>1. b \notin FinalsRead(w, a)
    BY <1>2, MarkUnread DEF FinalsRead
  <2> QED BY <1>3, <2>1, Counted DEF FinalsRead
<1>6. /\ t.finals = t.finalTarget <=> F = Before(w, a)
      /\ Counts(IF t.finals = t.finalTarget THEN -1 ELSE t.finals, F, Before(w, a))
  <2>1. Counts(term[a].finals, FinalsRead(w, a), Before(w, a))
    BY DEF FlushFrom
  <2> QED BY <1>4, <1>5, <2>1, CounterRead
<1>7. t.acks # t.ackTarget
    BY <1>4, SentMeansRead
<1>8. /\ term'[a].initiator = w /\ terminate'[a] = 1
      /\ term'[a].acks = term[a].acks
      /\ term'[a].finals = IF t.finals = t.finalTarget THEN -1 ELSE t.finals
  <2>1. term'[a].initiator = w
    BY <1>1, <1>2, <1>4, SettleFields
  <2>2. term'[a].finals = IF t.finals = t.finalTarget THEN -1 ELSE t.finals
    BY <1>1, <1>2, <1>4, SettleCounters
  <2>3. term'[a].acks = term[a].acks
    BY <1>1, <1>2, <1>4, <1>7, SettleCounters
  <2>4. terminate'[a] = 1
    BY <1>1, <1>2, <1>4, SettleSends
  <2> QED BY <2>1, <2>2, <2>3, <2>4
<1>9. Counts(term'[a].finals, F, Before(w, a))
    BY <1>6, <1>8
<1>10. /\ term'[a].finals = -1 <=> F = Before(w, a)
       /\ term[a].finals # -1
  <2>1. term'[a].finals = -1 <=> F = Before(w, a)
    BY <1>5, <1>9, CounterSettled
  <2>2. FinalsRead(w, a) # Before(w, a)
    BY <1>5
  <2> QED BY <2>1, <2>2, SentMeansRead
<1>11. \E S : \E x \in Msg : /\ x.kind # "FINAL_FIN"
                             /\ ReadsAndSends(a, b, S, x)
                             /\ SendsMarks(w, a, S, x)
  <2>0. /\ \A k \in Kinds : Plain(k, a) \in Msg
        /\ \A k : Plain(k, a).kind = k /\ Plain(k, a).agent = a
        /\ "FINAL" \in Kinds /\ "FINAL_ACK" \in Kinds
    BY MsgTypes DEF Plain, Kinds, Res
  <2>1. CASE t.finals # t.finalTarget
    <3>1. chan' = ch
      BY <1>1, <1>2, <1>4, <1>7, <2>1, SettleSends
    <3>2. ReadsAndSends(a, b, {}, Plain("FINAL", a))
      BY <1>2, <3>1, SentToNobody DEF ch
    <3>3. SendsMarks(w, a, {}, Plain("FINAL", a))
      BY <1>6, <1>8, <1>10, <2>1
         DEF SendsMarks, HasSent, SentFinal, SentAck, After, IsLastOf
    <3> QED BY <2>0, <3>2, <3>3
  <2>2. CASE t.finals = t.finalTarget /\ IsLastOf(w, a)
    <3>0. PICK x \in Msg : x = Plain("FINAL_ACK", a)
      BY <2>0
    <3>1. ReadsAndSends(a, b, Before(w, a), x)
      BY <1>1, <1>2, <1>4, <1>7, <2>2, <3>0, SettleSends
         DEF ReadsAndSends, SendFinalAck, ch
    <3>2. After(w, a) = {} /\ Before(w, a) = Agent \ {a}
      BY <2>2, Targeted
    <3>3. \A q \in Agent \ {a} : ~HasSent(w, a, q) /\ HasSent(w, a, q)'
      <4>1. term'[a].finals = -1 /\ term[a].finals # -1
        BY <1>6, <1>10, <2>2
      <4>2. SentAck(w, a)' /\ ~SentAck(w, a)
        BY <2>2, <4>1 DEF SentAck, IsLastOf
      <4>3. SentFinal(a)' /\ ~SentFinal(a)
        BY <4>1 DEF SentFinal
      <4> QED BY <4>2, <4>3 DEF HasSent
    <3>4. \A q \in Agent \ {a} : IsMark(w, a, q, x)'
      <4>1. x.kind = "FINAL_ACK" /\ x.agent = a
        BY <2>0, <3>0
      <4>2. \A q : q \notin After(w, a)
        BY <3>2
      <4> QED BY <1>3, <4>1, <4>2 DEF IsMark, After
    <3> QED BY <2>0, <3>0, <3>1, <3>2, <3>3, <3>4 DEF SendsMarks
  <2>3. CASE t.finals = t.finalTarget /\ ~IsLastOf(w, a)
    <3>0. PICK x \in Msg : x = Plain("FINAL", a)
      BY <2>0
    <3>1. ReadsAndSends(a, b, After(w, a), x)
      BY <1>1, <1>2, <1>4, <1>7, <2>3, <3>0, SettleSends
         DEF ReadsAndSends, SendFinal, ch
    <3>2. SentFinal(a)' /\ ~SentFinal(a)
      BY <1>6, <1>10, <2>3 DEF SentFinal
    <3>3. SentAck(w, a)' <=> SentAck(w, a)
      BY <1>8, <2>3 DEF SentAck, IsLastOf
    <3>4. \A q \in After(w, a) : IsMark(w, a, q, x)'
      <4>1. x.kind = "FINAL" /\ x.agent = a
        BY <2>0, <3>0
      <4> QED BY <1>3, <4>1 DEF IsMark, After
    <3>5. \A q : /\ q \in After(w, a) => ~HasSent(w, a, q) /\ HasSent(w, a, q)'
                 /\ q \notin After(w, a) => (HasSent(w, a, q)' <=> HasSent(w, a, q))
      BY <3>2, <3>3 DEF HasSent, After
    <3>6. SendsMarks(w, a, After(w, a), x)
      BY <3>4, <3>5 DEF SendsMarks
    <3> QED BY <2>0, <3>0, <3>1, <3>6
  <2> QED BY <2>1, <2>2, <2>3
<1> QED BY <1>3, <1>8, <1>9, <1>11

\* An agent reads FINAL.
LEMMA FlushFinal ==
    ASSUME TypeOK, TypeOK', Where, Targets, NEW w \in Agent, FlushFrom(w),
           NEW a \in Agent, NEW b \in Agent \ {a}, RecvFinal(a, b)
    PROVE  FlushFrom(w)'
<1>1. /\ a # w /\ b \in Before(w, a) /\ b \notin After(w, a)
      /\ term'[a].initiator = w /\ terminate'[a] = 1
      /\ Counts(term'[a].finals, FinalsRead(w, a) \cup {b}, Before(w, a))
      /\ term'[a].acks = term[a].acks
    BY FinalSends
<1>2. PICK S : \E x \in Msg : /\ x.kind # "FINAL_FIN"
                              /\ ReadsAndSends(a, b, S, x)
                              /\ SendsMarks(w, a, S, x)
    BY FinalSends
<1>2b. PICK x \in Msg : /\ x.kind # "FINAL_FIN"
                        /\ ReadsAndSends(a, b, S, x)
                        /\ SendsMarks(w, a, S, x)
    BY <1>2
<1>3. /\ pc[a] = "post" /\ terminate[a] = 1 /\ chan[b][a] # <<>>
      /\ IsMark(w, b, a, Head(chan[b][a]))
  <2>1. ReadsTerm(a, b, "FINAL") /\ "FINAL" \in TermKinds /\ "FINAL" # "FINAL_FIN"
    BY DEF RecvFinal, TermKinds
  <2> QED BY <2>1, FlushReads
<1>4. /\ \A p \in Agent \ {a} : \A q \in Agent :
            chan'[p][q] = IF p = b /\ q = a THEN Tail(chan[p][q]) ELSE chan[p][q]
      /\ \A q \in Agent \ {a} :
            Shape(w, a, q)' /\ (HasRead(w, a, q)' <=> HasRead(w, a, q))
    BY <1>1, <1>2b, <1>3, MarksSent
<1>5. /\ \A j \in Agent \ {a} : /\ term'[j] = term[j] /\ terminate'[j] = terminate[j]
                                /\ pc'[j] = pc[j]
                                /\ res'[j] = res[j] /\ path'[j] = path[j]
      /\ pc'[a] = "post"
    BY <1>3, ReadTermMoves DEF ReadTerm
<1>6. terminate'[w] = 2 \/ KindsIn(chan', Kinds \ {"FINAL_FIN"})
  <2>1. CASE terminate[w] = 2
    BY <1>1, <1>5, <2>1
  <2>2. CASE terminate[w] # 2
    <3>1. KindsIn(chan, Kinds \ {"FINAL_FIN"})
      BY <2>2, NoFin
    <3>2. x.kind \in Kinds \ {"FINAL_FIN"}
      BY <1>2b DEF Msg
    <3> QED BY <1>2b, <1>3, <3>1, <3>2, SentKinds
  <2> QED BY <2>1, <2>2
<1>7. b # w => Outcome(a)' = Outcome(a)
  <2>1. Head(chan[b][a]).agent = b /\ term[a].initiator = w
    BY <1>3 DEF IsMark, FlushFrom
  <2>2. b # w => UNCHANGED <<res, path>>
    BY <2>1 DEF RecvFinal, CarriesResult
  <2> QED BY <2>2 DEF Outcome
<1>8. b = w => Outcome(a)' = Outcome(w)
  <2>1. Head(chan[b][a]).agent = b /\ term[a].initiator = w
    BY <1>3 DEF IsMark, FlushFrom
  <2>2. b = w => res'[a] = Head(chan[b][a]).res /\ path'[a] = Head(chan[b][a]).path
    BY <2>1 DEF RecvFinal, CarriesResult, TypeOK
  <2>3. b = w => Outcome2(Head(chan[b][a]).res, Head(chan[b][a]).path) = Outcome(w)
    BY <1>3 DEF IsMark
  <2> QED BY <2>2, <2>3 DEF Outcome, Outcome2
<1>9. /\ Counts(term'[a].finals, FinalsRead(w, a) \cup ({b} \cap Before(w, a)),
                Before(w, a))
      /\ Counts(term'[a].acks, AcksRead(w, a) \cup ({b} \cap After(w, a)),
                After(w, a))
  <2>1. /\ {b} \cap Before(w, a) = {b}
        /\ AcksRead(w, a) \cup ({b} \cap After(w, a)) = AcksRead(w, a)
    BY <1>1
  <2>2. Counts(term[a].acks, AcksRead(w, a), After(w, a))
    BY DEF FlushFrom
  <2> QED BY <1>1, <2>1, <2>2
<1>10. /\ terminate'[a] # 0 /\ (terminate'[a] = 2 => a = w)
       /\ a = w => (terminate'[w] = 2 <=> term'[w].acks = -1)
       /\ a = w \/ b # w => Outcome(a)' = Outcome(a)
       /\ a # w /\ b = w => Outcome(a)' = Outcome(w)
    BY <1>1, <1>7, <1>8
<1> QED BY <1>1, <1>3, <1>4, <1>5, <1>6, <1>9, <1>10, MarkStep, ZenonT(40)

\* All FINAL_ACK messages are in: the agent passes FINAL_ACK on to those behind.
LEMMA AckSends ==
    ASSUME TypeOK, TypeOK', Where, Targets, NEW w \in Agent, FlushFrom(w),
           NEW a \in Agent, NEW b \in Agent \ {a}, RecvFinalAck(a, b), a # w
    PROVE  /\ term'[a].initiator = w /\ terminate'[a] = 1
           /\ term'[a].finals = term[a].finals
           /\ Counts(term'[a].acks, AcksRead(w, a) \cup {b}, After(w, a))
           /\ \E S : \E x \in Msg : /\ x.kind # "FINAL_FIN"
                                    /\ ReadsAndSends(a, b, S, x)
                                    /\ SendsMarks(w, a, S, x)
<1> DEFINE t == [term[a] EXCEPT !.acks = @ + 1]
           ch == Consume(chan, b, a)
           F == AcksRead(w, a) \cup {b}
<1>1. ReadsTerm(a, b, "FINAL_ACK") /\ Settle(a, t, ch)
    BY DEF RecvFinalAck
<1>2. /\ chan[b][a] # <<>> /\ Head(chan[b][a]).kind = "FINAL_ACK"
      /\ IsMark(w, b, a, Head(chan[b][a])) /\ ch \in Chans
  <2>1. "FINAL_ACK" \in TermKinds /\ "FINAL_ACK" # "FINAL_FIN"
    BY DEF TermKinds
  <2> QED BY <1>1, <2>1, FlushReads, TermRead
<1>3. b \notin Before(w, a) /\ b \in After(w, a) /\ ~IsLastOf(w, a)
  <2>1. a \notin After(w, b)
    BY <1>2 DEF IsMark
  <2> QED BY <2>1, Targeted
<1>4. /\ t \in Term /\ t.acks = term[a].acks + 1 /\ t.finals = term[a].finals
      /\ t.initiator = w /\ ~t.isFirst /\ ~t.isLast
      /\ t.finalTarget = Cardinality(Before(w, a))
      /\ t.ackTarget = Cardinality(After(w, a))
      /\ Behind(a, t.finalTarget) = Before(w, a)
  <2>1. /\ t \in Term /\ t.acks = term[a].acks + 1 /\ t.finals = term[a].finals
        /\ t.initiator = term[a].initiator
        /\ t.isFirst = term[a].isFirst /\ t.isLast = term[a].isLast
        /\ t.finalTarget = term[a].finalTarget /\ t.ackTarget = term[a].ackTarget
    BY CountType DEF TypeOK, Term
  <2>2. term[a].initiator = w
    BY DEF FlushFrom
  <2> HIDE DEF t
  <2> QED BY <1>3, <2>1, <2>2, TargetsMet
<1> HIDE DEF t, ch
<1>5. /\ F \in SUBSET After(w, a) /\ IsFiniteSet(After(w, a))
      /\ AcksRead(w, a) \in SUBSET After(w, a)
      /\ b \in After(w, a) \ AcksRead(w, a)
  <2>1. b \notin AcksRead(w, a)
    BY <1>2, MarkUnread DEF AcksRead
  <2> QED BY <1>3, <2>1, Counted DEF AcksRead
<1>6. /\ t.acks = t.ackTarget <=> F = After(w, a)
      /\ Counts(IF t.acks = t.ackTarget THEN -1 ELSE t.acks, F, After(w, a))
  <2>1. Counts(term[a].acks, AcksRead(w, a), After(w, a))
    BY DEF FlushFrom
  <2> QED BY <1>4, <1>5, <2>1, CounterRead
<1>7. t.finals # t.finalTarget
    BY <1>4, SentMeansRead
<1>8. /\ term'[a].initiator = w /\ terminate'[a] = 1
      /\ term'[a].finals = term[a].finals
      /\ term'[a].acks = IF t.acks = t.ackTarget THEN -1 ELSE t.acks
  <2>1. term'[a].initiator = w
    BY <1>1, <1>2, <1>4, SettleFields
  <2>2. term'[a].acks = IF t.acks = t.ackTarget THEN -1 ELSE t.acks
    BY <1>1, <1>2, <1>4, SettleCounters
  <2>3. term'[a].finals = term[a].finals
    BY <1>1, <1>2, <1>4, <1>7, SettleCounters
  <2>4. terminate'[a] = 1
    BY <1>1, <1>2, <1>4, SettleSends
  <2> QED BY <2>1, <2>2, <2>3, <2>4
<1>9. Counts(term'[a].acks, F, After(w, a))
    BY <1>6, <1>8
<1>10. /\ term'[a].acks = -1 <=> F = After(w, a)
       /\ term[a].acks # -1
  <2>1. term'[a].acks = -1 <=> F = After(w, a)
    BY <1>5, <1>9, CounterSettled
  <2>2. AcksRead(w, a) # After(w, a)
    BY <1>5
  <2> QED BY <2>1, <2>2, SentMeansRead
<1>11. \E S : \E x \in Msg : /\ x.kind # "FINAL_FIN"
                             /\ ReadsAndSends(a, b, S, x)
                             /\ SendsMarks(w, a, S, x)
  <2>0. PICK x \in Msg : x = Plain("FINAL_ACK", a) /\ x.kind = "FINAL_ACK" /\ x.agent = a
    BY MsgTypes DEF Plain, Kinds, Res
  <2>1. CASE t.acks # t.ackTarget
    <3>1. chan' = ch
      BY <1>1, <1>2, <1>4, <1>7, <2>1, SettleSends
    <3>2. ReadsAndSends(a, b, {}, x)
      BY <1>2, <3>1, SentToNobody DEF ch
    <3>3. SendsMarks(w, a, {}, x)
      BY <1>3, <1>6, <1>8, <1>10, <2>1
         DEF SendsMarks, HasSent, SentFinal, SentAck, After, IsLastOf
    <3> QED BY <2>0, <3>2, <3>3
  <2>2. CASE t.acks = t.ackTarget
    <3>1. ReadsAndSends(a, b, Before(w, a), x)
      BY <1>1, <1>2, <1>4, <1>7, <2>0, <2>2, SettleSends
         DEF ReadsAndSends, SendFinalAck, ch
    <3>2. SentFinal(a)' <=> SentFinal(a)
      BY <1>8 DEF SentFinal
    <3>3. SentAck(w, a)' /\ ~SentAck(w, a)
      BY <1>3, <1>6, <1>10, <2>2 DEF SentAck, IsLastOf
    <3>4. \A q \in Agent \ {a} : q \in After(w, a) <=> q \notin Before(w, a)
      BY Targeted
    <3>5. \A q \in Agent \ {a} :
             /\ q \in Before(w, a) => ~HasSent(w, a, q) /\ HasSent(w, a, q)'
             /\ q \notin Before(w, a) => (HasSent(w, a, q)' <=> HasSent(w, a, q))
      BY <3>2, <3>3, <3>4 DEF HasSent, After
    <3>6. \A q \in Agent \ {a} : q \in Before(w, a) => IsMark(w, a, q, x)'
      <4>1. a # w
        OBVIOUS
      <4> QED BY <2>0, <3>4, <4>1 DEF IsMark, After
    <3>7. SendsMarks(w, a, Before(w, a), x)
      BY <3>5, <3>6 DEF SendsMarks
    <3> QED BY <2>0, <3>1, <3>7
  <2> QED BY <2>1, <2>2
<1> QED BY <1>8, <1>9, <1>11

\* An agent that is not the winner reads FINAL_ACK.
LEMMA FlushAck ==
    ASSUME TypeOK, TypeOK', Where, Targets, NEW w \in Agent, FlushFrom(w),
           NEW a \in Agent, NEW b \in Agent \ {a}, RecvFinalAck(a, b), a # w
    PROVE  FlushFrom(w)'
<1>1. /\ term'[a].initiator = w /\ terminate'[a] = 1
      /\ term'[a].finals = term[a].finals
      /\ Counts(term'[a].acks, AcksRead(w, a) \cup {b}, After(w, a))
    BY AckSends
<1>2. PICK S : \E x \in Msg : /\ x.kind # "FINAL_FIN"
                              /\ ReadsAndSends(a, b, S, x)
                              /\ SendsMarks(w, a, S, x)
    BY AckSends
<1>2b. PICK x \in Msg : /\ x.kind # "FINAL_FIN"
                        /\ ReadsAndSends(a, b, S, x)
                        /\ SendsMarks(w, a, S, x)
    BY <1>2
<1>3. /\ pc[a] = "post" /\ terminate[a] = 1 /\ chan[b][a] # <<>>
      /\ IsMark(w, b, a, Head(chan[b][a])) /\ Head(chan[b][a]).kind = "FINAL_ACK"
  <2>1. ReadsTerm(a, b, "FINAL_ACK") /\ "FINAL_ACK" \in TermKinds
        /\ "FINAL_ACK" # "FINAL_FIN"
    BY DEF RecvFinalAck, TermKinds
  <2> QED BY <2>1, FlushReads
<1>4. /\ \A p \in Agent \ {a} : \A q \in Agent :
            chan'[p][q] = IF p = b /\ q = a THEN Tail(chan[p][q]) ELSE chan[p][q]
      /\ \A q \in Agent \ {a} :
            Shape(w, a, q)' /\ (HasRead(w, a, q)' <=> HasRead(w, a, q))
    BY <1>2b, <1>3, MarksSent
<1>5. /\ \A j \in Agent \ {a} : /\ term'[j] = term[j] /\ terminate'[j] = terminate[j]
                                /\ pc'[j] = pc[j]
                                /\ res'[j] = res[j] /\ path'[j] = path[j]
      /\ pc'[a] = "post"
    BY <1>3, ReadTermMoves DEF ReadTerm
<1>6. terminate'[w] = 2 \/ KindsIn(chan', Kinds \ {"FINAL_FIN"})
  <2>1. CASE terminate[w] = 2
    BY <1>1, <1>5, <2>1
  <2>2. CASE terminate[w] # 2
    <3>1. KindsIn(chan, Kinds \ {"FINAL_FIN"})
      BY <2>2, NoFin
    <3>2. x.kind \in Kinds \ {"FINAL_FIN"}
      BY <1>2b DEF Msg
    <3> QED BY <1>2b, <1>3, <3>1, <3>2, SentKinds
  <2> QED BY <2>1, <2>2
<1>7. b \notin Before(w, a) /\ b \in After(w, a) /\ b # w
  <2>1. a \notin After(w, b)
    BY <1>3 DEF IsMark
  <2> QED BY <2>1, Targeted
<1>8. Outcome(a)' = Outcome(a)
    BY DEF RecvFinalAck, Outcome
<1>9. /\ Counts(term'[a].finals, FinalsRead(w, a) \cup ({b} \cap Before(w, a)),
                Before(w, a))
      /\ Counts(term'[a].acks, AcksRead(w, a) \cup ({b} \cap After(w, a)),
                After(w, a))
  <2>1. /\ {b} \cap After(w, a) = {b}
        /\ FinalsRead(w, a) \cup ({b} \cap Before(w, a)) = FinalsRead(w, a)
    BY <1>7
  <2>2. Counts(term[a].finals, FinalsRead(w, a), Before(w, a))
    BY DEF FlushFrom
  <2> QED BY <1>1, <2>1, <2>2
<1>10. /\ terminate'[a] # 0 /\ (terminate'[a] = 2 => a = w)
       /\ a = w => (terminate'[w] = 2 <=> term'[w].acks = -1)
       /\ a = w \/ b # w => Outcome(a)' = Outcome(a)
       /\ a # w /\ b = w => Outcome(a)' = Outcome(w)
    BY <1>1, <1>7, <1>8
<1> QED BY <1>1, <1>3, <1>4, <1>5, <1>6, <1>9, <1>10, MarkStep, ZenonT(40)

\* All FINAL_ACK messages for the winner are in: the flush is over.
LEMMA WinnerSends ==
    ASSUME TypeOK, TypeOK', Where, Targets, NEW w \in Agent, FlushFrom(w),
           NEW b \in Agent \ {w}, RecvFinalAck(w, b)
    PROVE  /\ term'[w].initiator = w /\ terminate'[w] # 0
           /\ term'[w].finals = -1 /\ term[w].finals = -1
           /\ Counts(term'[w].acks, AcksRead(w, w) \cup {b}, After(w, w))
           /\ terminate'[w] = 2 <=> term'[w].acks = -1
           /\ \/ terminate'[w] = 1 /\ chan' = Consume(chan, b, w)
              \/ /\ terminate'[w] = 2
                 /\ ReadsAndSends(w, b, Agent \ {w}, Plain("FINAL_FIN", w))
<1> DEFINE t == [term[w] EXCEPT !.acks = @ + 1]
           ch == Consume(chan, b, w)
           F == AcksRead(w, w) \cup {b}
<1>1. ReadsTerm(w, b, "FINAL_ACK") /\ Settle(w, t, ch)
    BY DEF RecvFinalAck
<1>2. /\ chan[b][w] # <<>> /\ IsMark(w, b, w, Head(chan[b][w])) /\ ch \in Chans
  <2>1. "FINAL_ACK" \in TermKinds /\ "FINAL_ACK" # "FINAL_FIN"
    BY DEF TermKinds
  <2> QED BY <1>1, <2>1, FlushReads, TermRead
<1>3. /\ b \in After(w, w) /\ Before(w, w) = {} /\ ~IsLastOf(w, w)
  <2>1. Dist(w, w) = 0 /\ N - 1 # 0 /\ \A j \in Agent : Dist(w, j) \in 0 .. N - 1
    BY RingType, SizeAssumption
  <2>2. b \notin Before(w, w)
    BY <2>1 DEF Before
  <2> QED BY <2>1, <2>2, Targeted DEF Before, IsLastOf
<1>4. term[w].finals = -1
  <2>1. FinalsRead(w, w) = Before(w, w)
    BY <1>3 DEF FinalsRead
  <2> QED BY <2>1, SentMeansRead
<1>5. /\ t \in Term /\ t.acks = term[w].acks + 1 /\ t.finals = -1
      /\ t.initiator = w /\ t.isFirst /\ ~t.isLast
      /\ t.ackTarget = Cardinality(After(w, w))
  <2>1. /\ t \in Term /\ t.acks = term[w].acks + 1 /\ t.finals = term[w].finals
        /\ t.initiator = term[w].initiator
        /\ t.isFirst = term[w].isFirst /\ t.isLast = term[w].isLast
        /\ t.ackTarget = term[w].ackTarget
    BY CountType DEF TypeOK, Term
  <2>2. term[w].initiator = w
    BY DEF FlushFrom
  <2> HIDE DEF t
  <2> QED BY <1>3, <1>4, <2>1, <2>2, TargetsMet
<1> HIDE DEF t, ch
<1>6. /\ F \in SUBSET After(w, w) /\ IsFiniteSet(After(w, w))
      /\ AcksRead(w, w) \in SUBSET After(w, w)
      /\ b \in After(w, w) \ AcksRead(w, w)
  <2>1. b \notin AcksRead(w, w)
    BY <1>2, MarkUnread DEF AcksRead
  <2> QED BY <1>3, <2>1, Counted DEF AcksRead
<1>7. Counts(IF t.acks = t.ackTarget THEN -1 ELSE t.acks, F, After(w, w))
  <2>1. Counts(term[w].acks, AcksRead(w, w), After(w, w))
    BY DEF FlushFrom
  <2> QED BY <1>5, <1>6, <2>1, CounterRead
<1>8. t.acks # -1
  <2>1. Counts(term[w].acks, AcksRead(w, w), After(w, w))
    BY DEF FlushFrom
  <2>2. AcksRead(w, w) # After(w, w)
    BY <1>6
  <2>3. Cardinality(AcksRead(w, w)) \in Nat
    BY <1>6, FS_Subset, FS_CardinalityType
  <2> QED BY <1>5, <2>1, <2>2, <2>3 DEF Counts
<1>9. term'[w].acks = IF t.acks = t.ackTarget THEN -1 ELSE t.acks
    BY <1>1, <1>2, <1>5, SettleCounters
<1>10. term'[w].initiator = w /\ terminate'[w] \in {1, 2}
    BY <1>1, <1>2, <1>5, SettleFields
<1>11. term'[w].finals = -1
  <2>1. term'[w].finals = IF t.finals = t.finalTarget THEN -1 ELSE t.finals
    BY <1>1, <1>2, <1>5, SettleCounters
  <2> QED BY <1>5, <2>1
<1>12. CASE t.acks = t.ackTarget
  <2>1. /\ chan' = Send(ch, w, Agent \ {w}, Plain("FINAL_FIN", w))
        /\ terminate'[w] = 2
    BY <1>1, <1>2, <1>5, <1>12, SettleSends
  <2> QED BY <1>4, <1>7, <1>9, <1>10, <1>11, <1>12, <2>1 DEF ReadsAndSends, ch
<1>13. CASE t.acks # t.ackTarget
  <2>1. chan' = ch /\ terminate'[w] = 1
    BY <1>1, <1>2, <1>5, <1>8, <1>13, SettleSends
  <2> QED BY <1>4, <1>7, <1>8, <1>9, <1>10, <1>11, <1>13, <2>1 DEF ch
<1> QED BY <1>12, <1>13

\* The winner reads FINAL_ACK; after the last it sends FINAL_FIN to all.
LEMMA FlushEnds ==
    ASSUME TypeOK, TypeOK', Where, Targets, NEW w \in Agent, FlushFrom(w),
           NEW b \in Agent \ {w}, RecvFinalAck(w, b)
    PROVE  FlushFrom(w)'
<1>1. /\ term'[w].initiator = w /\ terminate'[w] # 0
      /\ term'[w].finals = -1 /\ term[w].finals = -1
      /\ Counts(term'[w].acks, AcksRead(w, w) \cup {b}, After(w, w))
      /\ terminate'[w] = 2 <=> term'[w].acks = -1
      /\ \/ terminate'[w] = 1 /\ chan' = Consume(chan, b, w)
         \/ /\ terminate'[w] = 2
            /\ ReadsAndSends(w, b, Agent \ {w}, Plain("FINAL_FIN", w))
    BY WinnerSends
<1>2. /\ pc[w] = "post" /\ terminate[w] = 1 /\ chan[b][w] # <<>>
      /\ IsMark(w, b, w, Head(chan[b][w]))
  <2>1. ReadsTerm(w, b, "FINAL_ACK") /\ "FINAL_ACK" \in TermKinds
        /\ "FINAL_ACK" # "FINAL_FIN"
    BY DEF RecvFinalAck, TermKinds
  <2> QED BY <2>1, FlushReads
<1>3. /\ \A j \in Agent \ {w} : /\ term'[j] = term[j] /\ terminate'[j] = terminate[j]
                                /\ pc'[j] = pc[j]
                                /\ res'[j] = res[j] /\ path'[j] = path[j]
      /\ pc'[w] = "post"
    BY <1>2, ReadTermMoves DEF ReadTerm
<1>4. \A j \in Agent : Outcome(j)' = Outcome(j)
    BY DEF RecvFinalAck, Outcome
<1>5. /\ \A q \in Agent \ {w} : q \in After(w, w)
      /\ w \notin After(w, w)
      /\ b \notin Before(w, w) /\ b \in After(w, w)
  <2>1. \A j \in Agent : Dist(w, j) \in 0 .. N - 1 /\ (Dist(w, j) = 0 <=> w = j)
    BY RingType
  <2> QED BY <2>1 DEF Before, After
<1>6. \A q \in Agent \ {w} : HasSent(w, w, q) /\ HasSent(w, w, q)'
    BY <1>1, <1>5 DEF HasSent, SentFinal, After
<1>7. /\ \A p \in Agent \ {w} : \A q \in Agent :
            chan'[p][q] = IF p = b /\ q = w THEN Tail(chan[p][q]) ELSE chan[p][q]
      /\ \A q \in Agent \ {w} :
            Shape(w, w, q)' /\ (HasRead(w, w, q)' <=> HasRead(w, w, q))
  <2>0. PICK x \in Msg : x = Plain("FINAL_FIN", w) /\ x.kind = "FINAL_FIN"
    BY MsgTypes DEF Plain, Kinds, Res
  <2>1. PICK S \in {{}, Agent \ {w}} : ReadsAndSends(w, b, S, x)
    BY <1>1, <1>2, <2>0, SentToNobody
  <2>2. /\ \A p \in Agent \ {w} : \A q \in Agent :
              chan'[p][q] = IF p = b /\ q = w THEN Tail(chan[p][q]) ELSE chan[p][q]
        /\ \A q \in Agent : chan'[w][q] = IF q \in S THEN Append(chan[w][q], x)
                                          ELSE chan[w][q]
    BY <1>2, <2>1, SentCells
  <2>3. ASSUME NEW q \in Agent \ {w}
        PROVE  Shape(w, w, q)' /\ (HasRead(w, w, q)' <=> HasRead(w, w, q))
    <3>0. Shape(w, w, q) /\ Outcome(w)' = Outcome(w)
      BY <1>4 DEF FlushFrom
    <3>1. CASE q \in S
      <4>1. chan'[w][q] = Append(chan[w][q], x)
        BY <2>2, <3>1
      <4> QED BY <1>6, <2>0, <3>0, <4>1, CellFin
    <3>2. CASE q \notin S
      <4>1. chan'[w][q] = chan[w][q]
        BY <2>2, <3>2
      <4> QED BY <1>6, <3>0, <4>1, CellStays
    <3> QED BY <3>1, <3>2
  <2> QED BY <2>2, <2>3
<1>8. terminate'[w] = 2 \/ KindsIn(chan', Kinds \ {"FINAL_FIN"})
  <2> SUFFICES ASSUME terminate'[w] # 2 PROVE KindsIn(chan', Kinds \ {"FINAL_FIN"})
    OBVIOUS
  <2>1. chan' = Consume(chan, b, w) /\ chan \in Chans
    BY <1>1 DEF TypeOK, Chans
  <2>2. terminate[w] # 2
    BY <1>2
  <2>3. KindsIn(chan, Kinds \ {"FINAL_FIN"})
    BY <2>2, NoFin
  <2> QED BY <1>2, <2>1, <2>3, KindsRead
<1>9. /\ Counts(term'[w].finals, FinalsRead(w, w) \cup ({b} \cap Before(w, w)),
                Before(w, w))
      /\ Counts(term'[w].acks, AcksRead(w, w) \cup ({b} \cap After(w, w)),
                After(w, w))
  <2>1. /\ {b} \cap After(w, w) = {b}
        /\ FinalsRead(w, w) \cup ({b} \cap Before(w, w)) = FinalsRead(w, w)
    BY <1>5
  <2>2. Counts(term[w].finals, FinalsRead(w, w), Before(w, w))
    BY DEF FlushFrom
  <2> QED BY <1>1, <2>1, <2>2
<1> QED BY <1>1, <1>2, <1>3, <1>4, <1>7, <1>8, <1>9, MarkStep, ZenonT(40)

-----------------------------------------------------------------------------
(* The flush goes on from one winner, with no request in transit            *)

LEMMA FlushStep ==
    ASSUME TypeOK, TypeOK', Where, Targets, NEW w \in Agent, FlushFrom(w),
           NEW a \in Agent, SearchMove(a) \/ ReadTerm(a) \/ Leave(a)
    PROVE  FlushFrom(w)'
<1>1. CASE SearchMove(a)
    BY <1>1, FlushSearch
<1>2. CASE Leave(a)
    BY <1>2, FlushLeave
<1>3. CASE ReadTerm(a)
  <2>1. PICK b \in Agent \ {a} :
           DropRequest(a, b) \/ ForwardRequest(a, b) \/ RequestReturns(a, b)
           \/ RecvFinal(a, b) \/ RecvFinalAck(a, b) \/ RecvFinalFin(a, b)
    BY <1>3 DEF ReadTerm
  <2>2. ~ReadsTerm(a, b, "REQUEST")
    <3>1. \A m : IsMark(w, b, a, m) => m.kind # "REQUEST"
      BY DEF IsMark
    <3>2. "REQUEST" \in TermKinds /\ "REQUEST" # "FINAL_FIN"
      BY DEF TermKinds
    <3> QED BY <3>1, <3>2, FlushReads
  <2>3. CASE RecvFinal(a, b)
    BY <2>3, FlushFinal
  <2>4. CASE RecvFinalAck(a, b)
    BY <2>4, FlushAck, FlushEnds
  <2>5. CASE RecvFinalFin(a, b)
    BY <2>5, FlushFin
  <2> QED BY <2>1, <2>2, <2>3, <2>4, <2>5
          DEF DropRequest, ForwardRequest, RequestReturns
<1> QED BY <1>1, <1>2, <1>3

\* No request is in transit during the flush.
LEMMA NoRequests ==
    ASSUME TypeOK', NEW w \in Agent, FlushFrom(w)'
    PROVE  OrderedIn(chan)' /\ KnownIn(chan)'
<1>1. ASSUME NEW p \in Agent, NEW q \in Agent \ {p}, NEW i \in 1 .. Len(chan'[p][q])
      PROVE  chan'[p][q][i].kind # "REQUEST"
  <2> DEFINE s == chan'[p][q]
  <2>1. Shape(w, p, q)'
    BY DEF FlushFrom
  <2>2. \A j \in 1 .. Len(s) : s[j].kind \in WorkKinds => s[j].kind # "REQUEST"
    BY DEF WorkKinds
  <2>3. CASE Unflushed(s) \/ Flushed(s)
    BY <2>2, <2>3 DEF Unflushed, Flushed
  <2>4. ASSUME NEW m \in Msg, IsMark(w, p, q, m)', Flushing(s, m)
        PROVE  s[i].kind # "REQUEST"
    <3>1. PICK j \in 1 .. Len(s) : MarkAt(s, j, m)
      BY <2>4 DEF Flushing
    <3>2. m.kind # "REQUEST"
      BY <2>4 DEF IsMark
    <3> HIDE DEF s
    <3>3. i < j \/ i = j \/ i > j
      OBVIOUS
    <3> QED BY <2>2, <3>1, <3>2, <3>3 DEF MarkAt, s
  <2> QED BY <2>1, <2>3, <2>4 DEF Shape
<1>2. \A p \in Agent : \A i \in Nat : \A m : ~RequestAt(chan', p, i, m)
  <2>1. \A p \in Agent : Succ(p) \in Agent \ {p}
    BY SelfSucc
  <2> QED BY <1>1, <2>1 DEF RequestAt
<1> QED BY <1>2 DEF OrderedIn, KnownIn, RequestAt

\* The flush has one winner.
LEMMA OneWinner ==
    ASSUME TypeOK', Targets', NEW w \in Agent, FlushFrom(w)'
    PROVE  IsWinner(w)' /\ \A v \in Agent : IsWinner(v)' => v = w
<1>1. \A v \in Agent : term'[v].initiator = w
    BY DEF FlushFrom
<1> QED BY <1>1 DEF Targets, IsWinner

\* Who wins has its request back.
LEMMA WinnerIsBack ==
    ASSUME TypeOK, TypeOK', Election, Targets, Where, NoWinner, Electing,
           NEW a \in Agent, SearchMove(a) \/ ReadTerm(a) \/ Leave(a),
           NEW w \in Agent, IsWinner(w)'
    PROVE  \E b \in Agent \ {w} : RequestReturns(w, b)
<1>0. ~IsWinner(w)
    BY DEF NoWinner
<1>1. ~SearchMove(a)
    BY <1>0, SearchFields DEF IsWinner
<1>2. ~Leave(a)
    BY <1>0, LeaveMoves DEF IsWinner
<1>3. ReadTerm(a) /\ w = a
  <2>1. ReadTerm(a)
    BY <1>1, <1>2
  <2>2. \A j \in Agent \ {a} : term'[j] = term[j]
    BY <2>1, ReadTermMoves
  <2> QED BY <1>0, <2>1, <2>2 DEF IsWinner
<1>4. PICK b \in Agent \ {a} :
         DropRequest(a, b) \/ ForwardRequest(a, b) \/ RequestReturns(a, b)
         \/ RecvFinal(a, b) \/ RecvFinalAck(a, b) \/ RecvFinalFin(a, b)
    BY <1>3 DEF ReadTerm
<1>5. ~(RecvFinal(a, b) \/ RecvFinalAck(a, b) \/ RecvFinalFin(a, b))
  <2>1. \A k : ReadsTerm(a, b, k) => k \in WorkKinds \cup {"REQUEST"}
    <3>1. \A k : ReadsTerm(a, b, k) => /\ chan \in Chans /\ chan[b][a] # <<>>
                                       /\ Head(chan[b][a]).kind = k
      BY TermRead
    <3> QED BY <3>1, KindsRead DEF Electing
  <2> QED BY <2>1 DEF RecvFinal, RecvFinalAck, RecvFinalFin, WorkKinds
<1>6. ~DropRequest(a, b)
    BY <1>0, <1>3 DEF DropRequest, IsWinner
<1>7. ~ForwardRequest(a, b)
  <2> SUFFICES ASSUME ForwardRequest(a, b) PROVE FALSE
    OBVIOUS
  <2>1. Head(chan[b][a]).agent # a
    BY DEF ForwardRequest
  <2>2. term'[a].initiator \in {Head(chan[b][a]).agent, term[a].initiator}
    BY ForwardElecting
  <2>3. term[a].initiator = a
    BY <1>3, <2>1, <2>2 DEF IsWinner
  <2> QED BY <1>0, <1>3, <2>3 DEF Targets, IsWinner
<1> QED BY <1>3, <1>4, <1>5, <1>6, <1>7

\* FlushInv is about the variables and nothing else.
LEMMA FlushStays ==
    ASSUME FlushInv, UNCHANGED vars
    PROVE  FlushInv'
<1>0. /\ pc' = pc /\ terminate' = terminate /\ res' = res /\ path' = path
      /\ term' = term /\ chan' = chan
    BY DEF vars
<1>1. Where' /\ Targets'
    BY <1>0 DEF FlushInv, Where, Targets, IsLastOf
<1>2. OrderedIn(chan)' /\ KnownIn(chan)'
    BY <1>0 DEF FlushInv, OrderedIn, KnownIn, RequestAt
<1>3. NoWinner' => Electing'
  <2>1. NoWinner' => NoWinner
    BY <1>0 DEF NoWinner, IsWinner
  <2>2. Electing => Electing'
    BY <1>0 DEF Electing, KindsIn
  <2> QED BY <2>1, <2>2 DEF FlushInv
<1>4. ASSUME NEW w \in Agent, IsWinner(w)'
      PROVE  FlushFrom(w)'
  <2>1. FlushFrom(w)
    BY <1>0, <1>4 DEF FlushInv, IsWinner
  <2>2. \A a, b \in Agent : /\ HasSent(w, a, b)' <=> HasSent(w, a, b)
                            /\ HasRead(w, a, b)' <=> HasRead(w, a, b)
    BY <1>0 DEF HasSent, SentFinal, SentAck, HasRead
  <2>3. \A a \in Agent : /\ FinalsRead(w, a)' = FinalsRead(w, a)
                         /\ AcksRead(w, a)' = AcksRead(w, a)
    BY <2>2 DEF FinalsRead, AcksRead, Before, After
  <2>4. \A a \in Agent : Outcome(a)' = Outcome(a)
    BY <1>0 DEF Outcome
  <2>5. \A a, b \in Agent : \A m : IsMark(w, a, b, m)' <=> IsMark(w, a, b, m)
    BY <2>4 DEF IsMark
  <2>6. \A a, b \in Agent : Shape(w, a, b) => Shape(w, a, b)'
    BY <1>0, <2>2, <2>5 DEF Shape
  <2>7. ASSUME NEW a \in Agent
        PROVE  /\ Counts(term[a].finals, FinalsRead(w, a), Before(w, a))'
               /\ Counts(term[a].acks, AcksRead(w, a), After(w, a))'
    BY <1>0, <2>1, <2>3 DEF FlushFrom, Counts
  <2> QED BY <1>0, <2>1, <2>2, <2>4, <2>6, <2>7 DEF FlushFrom
<1> QED BY <1>1, <1>2, <1>3, <1>4 DEF FlushInv

\* A step preserves the invariant.
LEMMA FlushNext ==
    ASSUME TypeOK, TypeOK', Election, FlushInv, [Next]_vars
    PROVE  FlushInv'
<1>1. CASE UNCHANGED vars
    BY <1>1, FlushStays
<1>2. ASSUME NEW a \in Agent, SearchMove(a) \/ ReadTerm(a) \/ Leave(a)
      PROVE  FlushInv'
  <2>0. /\ Where /\ Targets /\ OrderedIn(chan) /\ KnownIn(chan)
        /\ NoWinner => Electing
        /\ \A w \in Agent : IsWinner(w) => FlushFrom(w)
    BY DEF FlushInv
  <2>1. Where'
    <3>1. CASE Leave(a)
      BY <2>0, <3>1, LeaveMoves DEF Where
    <3> QED BY <1>2, <2>0, <3>1, WhereSearch, WhereReadTerm
  <2>2. Targets'
    <3>1. CASE Leave(a)
      BY <2>0, <3>1, LeaveMoves DEF Targets, IsLastOf
    <3> QED BY <1>2, <2>0, <3>1, TargetsSearch, TargetsReadTerm
  <2>3. ASSUME NEW w \in Agent, FlushFrom(w)'
        PROVE  FlushInv'
    <3>1. OrderedIn(chan)' /\ KnownIn(chan)'
      BY <2>3, NoRequests
    <3>2. ~NoWinner' /\ \A v \in Agent : IsWinner(v)' => FlushFrom(v)'
      BY <2>2, <2>3, OneWinner DEF NoWinner
    <3> QED BY <2>1, <2>2, <3>1, <3>2 DEF FlushInv
  <2>4. CASE ~NoWinner
    <3>1. PICK w \in Agent : FlushFrom(w)
      BY <2>0, <2>4 DEF NoWinner
    <3>2. FlushFrom(w)'
      BY <1>2, <2>0, <3>1, FlushStep
    <3> QED BY <2>3, <3>2
  <2>5. CASE NoWinner /\ ~NoWinner'
    <3>1. PICK w \in Agent : IsWinner(w)'
      BY <2>5 DEF NoWinner
    <3>2. PICK b \in Agent \ {w} : RequestReturns(w, b)
      BY <1>2, <2>0, <2>5, <3>1, WinnerIsBack
    <3>3. FlushFrom(w)'
      BY <2>0, <2>5, <3>2, FlushBegins
    <3> QED BY <2>3, <3>3
  <2>6. CASE NoWinner /\ NoWinner'
    <3>1. OrderedIn(chan)' /\ KnownIn(chan)' /\ Electing'
      <4>1. CASE SearchMove(a)
        BY <2>0, <2>6, <4>1, OrderedSearch, ElectingSearch
      <4>2. CASE ReadTerm(a)
        BY <2>0, <2>6, <4>2, ElectingReadTerm
      <4>3. ~Leave(a)
        BY <2>0, <2>6, LeaveMoves DEF Electing
      <4> QED BY <1>2, <4>1, <4>2, <4>3
    <3>2. \A w \in Agent : ~IsWinner(w)'
      BY <2>6 DEF NoWinner
    <3> QED BY <2>1, <2>2, <3>1, <3>2 DEF FlushInv
  <2> QED BY <2>4, <2>5, <2>6
<1>3. Where
    BY DEF FlushInv
<1> QED BY <1>1, <1>2, <1>3, NextMoves

\* The invariant holds initially.
LEMMA FlushInit ==
    ASSUME Init
    PROVE  FlushInv
<1>1. \A a \in Agent : /\ pc[a] = "step" /\ terminate[a] = 0
                       /\ term[a].initiator = NoAgent
    BY DEF Init
<1>2. \A a, b \in Agent : chan[a][b] = <<>>
    BY DEF Init, NoMsgs
<1>3. NoAgent \notin Agent /\ \A a \in Agent : Succ(a) \in Agent
    BY SizeAssumption, RingType DEF Agent, NoAgent
<1>4. \A a, b \in Agent : \A i : i \notin 1 .. Len(chan[a][b])
    BY <1>2
<1>5. Where /\ Targets
    BY <1>1, <1>2, <1>3 DEF Where, Targets
<1>6. OrderedIn(chan) /\ KnownIn(chan)
    BY <1>3, <1>4 DEF OrderedIn, KnownIn, RequestAt
<1>7. Electing
    BY <1>1, <1>3, <1>4 DEF Electing, KindsIn
<1>8. \A w \in Agent : ~IsWinner(w)
    BY <1>1, <1>3 DEF IsWinner
<1> QED BY <1>5, <1>6, <1>7, <1>8 DEF FlushInv

\* The flush's invariant holds throughout.
LEMMA FlushAlways == Spec => []FlushInv
<1>1. Init => FlushInv
  BY FlushInit
<1>2. TypeOK /\ TypeOK' /\ Election /\ FlushInv /\ [Next]_vars => FlushInv'
  BY FlushNext
<1> QED BY <1>1, <1>2, TypeCorrect, ElectionAlways, PTL DEF Spec

-----------------------------------------------------------------------------
(* What follows *)

\* Whoever sees a message of the flush, or has left the search, has a winner.
LEMMA FlushHasWinner ==
    ASSUME FlushInv, ~Electing
    PROVE  \E w \in Agent : FlushFrom(w)
BY DEF FlushInv, NoWinner

\* Agent a was told the outcome by the winner w before it finished.
LEMMA AllFlushed ==
    ASSUME TypeOK, Targets, NEW w \in Agent, FlushFrom(w), terminate[w] = 2
    PROVE  \A a \in Agent : \A b \in Agent \ {a} : HasSent(w, a, b) /\ Flushed(chan[a][b])
<1>1. \A a \in Agent : /\ IsFiniteSet(Before(w, a)) /\ IsFiniteSet(After(w, a))
                       /\ FinalsRead(w, a) \in SUBSET Before(w, a)
                       /\ AcksRead(w, a) \in SUBSET After(w, a)
    BY Counted DEF FinalsRead, AcksRead
<1>2. \A a \in Agent : /\ term[a].finals = -1 <=> FinalsRead(w, a) = Before(w, a)
                       /\ term[a].acks = -1 <=> AcksRead(w, a) = After(w, a)
  <2> SUFFICES ASSUME NEW a \in Agent
               PROVE  /\ term[a].finals = -1 <=> FinalsRead(w, a) = Before(w, a)
                      /\ term[a].acks = -1 <=> AcksRead(w, a) = After(w, a)
    OBVIOUS
  <2>1. /\ Counts(term[a].finals, FinalsRead(w, a), Before(w, a))
        /\ Counts(term[a].acks, AcksRead(w, a), After(w, a))
    BY DEF FlushFrom
  <2> QED BY <1>1, <2>1, CounterSettled
<1>3. \A b \in Agent \ {w} : HasRead(w, b, w)
  <2>1. term[w].acks = -1
    BY DEF FlushFrom
  <2>2. \A b \in Agent \ {w} : b \in After(w, w)
    BY Targeted
  <2> QED BY <1>2, <2>1, <2>2 DEF AcksRead
\* The last agent has all FINAL messages, so all agents before it sent theirs.
<1>4. PICK z \in Agent : IsLastOf(w, z)
  <2>1. PICK z : z = IF w = 0 THEN N - 1 ELSE w - 1
    OBVIOUS
  <2> QED BY <2>1, SizeAssumption DEF Agent, Dist, IsLastOf
<1>5. z # w /\ \A a \in Agent : a # z => ~IsLastOf(w, a)
  BY <1>4, SizeAssumption DEF Agent, Dist, IsLastOf
<1>6. \A b \in Agent \ {z} : HasRead(w, b, z)
  <2>1. HasRead(w, z, w)
    BY <1>3, <1>5
  <2>2. w \notin After(w, z)
    BY <1>5, Targeted
  <2>3. term[z].finals = -1
    BY <1>4, <2>1, <2>2 DEF HasRead, HasSent, SentAck
  <2>4. Before(w, z) = Agent \ {z}
    BY <1>4, Targeted
  <2> QED BY <1>2, <2>3, <2>4 DEF FinalsRead
<1>7. \A a \in Agent : term[a].finals = -1
  <2> SUFFICES ASSUME NEW a \in Agent PROVE term[a].finals = -1
    OBVIOUS
  <2>1. CASE a = z
    BY <1>2, <1>4, <1>6, <2>1, Targeted DEF FinalsRead
  <2>2. CASE a # z
    <3>1. HasSent(w, a, z)
      BY <1>6, <2>2 DEF HasRead
    <3>2. z \in After(w, a)
      BY <1>4, <2>2, Targeted
    <3> QED BY <3>1, <3>2 DEF HasSent, SentFinal
  <2> QED BY <2>1, <2>2
<1>8. \A a \in Agent : SentAck(w, a)
  <2> SUFFICES ASSUME NEW a \in Agent PROVE SentAck(w, a)
    OBVIOUS
  <2>1. CASE IsLastOf(w, a)
    BY <1>7, <2>1 DEF SentAck
  <2>2. CASE a = w
    BY <1>5, <2>2 DEF SentAck, FlushFrom
  <2>3. CASE a # w
    <3>1. HasSent(w, a, w) /\ w \notin After(w, a)
      BY <1>3, <2>3, Targeted DEF HasRead
    <3> QED BY <3>1 DEF HasSent
  <2> QED BY <2>1, <2>2, <2>3
<1>9. \A a \in Agent : \A b \in Agent \ {a} : HasSent(w, a, b)
  BY <1>7, <1>8 DEF HasSent, SentFinal
<1>10. ASSUME NEW a \in Agent, NEW b \in Agent \ {a}
       PROVE  HasRead(w, a, b)
  <2>1. CASE b \in After(w, a)
    <3>1. a \in Before(w, b)
      BY <2>1, Targeted
    <3> QED BY <1>2, <1>7, <3>1 DEF FinalsRead
  <2>2. CASE b \notin After(w, a)
    <3>1. a \in After(w, b)
      <4>1. b \in Before(w, a)
        BY <2>2, Targeted
      <4> QED BY <4>1, Targeted
    <3>2. CASE IsLastOf(w, b)
      BY <3>1, <3>2, Targeted
    <3>3. CASE ~IsLastOf(w, b)
      <4>1. term[b].acks = -1
        BY <1>8, <3>3 DEF SentAck
      <4> QED BY <1>2, <3>1, <4>1 DEF AcksRead
    <3> QED BY <3>2, <3>3
  <2> QED BY <2>1, <2>2
<1> QED BY <1>9, <1>10 DEF HasRead

\* What a left agent returns, and what the winner will return, stays.
LEMMA OutcomeKept ==
    ASSUME TypeOK, TypeOK', Where, NEW w \in Agent, FlushFrom(w),
           NEW a \in Agent, SearchMove(a) \/ ReadTerm(a) \/ Leave(a)
    PROVE  /\ Outcome(w)' = Outcome(w)
           /\ \A j \in Agent \ {a} : /\ pc'[j] = pc[j]
                                     /\ Outcome(j)' = Outcome(j)
           /\ pc[a] # "left"
           /\ pc'[a] = "left" => Leave(a)
<1>1. CASE Leave(a)
    BY <1>1, LeaveMoves
<1>2. CASE SearchMove(a)
  <2>1. /\ terminate[a] # 0
        /\ \A j \in Agent \ {a} : pc'[j] = pc[j] /\ res'[j] = res[j] /\ path'[j] = path[j]
        /\ pc'[a] # "left"
        /\ \/ pc[a] = "step"
           \/ pc[a] = "post" /\ UNCHANGED <<res, path>>
    BY <1>2 DEF SearchMove, FlushFrom
  <2>2. pc[w] # "step"
    BY DEF FlushFrom
  <2>3. \A j \in Agent \ {a} : Outcome(j)' = Outcome(j)
    BY <2>1 DEF Outcome
  <2>4. Outcome(w)' = Outcome(w)
    <3>1. CASE a = w
      BY <2>1, <2>2, <3>1 DEF Outcome
    <3> QED BY <2>3, <3>1
  <2> QED BY <2>1, <2>3, <2>4
<1>3. CASE ReadTerm(a)
  <2>1. /\ \A j \in Agent \ {a} : pc'[j] = pc[j] /\ res'[j] = res[j] /\ path'[j] = path[j]
        /\ pc'[a] # "left" /\ pc[a] # "left"
    BY <1>3, ReadTermMoves
  <2>2. \A j \in Agent \ {a} : Outcome(j)' = Outcome(j)
    BY <2>1 DEF Outcome
  <2>3. ASSUME a = w PROVE Outcome(w)' = Outcome(w)
    <3>1. PICK b \in Agent \ {w} :
             DropRequest(w, b) \/ ForwardRequest(w, b) \/ RequestReturns(w, b)
             \/ RecvFinal(w, b) \/ RecvFinalAck(w, b) \/ RecvFinalFin(w, b)
      BY <1>3, <2>3 DEF ReadTerm
    <3>2. CASE RecvFinal(w, b)
      <4>1. chan[b][w] \in Seq(Msg) /\ chan[b][w] # <<>> /\ Head(chan[b][w]).kind = "FINAL"
        BY <3>2, TermRead DEF RecvFinal, Chans
      <4>2. Shape(w, b, w) /\ term[w].initiator = w
        BY DEF FlushFrom
      <4>3. "FINAL" \notin WorkKinds /\ "FINAL" # "FINAL_FIN"
        BY DEF WorkKinds
      <4>4. IsMark(w, b, w, Head(chan[b][w]))
        BY <4>1, <4>2, <4>3, ShapeTail DEF Shape
      <4>5. ~CarriesResult(w, Head(chan[b][w]))
        BY <4>2, <4>4 DEF IsMark, CarriesResult
      <4>6. UNCHANGED <<res, path>>
        BY <3>2, <4>5 DEF RecvFinal
      <4> QED BY <4>6 DEF Outcome
    <3>3. CASE ~RecvFinal(w, b)
      <4>1. UNCHANGED <<res, path>>
        BY <3>1, <3>3 DEF DropRequest, ForwardRequest, RequestReturns, RecvFinalAck,
                          RecvFinalFin
      <4> QED BY <4>1 DEF Outcome
    <3> QED BY <3>2, <3>3
  <2> QED BY <2>1, <2>2, <2>3
<1> QED BY <1>1, <1>2, <1>3

\* An agent that returned, and one about to, return what the winner does.
LEMMA LeftAgree ==
    ASSUME TypeOK, Targets, NEW w \in Agent, FlushFrom(w),
           NEW a \in Agent, terminate[a] = 2
    PROVE  Outcome(a) = Outcome(w)
<1>1. CASE a # w
  <2>1. terminate[w] = 2
    BY DEF FlushFrom
  <2>2. HasRead(w, w, a)
    BY <1>1, <2>1, AllFlushed DEF HasRead
  <2> QED BY <1>1, <2>2 DEF FlushFrom
<1> QED BY <1>1

-----------------------------------------------------------------------------
(* The abstract specification, AgreeToStop *)

Outcomes == [found : BOOLEAN, plan : Plan \cup {NoPlan}]

\* What an agent returns is an outcome.
LEMMA OutcomeTypes ==
    ASSUME TypeOK, NEW a \in Agent
    PROVE  Outcome(a) \in Outcomes
<1>1. path[a] \in Plan \cup {NoPlan}
    BY DEF TypeOK
<1>2. (IF res[a] = "FOUND" THEN path[a] ELSE NoPlan) \in Plan \cup {NoPlan}
    BY <1>1
<1> QED BY <1>2 DEF Outcome, Outcomes

\* No outcome is Running.
LEMMA RunningApart ==
    ASSUME NEW a \in Agent
    PROVE  Outcome(a) # Running
<1>1. DOMAIN Outcome(a) = {"found", "plan"}
    BY DEF Outcome
<1>2. DOMAIN Running = {"running"}
    BY DEF Running
<1> QED BY <1>1, <1>2

\* The verdict is the outcome of the winner, of whom there is one.
LEMMA VerdictOfWinner ==
    ASSUME TypeOK, Targets, NEW w \in Agent, FlushFrom(w)
    PROVE  Verdict = Outcome(w)
<1>1. \A v \in Agent : IsWinner(v) <=> v = w
    BY DEF FlushFrom, Targets, IsWinner
<1>2. (CHOOSE v \in Agent : IsWinner(v)) = w
    BY <1>1
<1> QED BY <1>1, <1>2 DEF Verdict

\* When the verdict is fixed, and what whoever finished the protocol makes of it.
VerdictFixed ==
    /\ NoWinner => Verdict = Running /\ \A a \in Agent : pc[a] # "left"
    /\ \A w \in Agent : FlushFrom(w) =>
          /\ Verdict = Outcome(w)
          /\ Outcome(w) \in Outcomes /\ Outcome(w) # Running
          /\ \A a \in Agent : terminate[a] = 2 => Outcome(a) = Outcome(w)

\* The common verdict, once given, is that of the winner.
LEMMA VerdictAlways == Spec => []VerdictFixed
<1>1. TypeOK /\ FlushInv => VerdictFixed
  <2> SUFFICES ASSUME TypeOK, FlushInv PROVE VerdictFixed
    OBVIOUS
  <2>1. ASSUME NoWinner
        PROVE  Verdict = Running /\ \A a \in Agent : pc[a] # "left"
    BY <2>1 DEF FlushInv, Verdict, NoWinner, Electing
  <2>2. ASSUME NEW w \in Agent, FlushFrom(w)
        PROVE  /\ Verdict = Outcome(w)
               /\ Outcome(w) \in Outcomes /\ Outcome(w) # Running
               /\ \A a \in Agent : terminate[a] = 2 => Outcome(a) = Outcome(w)
    BY <2>2, VerdictOfWinner, OutcomeTypes, RunningApart, LeftAgree DEF FlushInv
  <2> QED BY <2>1, <2>2 DEF VerdictFixed
<1> QED BY <1>1, TypeCorrect, FlushAlways, PTL

-----------------------------------------------------------------------------
(* The theorems *)

\* No agent compares or counts with a field of term_t that planMASearchNew
\* left uninitialised: whoever can read a FINAL or FINAL_ACK has computed its
\* targets for the winner (terminateMsg, terminatePrepareTargets).
THEOREM CountersReadyAlways == Spec => []CountersReady
<1>1. TypeOK /\ FlushInv => CountersReady
  <2> SUFFICES ASSUME TypeOK, FlushInv, NEW a \in Agent, NEW b \in Agent,
                      NEW i \in 1 .. Len(chan[b][a]),
                      chan[b][a][i].kind \in {"FINAL", "FINAL_ACK"}
               PROVE  term[a].initiator \in Agent /\ IsWinner(term[a].initiator)
    BY DEF CountersReady
  <2>1. ~Electing
    BY DEF Electing, KindsIn, WorkKinds
  <2>2. PICK w \in Agent : FlushFrom(w)
    BY <2>1, FlushHasWinner
  <2>3. term[a].initiator = w /\ term[w].initiator = w
    BY <2>2 DEF FlushFrom
  <2>4. IsWinner(w)
    BY <2>3 DEF FlushInv, Targets, IsWinner
  <2> QED BY <2>3, <2>4
<1> QED BY <1>1, TypeCorrect, FlushAlways, PTL

\* Nothing but FINAL_FIN is on its way to anybody once an agent finished the
\* protocol, however many agents there are (terminateMsg, searchPostStep).
THEOREM FlushCompleteAlways == Spec => []FlushComplete
<1>1. TypeOK /\ FlushInv => FlushComplete
  <2> SUFFICES ASSUME TypeOK, FlushInv, NEW c \in Agent, terminate[c] = 2,
                      NEW a \in Agent, NEW b \in Agent, NEW i \in 1 .. Len(chan[a][b])
               PROVE  chan[a][b][i].kind = "FINAL_FIN"
    BY DEF FlushComplete
  <2>1. PICK w \in Agent : FlushFrom(w)
    BY FlushHasWinner DEF Electing
  <2>2. terminate[w] = 2 /\ Targets /\ Where
    BY <2>1 DEF FlushFrom, FlushInv
  <2>3. CASE a # b
    BY <2>1, <2>2, <2>3, AllFlushed DEF Flushed
  <2>4. CASE a = b
    BY <2>2, <2>4 DEF Where
  <2> QED BY <2>3, <2>4
<1> QED BY <1>1, TypeCorrect, FlushAlways, PTL

\* All agents return the same verdict and the same plan, whatever each of
\* them had found before (planMASearchRun, terminateMsg).
THEOREM AgreementAlways == Spec => []Agreement
<1>1. TypeOK /\ FlushInv => Agreement
  <2> SUFFICES ASSUME TypeOK, FlushInv, NEW a \in Agent, NEW b \in Agent,
                      pc[a] = "left", pc[b] = "left"
               PROVE  Outcome(a) = Outcome(b)
    BY DEF Agreement
  <2>1. terminate[a] = 2 /\ terminate[b] = 2
    BY DEF FlushInv, Where
  <2>2. PICK w \in Agent : FlushFrom(w)
    BY <2>1, FlushHasWinner DEF Electing
  <2> QED BY <2>1, <2>2, LeftAgree DEF FlushInv
<1> QED BY <1>1, TypeCorrect, FlushAlways, PTL

\* The protocol implements AgreeToStop: one step fixes the outcome, before the
\* first agent returns, each agent returns that outcome in one step, and no
\* other step of the code is visible to the callers of planMASearchRun.
THEOREM AgreesToStop == Spec => ImplementsAgreeToStop
<1>1. Init => Agreed!Init
  <2> SUFFICES ASSUME Init PROVE Agreed!Init
    OBVIOUS
  <2>1. \A a \in Agent : pc[a] = "step" /\ term[a].initiator = NoAgent
    BY DEF Init
  <2>2. \A a \in Agent : pc[a] # "left" /\ ~IsWinner(a)
    BY <2>1, SizeAssumption DEF IsWinner, Agent, NoAgent
  <2> QED BY <2>2 DEF Agreed!Init, Verdict, Returned
<1>2. TypeOK /\ TypeOK' /\ Election /\ FlushInv /\ VerdictFixed /\ VerdictFixed'
      /\ [Next]_vars => [Agreed!Next]_Agreed!vars
  <2> SUFFICES ASSUME TypeOK, TypeOK', Election, FlushInv, VerdictFixed,
                      VerdictFixed', [Next]_vars
               PROVE  Agreed!Next \/ UNCHANGED <<Verdict, Returned>>
    BY DEF Agreed!vars
  <2>0. /\ Where /\ Targets /\ (NoWinner => Electing)
        /\ OrderedIn(chan) /\ KnownIn(chan)
        /\ \A w \in Agent : IsWinner(w) => FlushFrom(w)
    BY DEF FlushInv
  <2>1. CASE UNCHANGED vars
    BY <2>1 DEF vars, Verdict, Returned, IsWinner, Outcome
  <2>2. ASSUME NEW a \in Agent, SearchMove(a) \/ ReadTerm(a) \/ Leave(a)
        PROVE  Agreed!Next \/ UNCHANGED <<Verdict, Returned>>
    \* No request is back: nobody returned.
    <3>1. CASE NoWinner /\ NoWinner'
      <4>1. /\ Verdict = Running /\ \A j \in Agent : pc[j] # "left"
            /\ Verdict' = Running /\ \A j \in Agent : pc'[j] # "left"
        BY <3>1 DEF VerdictFixed
      <4> QED BY <4>1 DEF Returned
    \* The winner's request comes back.
    <3>2. CASE NoWinner /\ ~NoWinner'
      <4>1. Verdict = Running /\ \A j \in Agent : pc[j] # "left" /\ terminate[j] # 2
        BY <2>0, <3>2 DEF VerdictFixed, Electing
      <4>2. PICK w \in Agent : FlushFrom(w)'
        <5>1. PICK w \in Agent : IsWinner(w)'
          BY <3>2 DEF NoWinner
        <5>2. PICK b \in Agent \ {w} : RequestReturns(w, b)
          BY <2>0, <2>2, <3>2, <5>1, WinnerIsBack
        <5> QED BY <2>0, <3>2, <5>2, FlushBegins
      <4>3. Verdict' = Outcome(w)' /\ Outcome(w)' \in Outcomes
        BY <4>2 DEF VerdictFixed
      <4>4. \A j \in Agent : pc'[j] # "left"
        <5>1. CASE SearchMove(a)
          BY <4>1, <5>1 DEF SearchMove
        <5>2. CASE ReadTerm(a)
          <6>1. /\ pc'[a] \in {"step", "post"}
                /\ \A j \in Agent \ {a} : pc'[j] = pc[j]
            BY <2>0, <5>2, ReadTermMoves
          <6> QED BY <4>1, <6>1
        <5>3. ~Leave(a)
          BY <4>1 DEF Leave
        <5> QED BY <2>2, <5>1, <5>2, <5>3
      <4>5. Returned' = Returned
        BY <4>1, <4>4 DEF Returned
      <4> QED BY <4>1, <4>3, <4>5 DEF Agreed!Next, Agreed!Decide, Outcomes
    \* The outcome is fixed: agents return it.
    <3>3. CASE ~NoWinner
      <4>1. PICK w \in Agent : FlushFrom(w)
        BY <2>0, <3>3 DEF NoWinner
      <4>2. FlushFrom(w)'
        BY <2>0, <2>2, <4>1, FlushStep
      <4>3. Verdict = Outcome(w) /\ Verdict' = Outcome(w)'
        BY <4>1, <4>2 DEF VerdictFixed
      <4>4. /\ Outcome(w)' = Outcome(w)
            /\ \A j \in Agent \ {a} : pc'[j] = pc[j] /\ Outcome(j)' = Outcome(j)
            /\ pc[a] # "left"
            /\ pc'[a] = "left" => Leave(a)
        BY <2>0, <2>2, <4>1, OutcomeKept
      <4>5. CASE pc'[a] # "left"
        <5>1. Returned' = Returned
          BY <4>4, <4>5 DEF Returned
        <5> QED BY <4>3, <4>4, <5>1
      <4>6. CASE pc'[a] = "left"
        <5>1. terminate'[a] = 2
          BY <4>4, <4>6, LeaveMoves
        <5>2. Outcome(a)' = Outcome(w)'
          BY <4>2, <5>1 DEF VerdictFixed
        <5>3. Verdict # Running /\ Verdict' = Verdict
          BY <4>1, <4>3, <4>4 DEF VerdictFixed
        <5>4. Returned[a] = Running
          BY <4>4 DEF Returned
        <5>5. Returned' = [Returned EXCEPT ![a] = Verdict]
          BY <4>3, <4>4, <4>6, <5>2 DEF Returned
        <5> QED BY <5>3, <5>4, <5>5 DEF Agreed!Next, Agreed!Stop
      <4> QED BY <4>5, <4>6
    <3> QED BY <3>1, <3>2, <3>3
  <2> QED BY <2>0, <2>1, <2>2, NextMoves
<1> QED BY <1>1, <1>2, TypeCorrect, ElectionAlways, FlushAlways,
           VerdictAlways, PTL
        DEF Spec, ImplementsAgreeToStop, Agreed!Spec
=============================================================================
