----------------------------- MODULE MASnapshot -----------------------------
(***************************************************************************)
(* Distributed snapshots (src/ma_snapshot.c with the callbacks of the       *)
(* solution verification in src/ma_search.c), and what they are for: the   *)
(* agents that take part record together a consistent picture of the work  *)
(* that is left, although they never stop to work.                         *)
(*                                                                         *)
(* Work is a set of items, each at one agent (a state in its open list) or *)
(* in a channel (a PUBLIC_STATE message).  An agent records what it has    *)
(* when it creates its object of the snapshot, and what it receives from   *)
(* an agent until that agent's mark arrives.  In the code the record is a  *)
(* lower bound on the costs of the items (lowest_cost); here it is the set *)
(* of items itself, so that the checks can tell what was missed.           *)
(***************************************************************************)
EXTENDS Channels, FiniteSets

CONSTANTS Item,     \* pieces of work
          MaxSnap   \* bound on the snapshots started

ASSUME SnapAssumption == MaxSnap \in Nat

Token == 1 .. MaxSnap
NoAgent == N

Obj == INSTANCE SnapshotObject

VARIABLES hold,     \* hold[a]: items agent a has
          chan,     \* messages
          objs,     \* objs[a]: agent a's registry, a function from tokens
          started,  \* started[t]: initiator of the snapshot with token t
          cut       \* cut[t][a]: what a recorded for t, once its object is gone

vars == <<hold, chan, objs, started, cut>>

NoCut == {[gone |-> FALSE]}

ASSUME ItemAssumption == [gone |-> FALSE] \notin Item

\* An object, with what the callbacks keep in it: the sender of init_msg and
\* the record.
Object(isInitiator, rec) ==
    [count |-> Obj!NewObject(isInitiator), init |-> NoAgent, rec |-> rec]

Item2Msg(i) == [kind |-> "PUBLIC_STATE", item |-> i]
SnapMsg(k, t) == [kind |-> k, token |-> t]

Init == /\ hold \in [Agent -> SUBSET Item]
        /\ \A i \in Item : Cardinality({a \in Agent : i \in hold[a]}) = 1
        /\ chan = NoMsgs
        /\ objs = [a \in Agent |-> <<>>]
        /\ started = <<>>
        /\ cut = [t \in Token |-> [a \in Agent |-> NoCut]]

-----------------------------------------------------------------------------
\* solutionVerify: create a token of the shared counter and the agent's
\* identifier (planMAMsgInit), register the object, send INIT to all.
StartSnapshot(a) ==
    /\ Len(started) < MaxSnap
    /\ LET t == Len(started) + 1
       IN /\ started' = Append(started, a)
          /\ objs' = [objs EXCEPT ![a] =
                        [u \in DOMAIN @ \cup {t} |-> IF u = t
                         THEN [Object(TRUE, hold[a]) EXCEPT !.init = a]
                         ELSE @[u]]]
          /\ chan' = Send(chan, a, Others(a), SnapMsg("INIT", t))
    /\ UNCHANGED <<hold, cut>>

\* The search sends an item away: publicStateSend of a state it expanded.
SendItem(a, b) ==
    /\ \E i \in hold[a] :
          /\ hold' = [hold EXCEPT ![a] = @ \ {i}]
          /\ chan' = Send(chan, a, {b}, Item2Msg(i))
    /\ UNCHANGED <<objs, started, cut>>

\* Mutant: what is in transit is not recorded.
NotUpdated(o, b, i) == o

\* What the snapshots of an agent record of an item that arrives from b.
Updated(o, b, i) == IF Obj!Updates(o.count, b)
                    THEN [o EXCEPT !.rec = @ \cup {i}] ELSE o

\* processMsg on a PUBLIC_STATE: first the snapshots, then publicStateRecv.
RecvItem(a, b) ==
    /\ chan[b][a] # <<>>
    /\ LET m == Head(chan[b][a])
       IN /\ m.kind = "PUBLIC_STATE"
          /\ objs' = [objs EXCEPT ![a] =
                        [t \in DOMAIN @ |-> Updated(@[t], b, m.item)]]
          /\ hold' = [hold EXCEPT ![a] = @ \cup {m.item}]
    /\ chan' = Consume(chan, b, a)
    /\ UNCHANGED <<started, cut>>

\* The first snapshot message with a token makes an agent take part: it
\* records what it has and sends its own marks.
Known(a, t) == t \in DOMAIN objs[a]
\* Mutants: an agent that takes part sends marks again and again; it sends none.
MarksAlways(a, t, ch) == Send(ch, a, Others(a), SnapMsg("MARK", t))
MarksNever(a, t, ch) == ch

Joined(a, t) == IF Known(a, t) THEN objs[a][t] ELSE Object(FALSE, hold[a])
JoinMarks(a, t, ch) == IF Known(a, t) THEN ch
                       ELSE Send(ch, a, Others(a), SnapMsg("MARK", t))

\* processMsg on a SNAPSHOT message: planMASnapshotRegMsg, after creating
\* the object if there is none with that token.
RecvSnapshot(a, b) ==
    /\ chan[b][a] # <<>>
    /\ LET m == Head(chan[b][a])
           t == m.token
           joined == Joined(a, t)
           new == [joined EXCEPT
                     !.count = Obj!Count(joined.count, m.kind, b),
                     !.init = IF m.kind = "INIT" THEN b ELSE @]
           over == Obj!Finished(new.count, m.kind)
           ch   == JoinMarks(a, t, Consume(chan, b, a))
       IN /\ m.kind \in Obj!SnapKinds
          /\ ~Obj!Repeated(joined.count, m.kind, b)
          /\ objs' = [objs EXCEPT ![a] =
                        [u \in (DOMAIN @ \cup {t}) \ (IF over THEN {t} ELSE {})
                            |-> IF u = t THEN new ELSE @[u]]]
          /\ chan' = IF over /\ ~new.count.initiator
                     THEN Send(ch, a, {new.init}, SnapMsg("RESPONSE", t))
                     ELSE ch
          /\ cut' = IF over THEN [cut EXCEPT ![t][a] = new.rec] ELSE cut
    /\ UNCHANGED <<hold, started>>

Receive(a) == \E b \in Others(a) : RecvItem(a, b) \/ RecvSnapshot(a, b)

\* Every snapshot that may be started is over and nothing is in transit.
Quiet == Len(started) = MaxSnap /\ chan = NoMsgs /\ UNCHANGED vars

Next == \/ \E a \in Agent : \/ StartSnapshot(a)
                            \/ \E b \in Others(a) : SendItem(a, b)
                            \/ Receive(a)
        \/ Quiet

Spec == Init /\ [][Next]_vars

-----------------------------------------------------------------------------
(* Properties *)

ObjectType == [count : [initiator : BOOLEAN, marks : SUBSET Agent,
                        resps : SUBSET Agent],
               init  : Agent \cup {NoAgent},
               rec   : SUBSET Item]

\* Registries hold objects of started snapshots, initiators know that they
\* are, and an agent never counts a message of its own.
TypeOK ==
    /\ hold \in [Agent -> SUBSET Item]
    /\ started \in Seq(Agent) /\ Len(started) <= MaxSnap
    /\ \A a \in Agent :
          /\ DOMAIN objs[a] \subseteq DOMAIN started
          /\ \A t \in DOMAIN objs[a] :
                /\ objs[a][t] \in ObjectType
                /\ objs[a][t].count.initiator <=> started[t] = a
                /\ a \notin objs[a][t].count.marks \cup objs[a][t].count.resps
    /\ cut \in [Token -> [Agent -> (SUBSET Item) \cup {NoCut}]]

\* A snapshot is a consistent picture (the ground of solution verification):
\* when its initiator has all answers every agent has recorded its part, and
\* every item is in exactly one of the records, whether it was at an agent
\* or on its way when the marks passed.
ConsistentCut ==
    \A t \in DOMAIN started : cut[t][started[t]] # NoCut =>
        /\ \A a \in Agent : cut[t][a] # NoCut
        /\ \A i \in Item : Cardinality({a \in Agent : i \in cut[t][a]}) = 1

\* No snapshot message comes too late or twice: none arrives at an agent that
\* has deleted its object (it would start the snapshot again there), and none
\* repeats a mark or an answer (the program would exit).
NoStrayMessage ==
    \A a, b \in Agent : chan[b][a] # <<>> =>
        LET m == Head(chan[b][a])
        IN m.kind \in Obj!SnapKinds =>
              /\ cut[m.token][a] = NoCut
              /\ Known(a, m.token) =>
                    ~Obj!Repeated(objs[a][m.token].count, m.kind, b)

\* No snapshot hangs: an object that still waits for a mark or an answer has
\* one coming, so that nobody keeps an object when the channels are empty.
SnapshotsEnd == chan = NoMsgs => \A a \in Agent : DOMAIN objs[a] = {}
=============================================================================
