--------------------------- MODULE SnapshotObject ---------------------------
(***************************************************************************)
(* A snapshot object of one agent (plan_ma_snapshot_t, src/ma_snapshot.c)  *)
(* and what snapshot messages do to it.  What a particular kind of snapshot *)
(* records (its callbacks) is left to the modules that use this one.       *)
(***************************************************************************)
EXTENDS Integers, FiniteSets

CONSTANT N      \* number of agents

SnapKinds == {"INIT", "MARK", "RESPONSE"}

\* _planMASnapshotInit
NewObject(isInitiator) == [initiator |-> isInitiator, marks |-> {}, resps |-> {}]

\* A mark (INIT is one too) or a response of agent b was received before:
\* the program exits.
Repeated(s, kind, b) ==
    b \in IF kind = "RESPONSE" THEN s.resps ELSE s.marks

\* The object after it counted the message of agent b.
Count(s, kind, b) ==
    IF kind = "RESPONSE" THEN [s EXCEPT !.resps = @ \cup {b}]
                         ELSE [s EXCEPT !.marks = @ \cup {b}]

\* mark_remain and resp_remain reached zero with this message.
MarksComplete(s, kind) == kind # "RESPONSE" /\ Cardinality(s.marks) = N - 1
RespsComplete(s, kind) == kind = "RESPONSE" /\ Cardinality(s.resps) = N - 1

\* The object is deleted: an agent that took part has answered, the
\* initiator has all answers.
Finished(s, kind) == \/ ~s.initiator /\ MarksComplete(s, kind)
                     \/ RespsComplete(s, kind)

\* planMASnapshotUpdate: messages of b still belong to the snapshot until b's
\* mark was received.
Updates(s, b) == b \notin s.marks
=============================================================================
