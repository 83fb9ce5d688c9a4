------------------------------ MODULE Channels ------------------------------
(***************************************************************************)
(* The communication layer the multi-agent search runs on: one nanomsg     *)
(* pipeline per ordered pair of agents, reliable and in order              *)
(* (src/ma_comm_nanomsg.c).  Messages of different senders are read in any *)
(* order.  chan[a][b] is what a sent and b has not read.                   *)
(***************************************************************************)
EXTENDS Integers, Sequences

CONSTANT N      \* number of agents

ASSUME SizeAssumption == N \in Nat /\ N >= 2

Agent == 0 .. N - 1
Others(a) == Agent \ {a}

NoMsgs == [a \in Agent |-> [b \in Agent |-> <<>>]]

\* planMACommSendToNode, planMACommSendToAll: the channels after a sends m
\* to every agent of S.
Send(ch, a, S, m) ==
    [p \in Agent |-> [q \in Agent |->
        IF p = a /\ q \in S THEN Append(ch[p][q], m) ELSE ch[p][q]]]

\* planMACommRecv, planMACommRecvBlock: the channels after a read the next
\* message of b.
Consume(ch, b, a) == [ch EXCEPT ![b][a] = Tail(@)]
=============================================================================
