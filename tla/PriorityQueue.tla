---------------------------- MODULE PriorityQueue ----------------------------
(***************************************************************************)
(* What an open list or a priority queue promises (plan/list_lazy.h,        *)
(* plan/list.h, plan/prio_queue.h): a push adds a value under a key, a pop  *)
(* takes a value of the least key away, or fails because nothing is there,  *)
(* and a clear removes everything.  A stable queue gives values of the same *)
(* key back in the order they came.                                         *)
(***************************************************************************)
EXTENDS Integers, Sequences, SequencesExt

CONSTANTS Key, Val,
          Nothing,   \* the outcome of a push or a clear
          Empty      \* the outcome of a pop from an empty queue

VARIABLES stable,    \* whether the queue is stable, fixed
          queue,     \* queue[k]: the values pushed under k, in their order
          out        \* the outcome of the last operation

Popped(k, v) == [key |-> k, val |-> v]

Used == {k \in Key : queue[k] # <<>>}

Init == queue = [k \in Key |-> <<>>] /\ out = Nothing

Push(k, v) == /\ queue' = [queue EXCEPT ![k] = Append(@, v)]
              /\ out' = Nothing

Pop(k, i) == /\ \A l \in Used : k <= l
             /\ stable => i = 1
             /\ out' = Popped(k, queue[k][i])
             /\ queue' = [queue EXCEPT ![k] = RemoveAt(@, i)]

PopNothing == Used = {} /\ out' = Empty /\ UNCHANGED queue

Clear == queue' = [k \in Key |-> <<>>] /\ out' = Nothing

Next == /\ \/ \E k \in Key, v \in Val : Push(k, v)
           \/ \E k \in Used : \E i \in DOMAIN queue[k] : Pop(k, i)
           \/ PopNothing
           \/ Clear
        /\ UNCHANGED stable

Spec == Init /\ [][Next]_<<stable, queue, out>>
=============================================================================
