-------------------------------- MODULE Lists --------------------------------
(***************************************************************************)
(* The open lists of the search algorithms and the priority queue of the    *)
(* heuristics (src/list_lazy_*.c, src/list_tiebreaking.c, src/prio_queue.c),*)
(* each by the data it keeps:                                               *)
(*   bucket   an array of queues that grows, with the least key so far      *)
(*   tree     a search tree of queues, one for every key in use; the        *)
(*            red-black tree, the splay tree and the tie-breaking list,     *)
(*            whose keys are pairs of costs, are the same here              *)
(*   heap     a pairing heap, which gives equal keys back in any order      *)
(*   fifo     one queue, whatever the key                                   *)
(*   prio     an array of stacks that becomes a heap at the first key which *)
(*            does not fit                                                  *)
(* The trees, the pairing heap and the queues are Boruvka's, an external    *)
(* library, and are modelled by what is used of them.                       *)
(***************************************************************************)
EXTENDS Integers, Sequences, FiniteSets, SequencesExt

CONSTANTS Val,        \* what is stored: a state, with or without an operator
          InitSize,   \* BUCKET_INIT_SIZE, PLAN_BUCKET_QUEUE_SIZE
          MaxKey,     \* BUCKET_MAX_KEY
          TopKey,     \* the highest key that is pushed
          MaxPushes   \* bound on the pushes

Key == 0 .. TopKey
Kinds == {"bucket", "tree", "heap", "fifo", "prio"}

\* A push or a clear; an unsuccessful pop; the program ended with an error
\* message.
Nothing == [what |-> "nothing"]
Empty == [what |-> "empty"]
TooHigh == [what |-> "key too high"]
Node(k, v) == [key |-> k, val |-> v]

\* The nodes of b with a key in K, and the values of nodes, in their order.
Under(b, K) ==
    LET under[i \in 0 .. Len(b)] ==
          IF i = 0 THEN <<>>
          ELSE IF b[i].key \in K THEN Append(under[i - 1], b[i]) ELSE under[i - 1]
    IN under[Len(b)]
Values(b) == [i \in DOMAIN b |-> b[i].val]

VARIABLES kind,     \* the kind of the list, fixed
          bucket,   \* the array of a bucket list or a bucket queue
          lowest,   \* lowest_key
          size,     \* the number of values as the bucket list counts them
          tree,     \* the queues of a tree by their keys
          heap,     \* the nodes of a heap, or of the one queue, by their age
          out,      \* the outcome of the last operation
          pushes    \* bounded by MaxPushes

listVars == <<kind, bucket, lowest, size, tree, heap, out, pushes>>

ListInit == /\ kind \in Kinds
            /\ bucket = [k \in 0 .. InitSize - 1 |-> <<>>]
            /\ lowest = IF kind = "prio" THEN InitSize ELSE TopKey + 1
            /\ size = 0
            /\ tree = <<>>
            /\ heap = <<>>
            /\ out = Nothing
            /\ pushes = 0

-----------------------------------------------------------------------------
(* Bucket lists *)

\* Mutant: the least key is only looked for when it is not known yet.
Lowered(k) == IF lowest > TopKey THEN k ELSE lowest

\* The least key so far.
LowestWith(k) == IF k < lowest THEN k ELSE lowest

Greater(x, y) == IF x > y THEN x ELSE y

\* The array is enlarged to hold key k.
Expanded(k) ==
    LET n == Cardinality(DOMAIN bucket)
    IN [l \in 0 .. (IF k < n THEN n ELSE Greater(k + 1, 2 * n)) - 1 |->
          IF l < n THEN bucket[l] ELSE <<>>]

BucketPush(k, v) ==
    /\ kind = "bucket"
    /\ IF k > MaxKey THEN out' = TooHigh /\ UNCHANGED <<bucket, lowest, size>>
       ELSE /\ bucket' = [Expanded(k) EXCEPT ![k] = Append(@, v)]
            /\ lowest' = LowestWith(k)
            /\ size' = size + 1
            /\ out' = Nothing
    /\ UNCHANGED <<tree, heap>>

\* The first bucket from lowest_key on that is not empty.
Filled == {k \in DOMAIN bucket : k >= lowest /\ bucket[k] # <<>>}
FirstFilled == CHOOSE k \in Filled : \A l \in Filled : k <= l

BucketPop ==
    /\ kind = "bucket"
    /\ \/ size = 0 /\ out' = Empty /\ UNCHANGED <<bucket, lowest, size>>
       \/ /\ size # 0
          /\ out' = Node(FirstFilled, Head(bucket[FirstFilled]))
          /\ bucket' = [bucket EXCEPT ![FirstFilled] = Tail(@)]
          /\ lowest' = FirstFilled
          /\ size' = size - 1
    /\ UNCHANGED <<tree, heap>>

-----------------------------------------------------------------------------
(* Trees of queues *)

TreePush(k, v) ==
    /\ kind = "tree"
    /\ tree' = [l \in DOMAIN tree \cup {k} |->
                  IF l # k THEN tree[l]
                  ELSE IF k \in DOMAIN tree THEN Append(tree[k], v) ELSE <<v>>]
    /\ out' = Nothing
    /\ UNCHANGED <<bucket, lowest, size, heap>>

TreePop ==
    /\ kind = "tree"
    /\ IF DOMAIN tree = {} THEN out' = Empty /\ UNCHANGED tree
       ELSE LET k == CHOOSE l \in DOMAIN tree : \A m \in DOMAIN tree : l <= m
                rest == Tail(tree[k])
            IN /\ out' = Node(k, Head(tree[k]))
               /\ tree' = IF rest = <<>> THEN [l \in DOMAIN tree \ {k} |-> tree[l]]
                          ELSE [tree EXCEPT ![k] = rest]
    /\ UNCHANGED <<bucket, lowest, size, heap>>

TreeClear ==
    /\ kind = "tree"
    /\ tree' = <<>>
    /\ out' = Nothing
    /\ UNCHANGED <<bucket, lowest, size, heap>>

-----------------------------------------------------------------------------
(* Heaps *)

LeastNodes == {i \in DOMAIN heap : \A j \in DOMAIN heap : heap[i].key <= heap[j].key}

HeapPush(k, v) ==
    /\ kind = "heap"
    /\ heap' = Append(heap, Node(k, v))
    /\ out' = Nothing
    /\ UNCHANGED <<bucket, lowest, size, tree>>

HeapPop ==
    /\ kind = "heap"
    /\ \/ heap = <<>> /\ out' = Empty /\ UNCHANGED heap
       \/ \E i \in LeastNodes : out' = heap[i] /\ heap' = RemoveAt(heap, i)
    /\ UNCHANGED <<bucket, lowest, size, tree>>

Cleared(k) ==
    /\ kind = k
    /\ heap' = <<>>
    /\ out' = Nothing
    /\ UNCHANGED <<bucket, lowest, size, tree>>

HeapClear == Cleared("heap")

-----------------------------------------------------------------------------
(* The queue that ignores keys; all are pushed under 0 *)

FifoPush(v) ==
    /\ kind = "fifo"
    /\ heap' = Append(heap, Node(0, v))
    /\ out' = Nothing
    /\ UNCHANGED <<bucket, lowest, size, tree>>

FifoPop ==
    /\ kind = "fifo"
    /\ \/ heap = <<>> /\ out' = Empty /\ UNCHANGED heap
       \/ heap # <<>> /\ out' = Head(heap) /\ heap' = Tail(heap)
    /\ UNCHANGED <<bucket, lowest, size, tree>>

FifoClear == Cleared("fifo")

-----------------------------------------------------------------------------
(* The priority queue: buckets, of which the last value is taken first, as  *)
(* long as all keys are below InitSize; then a heap                         *)

IsHeap == DOMAIN bucket = {}

\* Mutant: buckets are emptied from the first key that was popped last.
MovedAfter(b) == Under(b, {k \in Key : k > lowest})

\* planBucketQueueToHeapQueue, from lowest_key on.
Moved(b) == Under(b, {k \in Key : k >= lowest})

InOrder == FlattenSeq([i \in 1 .. InitSize |->
    [j \in DOMAIN bucket[i - 1] |-> Node(i - 1, bucket[i - 1][j])]])

PrioPush(k, v) ==
    /\ kind = "prio"
    /\ out' = Nothing
    /\ \/ /\ ~IsHeap /\ k < InitSize
          /\ bucket' = [bucket EXCEPT ![k] = Append(@, v)]
          /\ lowest' = LowestWith(k)
          /\ size' = size + 1
          /\ UNCHANGED heap
       \/ /\ ~IsHeap /\ k >= InitSize
          /\ bucket' = <<>>
          /\ size' = 0
          /\ heap' = Append(Moved(InOrder), Node(k, v))
          /\ UNCHANGED lowest
       \/ /\ IsHeap
          /\ heap' = Append(heap, Node(k, v))
          /\ UNCHANGED <<bucket, lowest, size>>
    /\ UNCHANGED tree

\* Callers ask whether the queue is empty before they pop.
PrioPop ==
    /\ kind = "prio"
    /\ \/ /\ ~IsHeap /\ size = 0
          /\ out' = Empty
          /\ UNCHANGED <<bucket, lowest, size, heap>>
       \/ /\ ~IsHeap /\ size # 0
          /\ out' = Node(FirstFilled, Last(bucket[FirstFilled]))
          /\ bucket' = [bucket EXCEPT ![FirstFilled] = Front(@)]
          /\ lowest' = FirstFilled
          /\ size' = size - 1
          /\ UNCHANGED heap
       \/ /\ IsHeap /\ heap = <<>>
          /\ out' = Empty
          /\ UNCHANGED <<bucket, lowest, size, heap>>
       \/ /\ IsHeap
          /\ \E i \in LeastNodes : out' = heap[i] /\ heap' = RemoveAt(heap, i)
          /\ UNCHANGED <<bucket, lowest, size>>
    /\ UNCHANGED tree

-----------------------------------------------------------------------------
Push(k, v) == /\ pushes < MaxPushes
              /\ pushes' = pushes + 1
              /\ \/ BucketPush(k, v) \/ TreePush(k, v) \/ HeapPush(k, v)
                 \/ FifoPush(v) \/ PrioPush(k, v)

Pop == (BucketPop \/ TreePop \/ HeapPop \/ FifoPop \/ PrioPop) /\ UNCHANGED pushes

\* Only hill climbing clears its list.  (Bucket lists cannot be cleared and
\* used again: planListLazyBucketClear leaves their size as it is.)
Clear == /\ TreeClear \/ HeapClear \/ FifoClear
         /\ UNCHANGED pushes

\* After an error message the program is over.
ListNext == /\ out # TooHigh
            /\ \/ \E k \in Key, v \in Val : Push(k, v)
               \/ Pop
               \/ Clear
            /\ UNCHANGED kind

ListSpec == ListInit /\ [][ListNext]_listVars

-----------------------------------------------------------------------------
(* Properties *)

\* The content as a queue: what is stored under k, in the order of its age.
Content(k) ==
    CASE kind = "tree" -> IF k \in DOMAIN tree THEN tree[k] ELSE <<>>
      [] kind \in {"bucket", "prio"} /\ k \in DOMAIN bucket -> bucket[k]
      [] OTHER -> Values(Under(heap, {k}))

Abstract == INSTANCE PriorityQueue
    WITH stable <- kind \in {"bucket", "tree", "fifo"},
         queue <- [k \in Key |-> Content(k)],
         out <- IF out = TooHigh THEN Nothing ELSE out

\* Every list is a queue, whatever is pushed and popped in between: no value
\* is lost when the array grows, when keys smaller than those already popped
\* come, or when the buckets become a heap.  (A bucket list that ends the
\* program because a key is too high keeps its content.)
QueueStep ==
    \/ Abstract!Next
    \/ out' = TooHigh /\ UNCHANGED [k \in Key |-> Content(k)]
ListsAreQueues == Abstract!Init /\ [][QueueStep]_listVars
=============================================================================
