---------------------------- MODULE ListsProofs ----------------------------
(***************************************************************************)
(* Every open list and the adaptive priority queue (Lists) implement the    *)
(* abstract queue (PriorityQueue), for any values, sizes of the arrays and  *)
(* keys, and any number of pushes.                                          *)
(*                                                                         *)
(* The inductive invariant says where values can be: buckets below the      *)
(* least key are empty, size counts the values of all buckets, the queues   *)
(* of a tree are never empty, and the array and the heap of one list are    *)
(* not in use at the same time.                                             *)
(***************************************************************************)
EXTENDS Lists, WellFoundedInduction, FiniteSetTheorems, SequenceTheorems, TLAPS

-----------------------------------------------------------------------------
(* Natural numbers, and functions by recursion on them *)

\* A set of natural numbers has a least one.
LEMMA Smallest ==
    ASSUME NEW S \in SUBSET Nat, S # {}
    PROVE  \E n \in S : \A k \in S : n <= k
<1>1. PICK n \in S : \A k \in S : ~(<<k, n>> \in OpToRel(<, Nat))
  <2>1. \E n \in S : \A k \in S : ~(<<k, n>> \in OpToRel(<, Nat))
    BY NatLessThanWellFounded, WFMin
  <2> QED BY <2>1
<1>2. ASSUME NEW k \in S
      PROVE  n <= k
  <2>1. ~(<<k, n>> \in OpToRel(<, Nat))
    BY <1>1
  <2> QED BY <2>1 DEF OpToRel
<1> QED BY <1>2

\* A set that has 0 and with every number below n the next one has n.
LEMMA Counting ==
    ASSUME NEW n \in Nat, NEW T, 0 \in T, \A k \in 1 .. n : k - 1 \in T => k \in T
    PROVE  n \in T
<1> DEFINE B == {k \in 0 .. n : k \notin T}
<1>1. ASSUME B # {}
      PROVE  FALSE
  <2>0. B \in SUBSET Nat
    OBVIOUS
  <2>3. \E k \in B : \A j \in B : k <= j
    <3> HIDE DEF B
    <3> QED BY <1>1, <2>0, Smallest
  <2>1. PICK k \in B : \A j \in B : k <= j
    BY <2>3
  <2>2. k \in 1 .. n /\ k - 1 \in 0 .. n /\ k - 1 \notin B
    BY <2>1
  <2> QED BY <2>1, <2>2
<1> QED BY <1>1

\* A function of 0 .. n that starts with x and goes on with F.
Unfolds(f, x, n, F) == \A k \in 0 .. n : f[k] = IF k = 0 THEN x ELSE F[k][f[k - 1]]

\* There is one when the steps stay in a set.
LEMMA Unfolding ==
    ASSUME NEW S, NEW x \in S, NEW n \in Nat, NEW F \in [1 .. n -> [S -> S]]
    PROVE  \E f \in [0 .. n -> S] : Unfolds(f, x, n, F)
<1> DEFINE Upto(j) == \E f \in [0 .. j -> S] : Unfolds(f, x, j, F)
           T == {j \in 0 .. n : Upto(j)}
<1>1. 0 \in T
  <2> DEFINE f == [k \in 0 .. 0 |-> x]
  <2>1. f \in [0 .. 0 -> S] /\ Unfolds(f, x, 0, F)
    BY DEF Unfolds
  <2>2. Upto(0)
    BY <2>1
  <2> QED BY <2>2
<1>2. ASSUME NEW j \in 1 .. n, j - 1 \in T
      PROVE  j \in T
  <2>1. PICK f \in [0 .. j - 1 -> S] : Unfolds(f, x, j - 1, F)
    BY <1>2
  <2> DEFINE g == [k \in 0 .. j |-> IF k = j THEN F[j][f[j - 1]] ELSE f[k]]
  <2>2. F[j][f[j - 1]] \in S
    OBVIOUS
  <2>3. g \in [0 .. j -> S]
    BY <2>1, <2>2
  <2>4. Unfolds(g, x, j, F)
    BY <2>1 DEF Unfolds
  <2>5. Upto(j)
    <3> HIDE DEF g
    <3> QED BY <2>3, <2>4
  <2> HIDE DEF Upto
  <2> QED BY <2>5
<1>3. n \in T
  <2> HIDE DEF T
  <2> QED BY <1>1, <1>2, Counting
<1> QED BY <1>3

-----------------------------------------------------------------------------
(* Selecting nodes by their keys *)

\* Nodes of a list.
Nodes == [key : Key, val : Val]

\* How Under goes on with element i of b.
Picks(b, K) == [i \in 1 .. Len(b) |-> [s \in Seq(Nodes) |->
                  IF b[i].key \in K THEN Append(s, b[i]) ELSE s]]

\* Under is what its recursion says.
LEMMA UnderUnfolds ==
    ASSUME NEW b \in Seq(Nodes), NEW K
    PROVE  \E f \in [0 .. Len(b) -> Seq(Nodes)] :
              Unfolds(f, <<>>, Len(b), Picks(b, K)) /\ Under(b, K) = f[Len(b)]
<1> DEFINE n == Len(b)
           R(f) == [i \in 0 .. n |-> IF i = 0 THEN <<>> ELSE
                       IF b[i].key \in K THEN Append(f[i - 1], b[i]) ELSE f[i - 1]]
           c == CHOOSE f : f = R(f)
<1>1. n \in Nat /\ \A i \in 1 .. n : b[i] \in Nodes
    OBVIOUS
<1>2. <<>> \in Seq(Nodes)
    OBVIOUS
<1>3. Picks(b, K) \in [1 .. n -> [Seq(Nodes) -> Seq(Nodes)]]
    BY <1>1 DEF Picks
<1>4. PICK f \in [0 .. n -> Seq(Nodes)] : Unfolds(f, <<>>, n, Picks(b, K))
    BY <1>1, <1>2, <1>3, Unfolding
<1>5. ASSUME NEW g, g = R(g)
      PROVE  g[n] = f[n]
  <2> DEFINE T == {i \in 0 .. n : g[i] = f[i]}
  <2>1. 0 \in T
    <3>1. g[0] = <<>>
      BY <1>1, <1>5
    <3>2. f[0] = <<>>
      BY <1>1, <1>4 DEF Unfolds
    <3> QED BY <1>1, <3>1, <3>2
  <2>2. ASSUME NEW i \in 1 .. n, i - 1 \in T
        PROVE  i \in T
    <3>0. i \in 0 .. n /\ i - 1 \in 0 .. n /\ i # 0
      BY <1>1
    <3>1. g[i] = IF b[i].key \in K THEN Append(g[i - 1], b[i]) ELSE g[i - 1]
      BY <1>5, <3>0
    <3>2. f[i] = Picks(b, K)[i][f[i - 1]]
      BY <1>4, <3>0 DEF Unfolds
    <3>3. f[i - 1] \in Seq(Nodes) /\ g[i - 1] = f[i - 1]
      BY <2>2, <3>0
    <3>4. f[i] = IF b[i].key \in K THEN Append(f[i - 1], b[i]) ELSE f[i - 1]
      BY <3>2, <3>3 DEF Picks
    <3>5. g[i] = f[i]
      <4> HIDE DEF T, R
      <4> QED BY <3>1, <3>3, <3>4
    <3> QED BY <3>0, <3>5
  <2>3. n \in T
    <3> HIDE DEF T
    <3> QED BY <1>1, <2>1, <2>2, Counting
  <2> QED BY <2>3
<1>6. f = R(f)
  <2>1. ASSUME NEW i \in 0 .. n
        PROVE  f[i] = IF i = 0 THEN <<>> ELSE
                         IF b[i].key \in K THEN Append(f[i - 1], b[i]) ELSE f[i - 1]
    <3>1. CASE i = 0
      BY <1>4, <3>1 DEF Unfolds
    <3>2. CASE i # 0
      <4>1. i \in 1 .. n /\ i - 1 \in 0 .. n
        BY <1>1, <3>2
      <4>2. f[i] = Picks(b, K)[i][f[i - 1]] /\ f[i - 1] \in Seq(Nodes)
        BY <1>4, <3>2, <4>1 DEF Unfolds
      <4> QED BY <3>2, <4>1, <4>2 DEF Picks
    <3> QED BY <3>1, <3>2
  <2> QED BY <2>1
<1>7. c = R(c)
  <2> HIDE DEF R
  <2> QED BY <1>6
<1>8. Under(b, K) = c[n]
    BY DEF Under
<1>9. c[n] = f[n]
  <2> HIDE DEF c, R
  <2> QED BY <1>5, <1>7
<1> QED BY <1>4, <1>8, <1>9

\* Nothing is under any key in the empty list.
LEMMA UnderEmpty ==
    ASSUME NEW K
    PROVE  Under(<<>>, K) = <<>>
<1>1. <<>> \in Seq(Nodes) /\ Len(<<>>) = 0
    OBVIOUS
<1>2. PICK f \in [0 .. 0 -> Seq(Nodes)] :
         Unfolds(f, <<>>, 0, Picks(<<>>, K)) /\ Under(<<>>, K) = f[0]
    BY <1>1, UnderUnfolds
<1> QED BY <1>2 DEF Unfolds

\* What is under a key is a list of nodes.
LEMMA UnderType ==
    ASSUME NEW b \in Seq(Nodes), NEW K
    PROVE  Under(b, K) \in Seq(Nodes)
<1>1. PICK f \in [0 .. Len(b) -> Seq(Nodes)] :
         Unfolds(f, <<>>, Len(b), Picks(b, K)) /\ Under(b, K) = f[Len(b)]
    BY UnderUnfolds
<1> QED BY <1>1

\* A node that is appended to a list is appended to what is under its key.
LEMMA UnderAppend ==
    ASSUME NEW b \in Seq(Nodes), NEW x \in Nodes, NEW K
    PROVE  Under(Append(b, x), K) =
              IF x.key \in K THEN Append(Under(b, K), x) ELSE Under(b, K)
<1> DEFINE n == Len(b)
           a == Append(b, x)
<1>1. /\ n \in Nat /\ a \in Seq(Nodes) /\ Len(a) = n + 1 /\ a[n + 1] = x
      /\ \A i \in 1 .. n : a[i] = b[i]
  BY AppendProperties
<1>2. PICK f \in [0 .. n -> Seq(Nodes)] :
         Unfolds(f, <<>>, n, Picks(b, K)) /\ Under(b, K) = f[n]
  BY UnderUnfolds
<1>3. PICK g \in [0 .. n + 1 -> Seq(Nodes)] :
         Unfolds(g, <<>>, n + 1, Picks(a, K)) /\ Under(a, K) = g[n + 1]
  <2> HIDE DEF a, n
  <2>1. \E g \in [0 .. Len(a) -> Seq(Nodes)] :
           Unfolds(g, <<>>, Len(a), Picks(a, K)) /\ Under(a, K) = g[Len(a)]
    BY <1>1, UnderUnfolds
  <2> QED BY <1>1, <2>1
<1> HIDE DEF a, n
<1> DEFINE T == {i \in 0 .. n : g[i] = f[i]}
<1>4. 0 \in T
  BY <1>1, <1>2, <1>3 DEF Unfolds
<1>5. ASSUME NEW i \in 1 .. n, i - 1 \in T
      PROVE  i \in T
  <2>1. i \in 0 .. n /\ i \in 0 .. n + 1 /\ i - 1 \in 0 .. n /\ i # 0 /\ i \in 1 .. n + 1
    BY <1>1
  <2>2. /\ f[i] = Picks(b, K)[i][f[i - 1]] /\ g[i] = Picks(a, K)[i][f[i - 1]]
        /\ f[i - 1] \in Seq(Nodes)
    BY <1>2, <1>3, <1>5, <2>1 DEF Unfolds
  <2>3. Picks(b, K)[i][f[i - 1]] = Picks(a, K)[i][f[i - 1]]
    BY <1>1, <2>1, <2>2 DEF Picks, n
  <2> QED BY <2>1, <2>2, <2>3
<1>6. n \in T
  <2> HIDE DEF T
  <2> QED BY <1>1, <1>4, <1>5, Counting
<1>7. g[n + 1] = Picks(a, K)[n + 1][f[n]] /\ f[n] \in Seq(Nodes)
  BY <1>1, <1>2, <1>3, <1>6 DEF Unfolds
<1>8. Picks(a, K)[n + 1][f[n]] = IF x.key \in K THEN Append(f[n], x) ELSE f[n]
  BY <1>1, <1>7 DEF Picks
<1> QED BY <1>2, <1>3, <1>7, <1>8 DEF a

\* A node appended to the second of two lists that are put together.
LEMMA AppendConcat ==
    \A g, h \in Seq(Nodes) : \A x \in Nodes : Append(g \o h, x) = g \o Append(h, x)
<1> SUFFICES ASSUME NEW g \in Seq(Nodes), NEW h \in Seq(Nodes), NEW x \in Nodes
             PROVE  Append(g \o h, x) = g \o Append(h, x)
    OBVIOUS
<1>1. <<x>> \in Seq(Nodes) /\ g \o h \in Seq(Nodes)
    OBVIOUS
<1>2. Append(g \o h, x) = (g \o h) \o <<x>>
    BY <1>1, AppendIsConcat
<1>3. Append(h, x) = h \o <<x>>
    BY AppendIsConcat
<1> QED BY <1>1, <1>2, <1>3, ConcatAssociative

\* What is under a key in two lists put together.
LEMMA UnderConcat ==
    ASSUME NEW s \in Seq(Nodes), NEW t \in Seq(Nodes), NEW K
    PROVE  Under(s \o t, K) = Under(s, K) \o Under(t, K)
<1> DEFINE n == Len(t)
           Adds(u) == Under(s \o u, K) = Under(s, K) \o Under(u, K)
           T == {i \in 0 .. n : Adds(SubSeq(t, 1, i))}
<1>1. n \in Nat /\ Under(s, K) \in Seq(Nodes)
    BY UnderType
<1>2. 0 \in T
  <2>1. SubSeq(t, 1, 0) = <<>> /\ s \o <<>> = s /\ Under(s, K) \o <<>> = Under(s, K)
    BY <1>1, ConcatEmptySeq
  <2>2. Adds(<<>>)
    BY <2>1, UnderEmpty
  <2>3. Adds(SubSeq(t, 1, 0))
    BY <2>1, <2>2
  <2> HIDE DEF Adds
  <2> QED BY <1>1, <2>3
<1>3. ASSUME NEW v \in Seq(Nodes), NEW x \in Nodes, Adds(v)
      PROVE  Adds(Append(v, x))
  <2> DEFINE w == s \o v
             y == Append(v, x)
  <2>1. w \in Seq(Nodes) /\ s \o y = Append(w, x)
    OBVIOUS
  <2>2. Under(y, K) = IF x.key \in K THEN Append(Under(v, K), x) ELSE Under(v, K)
    BY UnderAppend
  <2>3. Under(v, K) \in Seq(Nodes)
    BY UnderType
  <2>4. Under(w, K) = Under(s, K) \o Under(v, K)
    BY <1>3
  <2> HIDE DEF w, y
  <2>5. Under(Append(w, x), K) = IF x.key \in K THEN Append(Under(w, K), x) ELSE Under(w, K)
    BY <2>1, UnderAppend
  <2>6. Append(Under(s, K) \o Under(v, K), x) = Under(s, K) \o Append(Under(v, K), x)
    <3> DEFINE g == Under(s, K)
               h == Under(v, K)
    <3>1. g \in Seq(Nodes) /\ h \in Seq(Nodes)
      BY <1>1, <2>3
    <3> HIDE DEF g, h
    <3>2. Append(g \o h, x) = g \o Append(h, x)
      <4> HIDE DEF Adds, T, n
      <4>1. x \in Nodes
        OBVIOUS
      <4> QED BY <3>1, <4>1, AppendConcat, Zenon
    <3> QED BY <3>2 DEF g, h
  <2>7. Under(s \o y, K) = Under(s, K) \o Under(y, K)
    <3>1. Under(s \o y, K) = Under(Append(w, x), K)
      BY <2>1
    <3>2. CASE x.key \in K
      BY <2>2, <2>4, <2>5, <2>6, <3>1, <3>2
    <3>3. CASE x.key \notin K
      BY <2>2, <2>4, <2>5, <3>1, <3>3
    <3> QED BY <3>2, <3>3
  <2> QED BY <2>7 DEF y
<1>4. ASSUME NEW i \in 1 .. n, i - 1 \in T
      PROVE  i \in T
  <2> DEFINE v == SubSeq(t, 1, i - 1)
             x == t[i]
  <2>1. v \in Seq(Nodes) /\ x \in Nodes /\ SubSeq(t, 1, i) = Append(v, x) /\ i \in 0 .. n
    BY <1>1
  <2>2. Adds(v)
    BY <1>4
  <2> HIDE DEF v, x, Adds
  <2>3. Adds(Append(v, x))
    BY <1>3, <2>1, <2>2
  <2> QED BY <2>1, <2>3
<1>5. n \in T
  <2> HIDE DEF T
  <2> QED BY <1>1, <1>2, <1>4, Counting
<1>6. SubSeq(t, 1, n) = t
    OBVIOUS
<1> QED BY <1>5, <1>6

\* What is under a key when all nodes are under it, or none.
LEMMA UnderAllOrNone ==
    ASSUME NEW b \in Seq(Nodes), NEW K
    PROVE  /\ (\A i \in 1 .. Len(b) : b[i].key \in K) => Under(b, K) = b
           /\ (\A i \in 1 .. Len(b) : b[i].key \notin K) => Under(b, K) = <<>>
<1> DEFINE n == Len(b)
           Every == \A i \in 1 .. n : b[i].key \in K
           None == \A i \in 1 .. n : b[i].key \notin K
           Same(u) == (Every => Under(u, K) = u) /\ (None => Under(u, K) = <<>>)
           T == {i \in 0 .. n : Same(SubSeq(b, 1, i))}
<1>1. n \in Nat
    OBVIOUS
<1>2. 0 \in T
  <2>1. SubSeq(b, 1, 0) = <<>>
    OBVIOUS
  <2>2. Same(<<>>)
    BY UnderEmpty
  <2>3. Same(SubSeq(b, 1, 0))
    BY <2>1, <2>2
  <2> HIDE DEF Same
  <2> QED BY <1>1, <2>3
<1>3. ASSUME NEW v \in Seq(Nodes), NEW x \in Nodes, Same(v),
             Every => x.key \in K, None => x.key \notin K
      PROVE  Same(Append(v, x))
  <2>1. Under(Append(v, x), K) = IF x.key \in K THEN Append(Under(v, K), x) ELSE Under(v, K)
    BY UnderAppend
  <2> HIDE DEF Every, None
  <2> QED BY <1>3, <2>1
<1>4. ASSUME NEW i \in 1 .. n, i - 1 \in T
      PROVE  i \in T
  <2> DEFINE v == SubSeq(b, 1, i - 1)
             x == b[i]
  <2>1. v \in Seq(Nodes) /\ x \in Nodes /\ SubSeq(b, 1, i) = Append(v, x) /\ i \in 0 .. n
    BY <1>1
  <2>2. Same(v)
    BY <1>4
  <2>3. (Every => x.key \in K) /\ (None => x.key \notin K)
    OBVIOUS
  <2> HIDE DEF v, x, Same, Every, None
  <2>4. Same(Append(v, x))
    BY <1>3, <2>1, <2>2, <2>3
  <2> QED BY <2>1, <2>4
<1>5. n \in T
  <2> HIDE DEF T
  <2> QED BY <1>1, <1>2, <1>4, Counting
<1>6. SubSeq(b, 1, n) = b
    OBVIOUS
<1> QED BY <1>5, <1>6

\* Selecting twice.
LEMMA UnderUnder ==
    ASSUME NEW b \in Seq(Nodes), NEW K, NEW L
    PROVE  Under(Under(b, K), L) = Under(b, K \cap L)
<1> DEFINE n == Len(b)
           Twice(u) == Under(Under(u, K), L) = Under(u, K \cap L)
           T == {i \in 0 .. n : Twice(SubSeq(b, 1, i))}
<1>1. n \in Nat
    OBVIOUS
<1>2. 0 \in T
  <2>1. SubSeq(b, 1, 0) = <<>>
    OBVIOUS
  <2>2. Twice(<<>>)
    BY UnderEmpty
  <2>3. Twice(SubSeq(b, 1, 0))
    BY <2>1, <2>2
  <2> HIDE DEF Twice
  <2> QED BY <1>1, <2>3
<1>3. ASSUME NEW v \in Seq(Nodes), NEW x \in Nodes, Twice(v)
      PROVE  Twice(Append(v, x))
  <2> DEFINE w == Under(v, K)
             y == Append(v, x)
  <2>1. w \in Seq(Nodes)
    BY UnderType
  <2>2. Under(y, K) = IF x.key \in K THEN Append(w, x) ELSE w
    BY UnderAppend
  <2>3. Under(y, K \cap L) = IF x.key \in K \cap L THEN Append(Under(v, K \cap L), x)
                             ELSE Under(v, K \cap L)
    BY UnderAppend
  <2>4. Under(w, L) = Under(v, K \cap L)
    BY <1>3
  <2> HIDE DEF w, y
  <2>5. Under(Append(w, x), L) = IF x.key \in L THEN Append(Under(w, L), x) ELSE Under(w, L)
    BY <2>1, UnderAppend
  <2>6. Under(Under(y, K), L) = Under(y, K \cap L)
    <3>1. CASE x.key \in K
      <4>1. Under(Under(y, K), L) = Under(Append(w, x), L)
        BY <2>2, <3>1
      <4> QED BY <2>3, <2>4, <2>5, <3>1, <4>1
    <3>2. CASE x.key \notin K
      <4>1. Under(Under(y, K), L) = Under(w, L)
        BY <2>2, <3>2
      <4> QED BY <2>3, <2>4, <3>2, <4>1
    <3> QED BY <3>1, <3>2
  <2> QED BY <2>6 DEF y
<1>4. ASSUME NEW i \in 1 .. n, i - 1 \in T
      PROVE  i \in T
  <2> DEFINE v == SubSeq(b, 1, i - 1)
             x == b[i]
  <2>1. v \in Seq(Nodes) /\ x \in Nodes /\ SubSeq(b, 1, i) = Append(v, x) /\ i \in 0 .. n
    BY <1>1
  <2>2. Twice(v)
    BY <1>4
  <2> HIDE DEF v, x, Twice
  <2>3. Twice(Append(v, x))
    BY <1>3, <2>1, <2>2
  <2> QED BY <2>1, <2>3
<1>5. n \in T
  <2> HIDE DEF T
  <2> QED BY <1>1, <1>2, <1>4, Counting
<1>6. SubSeq(b, 1, n) = b
    OBVIOUS
<1> QED BY <1>5, <1>6

-----------------------------------------------------------------------------
(* Taking a node out of a list *)

\* The values of nodes are as many as the nodes.
LEMMA ValuesOf ==
    ASSUME NEW b \in Seq(Nodes)
    PROVE  /\ Values(b) \in Seq(Val) /\ Len(Values(b)) = Len(b)
           /\ DOMAIN Values(b) = 1 .. Len(b)
           /\ \A j \in 1 .. Len(b) : Values(b)[j] = b[j].val /\ b[j].val \in Val
<1>1. DOMAIN b = 1 .. Len(b) /\ Len(b) \in Nat
    OBVIOUS
<1>2. ASSUME NEW j \in 1 .. Len(b)
      PROVE  b[j].val \in Val
  <2>1. b[j] \in Nodes
    OBVIOUS
  <2> QED BY <2>1 DEF Nodes
<1>3. Values(b) = [j \in 1 .. Len(b) |-> b[j].val]
    BY <1>1 DEF Values
<1>4. Values(b) \in [1 .. Len(b) -> Val] /\ \A j \in 1 .. Len(b) : Values(b)[j] = b[j].val
    BY <1>2, <1>3
<1>5. Values(b) \in Seq(Val) /\ Len(Values(b)) = Len(b)
    BY <1>1, <1>4
<1> QED BY <1>2, <1>4, <1>5

\* The values of nodes, when one is appended.
LEMMA ValuesAppend ==
    ASSUME NEW b \in Seq(Nodes), NEW x \in Nodes
    PROVE  /\ Values(b) \in Seq(Val)
           /\ Values(Append(b, x)) = Append(Values(b), x.val)
<1> DEFINE a == Append(b, x)
           n == Len(b)
<1>1. /\ n \in Nat /\ a \in Seq(Nodes) /\ Len(a) = n + 1 /\ a[n + 1] = x
      /\ \A j \in 1 .. n : a[j] = b[j]
    OBVIOUS
<1>2. /\ Values(b) \in Seq(Val) /\ Len(Values(b)) = n
      /\ \A j \in 1 .. n : Values(b)[j] = b[j].val
    BY ValuesOf
<1> HIDE DEF a, n
<1>3. /\ Values(a) \in Seq(Val) /\ Len(Values(a)) = n + 1
      /\ \A j \in 1 .. n + 1 : Values(a)[j] = a[j].val
    BY <1>1, ValuesOf
<1>4. x.val \in Val
    BY DEF Nodes
<1> DEFINE w == Values(b)
           y == x.val
<1> HIDE DEF w, y
<1>5. /\ Append(w, y) \in Seq(Val) /\ Len(Append(w, y)) = n + 1
      /\ Append(w, y)[n + 1] = y /\ \A j \in 1 .. n : Append(w, y)[j] = w[j]
    BY <1>1, <1>2, <1>4 DEF w, y
<1>6. ASSUME NEW i \in 1 .. n + 1
      PROVE  Values(a)[i] = Append(w, y)[i]
  <2>1. CASE i = n + 1
    BY <1>1, <1>3, <1>5, <2>1 DEF y
  <2>2. CASE i \in 1 .. n
    BY <1>1, <1>2, <1>3, <1>5, <2>2 DEF w
  <2>3. i = n + 1 \/ i \in 1 .. n
    BY <1>1
  <2> QED BY <2>1, <2>2, <2>3
<1>7. Values(a) = Append(w, y)
    BY <1>3, <1>5, <1>6, SeqEqual
<1> QED BY <1>2, <1>7 DEF a, w, y

\* The values of nodes, when one is removed.
LEMMA ValuesRemove ==
    ASSUME NEW b \in Seq(Nodes), NEW i \in 1 .. Len(b)
    PROVE  /\ i \in DOMAIN Values(b) /\ Values(b)[i] = b[i].val
           /\ Values(RemoveAt(b, i)) = RemoveAt(Values(b), i)
<1> DEFINE p == SubSeq(b, 1, i - 1)
           q == SubSeq(b, i + 1, Len(b))
           w == Values(b)
           P == SubSeq(w, 1, i - 1)
           Q == SubSeq(w, i + 1, Len(w))
<1>1. w \in Seq(Val) /\ Len(w) = Len(b) /\ \A j \in 1 .. Len(b) : w[j] = b[j].val
    BY ValuesOf
<1>2. /\ p \in Seq(Nodes) /\ Len(p) = i - 1 /\ \A j \in 1 .. i - 1 : p[j] = b[j]
      /\ q \in Seq(Nodes) /\ Len(q) = Len(b) - i
      /\ \A j \in 1 .. Len(b) - i : q[j] = b[i + j]
    OBVIOUS
<1>3. /\ P \in Seq(Val) /\ Len(P) = i - 1 /\ \A j \in 1 .. i - 1 : P[j] = w[j]
      /\ Q \in Seq(Val) /\ Len(Q) = Len(b) - i
      /\ \A j \in 1 .. Len(b) - i : Q[j] = w[i + j]
  <2> HIDE DEF w
  <2> QED BY <1>1
<1>4. RemoveAt(b, i) = p \o q /\ RemoveAt(w, i) = P \o Q
    BY DEF RemoveAt
<1> HIDE DEF p, q, P, Q, w
<1> DEFINE r == p \o q
           R == P \o Q
<1>5. /\ r \in Seq(Nodes) /\ Len(r) = Len(b) - 1
      /\ \A j \in 1 .. Len(b) - 1 : r[j] = IF j < i THEN b[j] ELSE b[j + 1]
  <2>1. \A j \in 1 .. Len(b) - 1 : r[j] = IF j < i THEN p[j] ELSE q[j - (i - 1)]
    BY <1>2
  <2>2. \A j \in i .. Len(b) - 1 : q[j - (i - 1)] = b[j + 1]
    BY <1>2
  <2>3. r \in Seq(Nodes) /\ Len(r) = Len(b) - 1
    BY <1>2
  <2>4. \A j \in 1 .. Len(b) - 1 : j < i \/ j \in i .. Len(b) - 1
    OBVIOUS
  <2>5. \A j \in 1 .. Len(b) - 1 : j < i => p[j] = b[j]
    BY <1>2
  <2> HIDE DEF r
  <2> QED BY <2>1, <2>2, <2>3, <2>4, <2>5
<1>6. /\ R \in Seq(Val) /\ Len(R) = Len(b) - 1
      /\ \A j \in 1 .. Len(b) - 1 : R[j] = IF j < i THEN w[j] ELSE w[j + 1]
  <2>1. \A j \in 1 .. Len(b) - 1 : R[j] = IF j < i THEN P[j] ELSE Q[j - (i - 1)]
    BY <1>3
  <2>2. \A j \in i .. Len(b) - 1 : Q[j - (i - 1)] = w[j + 1]
    BY <1>3
  <2>3. R \in Seq(Val) /\ Len(R) = Len(b) - 1
    <3>1. R \in Seq(Val) /\ Len(R) = Len(P) + Len(Q)
      BY <1>3, ConcatProperties
    <3>2. Len(b) \in Int
      OBVIOUS
    <3> HIDE DEF R
    <3> QED BY <1>3, <3>1, <3>2
  <2>4. \A j \in 1 .. Len(b) - 1 : j < i \/ j \in i .. Len(b) - 1
    OBVIOUS
  <2>5. \A j \in 1 .. Len(b) - 1 : j < i => P[j] = w[j]
    BY <1>3
  <2> HIDE DEF R
  <2> QED BY <2>1, <2>2, <2>3, <2>4, <2>5
<1> HIDE DEF r, R
<1>7. Values(r) \in Seq(Val) /\ Len(Values(r)) = Len(b) - 1
    BY <1>5, ValuesOf
<1>8. ASSUME NEW j \in 1 .. Len(b) - 1
      PROVE  Values(r)[j] = R[j]
  <2>1. Values(r)[j] = r[j].val
    <3>1. \A k \in 1 .. Len(r) : Values(r)[k] = r[k].val
      BY ONLY <1>5, ValuesOf
    <3> QED BY <1>5, <3>1
  <2>2. j \in 1 .. Len(b) /\ j + 1 \in 1 .. Len(b)
    OBVIOUS
  <2>3. w[j] = b[j].val /\ w[j + 1] = b[j + 1].val
    BY <1>1, <2>2
  <2>4. CASE j < i
    BY <1>5, <1>6, <2>1, <2>3, <2>4
  <2>5. CASE ~(j < i)
    BY <1>5, <1>6, <2>1, <2>3, <2>5
  <2> QED BY <2>4, <2>5
<1>9. Values(r) = R
    BY <1>6, <1>7, <1>8, SeqEqual
<1> QED BY <1>4, <1>9, ValuesOf DEF r, R, w

\* The middle of a list is removed.
LEMMA RemoveMiddle ==
    ASSUME NEW p \in Seq(Nodes), NEW q \in Seq(Nodes), NEW x \in Nodes
    PROVE  LET s == Append(p, x) \o q
           IN /\ Len(p) + 1 \in 1 .. Len(s) /\ s[Len(p) + 1] = x
              /\ RemoveAt(s, Len(p) + 1) = p \o q
<1> DEFINE s == Append(p, x) \o q
           n == Len(p)
<1>1. /\ n \in Nat /\ s \in Seq(Nodes) /\ Len(s) = n + 1 + Len(q) /\ s[n + 1] = x
      /\ \A j \in 1 .. n : s[j] = p[j]
      /\ \A j \in 1 .. Len(q) : s[n + 1 + j] = q[j]
    OBVIOUS
<1> HIDE DEF s
<1>2. SubSeq(s, 1, n) = p
  <2>1. /\ SubSeq(s, 1, n) \in Seq(Nodes) /\ Len(SubSeq(s, 1, n)) = n
        /\ \A j \in 1 .. n : SubSeq(s, 1, n)[j] = p[j]
    BY <1>1
  <2> QED BY <2>1, SeqEqual
<1>3. SubSeq(s, n + 2, Len(s)) = q
  <2>1. /\ SubSeq(s, n + 2, Len(s)) \in Seq(Nodes)
        /\ Len(SubSeq(s, n + 2, Len(s))) = Len(q)
        /\ \A j \in 1 .. Len(q) : SubSeq(s, n + 2, Len(s))[j] = q[j]
    BY <1>1
  <2> QED BY <2>1, SeqEqual
<1>4. RemoveAt(s, n + 1) = p \o q
  <2>1. RemoveAt(s, n + 1) = SubSeq(s, 1, (n + 1) - 1) \o SubSeq(s, (n + 1) + 1, Len(s))
    BY DEF RemoveAt
  <2>2. (n + 1) - 1 = n /\ (n + 1) + 1 = n + 2
    BY <1>1
  <2> QED BY <1>2, <1>3, <2>1, <2>2
<1>5. n + 1 \in 1 .. Len(s) /\ s[n + 1] = x
    BY <1>1
<1> QED BY <1>4, <1>5 DEF s

\* What is under a key after a node is removed.
LEMMA UnderRemove ==
    ASSUME NEW b \in Seq(Nodes), NEW i \in 1 .. Len(b), NEW K
    PROVE  /\ RemoveAt(b, i) \in Seq(Nodes)
           /\ b[i].key \notin K => Under(RemoveAt(b, i), K) = Under(b, K)
           /\ b[i].key \in K =>
                \E j \in 1 .. Len(Under(b, K)) :
                   /\ Under(b, K)[j] = b[i]
                   /\ Under(RemoveAt(b, i), K) = RemoveAt(Under(b, K), j)
<1> DEFINE p == SubSeq(b, 1, i - 1)
           q == SubSeq(b, i + 1, Len(b))
           x == b[i]
           P == Under(p, K)
           Q == Under(q, K)
<1>1. p \in Seq(Nodes) /\ q \in Seq(Nodes) /\ x \in Nodes
    OBVIOUS
<1>2. RemoveAt(b, i) = p \o q
    BY DEF RemoveAt
<1>3. b = Append(p, x) \o q
  <2>1. SubSeq(b, 1, i) = Append(p, x)
    OBVIOUS
  <2>2. SubSeq(b, 1, i) \o q = SubSeq(b, 1, Len(b))
    BY ConcatAdjacentSubSeq
  <2>3. SubSeq(b, 1, Len(b)) = b
    BY SubSeqFull
  <2> QED BY <2>1, <2>2, <2>3
<1> HIDE DEF p, q, x
<1>4. P \in Seq(Nodes) /\ Q \in Seq(Nodes)
    BY <1>1, UnderType
<1>5. Under(p \o q, K) = P \o Q
    BY <1>1, UnderConcat
<1>6. Append(p, x) \in Seq(Nodes)
    BY <1>1
<1>7. Under(Append(p, x) \o q, K) = Under(Append(p, x), K) \o Q
  <2> DEFINE a == Append(p, x)
  <2>1. a \in Seq(Nodes)
    BY <1>6
  <2> HIDE DEF a
  <2>2. Under(a \o q, K) = Under(a, K) \o Under(q, K)
    <3>1. \A s, t \in Seq(Nodes) : Under(s \o t, K) = Under(s, K) \o Under(t, K)
      BY ONLY UnderConcat
    <3> QED BY ONLY <1>1, <2>1, <3>1
  <2> QED BY <2>2 DEF a
<1>8. Under(Append(p, x), K) = IF x.key \in K THEN Append(P, x) ELSE P
    BY <1>1, UnderAppend
<1> HIDE DEF P, Q
<1>9. ASSUME x.key \notin K
      PROVE  Under(p \o q, K) = Under(b, K)
    BY <1>3, <1>5, <1>7, <1>8, <1>9
<1>10. ASSUME x.key \in K
       PROVE  \E j \in 1 .. Len(Under(b, K)) :
                 /\ Under(b, K)[j] = x
                 /\ Under(p \o q, K) = RemoveAt(Under(b, K), j)
  <2>1. Under(b, K) = Append(P, x) \o Q
    BY <1>3, <1>7, <1>8, <1>10
  <2> DEFINE s == Append(P, x) \o Q
  <2>2. /\ Len(P) + 1 \in 1 .. Len(s) /\ s[Len(P) + 1] = x
        /\ RemoveAt(s, Len(P) + 1) = P \o Q
    BY <1>1, <1>4, RemoveMiddle
  <2> HIDE DEF s
  <2> QED BY <1>5, <2>1, <2>2 DEF s
<1>11. p \o q \in Seq(Nodes)
    BY <1>1
<1> QED BY <1>2, <1>9, <1>10, <1>11 DEF x

-----------------------------------------------------------------------------
(* Buckets that become one list *)

\* What FlattenSeq does with n lists.
Joins(f, n, rows) == \A i \in 1 .. n : f[i] = IF i = 1 THEN rows[1] ELSE f[i - 1] \o rows[i]

\* FlattenSeq is what its recursion says.
LEMMA FlattenJoins ==
    ASSUME NEW n \in Nat \ {0}, NEW rows \in [1 .. n -> Seq(Nodes)]
    PROVE  \E f \in [1 .. n -> Seq(Nodes)] : Joins(f, n, rows) /\ FlattenSeq(rows) = f[n]
<1> DEFINE S == Seq(Nodes)
           F == [k \in 1 .. n - 1 |-> [s \in S |-> s \o rows[k + 1]]]
           R(g) == [i \in 1 .. n |-> IF i = 1 THEN rows[i] ELSE g[i - 1] \o rows[i]]
           c == CHOOSE g : g = R(g)
<1>1. n - 1 \in Nat /\ rows[1] \in S /\ Len(rows) = n
    OBVIOUS
<1>2. F \in [1 .. n - 1 -> [S -> S]]
  <2>1. ASSUME NEW k \in 1 .. n - 1, NEW s \in S
        PROVE  s \o rows[k + 1] \in S
    <3>1. rows[k + 1] \in Seq(Nodes)
      OBVIOUS
    <3> QED BY <3>1
  <2> HIDE DEF S
  <2> QED BY <2>1
<1>3. PICK h \in [0 .. n - 1 -> S] : Unfolds(h, rows[1], n - 1, F)
  <2> HIDE DEF S, F
  <2> QED BY <1>1, <1>2, Unfolding
<1> DEFINE f == [i \in 1 .. n |-> h[i - 1]]
<1>4. f \in [1 .. n -> Seq(Nodes)]
    OBVIOUS
<1>5. Joins(f, n, rows)
  <2> SUFFICES ASSUME NEW i \in 1 .. n
               PROVE  f[i] = IF i = 1 THEN rows[1] ELSE f[i - 1] \o rows[i]
    BY DEF Joins
  <2>1. i - 1 \in 0 .. n - 1 /\ f[i] = h[i - 1]
    OBVIOUS
  <2>2. CASE i = 1
    <3>1. h[0] = rows[1] /\ i - 1 = 0
      <4>1. 0 \in 0 .. n - 1 /\ i - 1 = 0
        BY <1>1, <2>2
      <4> HIDE DEF F
      <4> QED BY <1>3, <4>1 DEF Unfolds
    <3> QED BY <2>1, <2>2, <3>1
  <2>3. CASE i # 1
    <3>1. /\ i - 1 \in 1 .. n - 1 /\ (i - 1) - 1 \in 0 .. n - 1 /\ i - 1 # 0
          /\ i - 1 \in 1 .. n /\ (i - 1) + 1 = i
      BY <2>3
    <3>2. h[i - 1] = F[i - 1][h[(i - 1) - 1]] /\ h[(i - 1) - 1] \in S
      BY <1>3, <2>1, <3>1 DEF Unfolds
    <3>3. h[i - 1] = h[(i - 1) - 1] \o rows[i]
      BY <3>1, <3>2
    <3>4. f[i - 1] = h[(i - 1) - 1]
      BY <3>1
    <3> QED BY <2>1, <2>3, <3>3, <3>4
  <2> QED BY <2>2, <2>3
<1> HIDE DEF f
<1>6. f = R(f)
    BY <1>4, <1>5 DEF Joins
<1>7. c = R(c)
  <2> HIDE DEF R
  <2> QED BY <1>6
<1>8. FlattenSeq(rows) = c[n]
    BY <1>1 DEF FlattenSeq
<1>9. ASSUME NEW g, g = R(g)
      PROVE  g[n] = f[n]
  <2> DEFINE T == {i \in 0 .. n - 1 : g[i + 1] = f[i + 1]}
  <2>1. 0 \in T
    BY <1>1, <1>6, <1>9
  <2>2. ASSUME NEW i \in 1 .. n - 1, i - 1 \in T
        PROVE  i \in T
    <3>1. i \in 0 .. n - 1 /\ i + 1 \in 1 .. n /\ i + 1 # 1 /\ (i + 1) - 1 = i /\ (i - 1) + 1 = i
      BY <1>1
    <3>2. g[i] = f[i]
      BY <2>2, <3>1
    <3>3. g[i + 1] = g[i] \o rows[i + 1] /\ f[i + 1] = f[i] \o rows[i + 1]
      BY <1>6, <1>9, <3>1
    <3>4. g[i + 1] = f[i + 1]
      BY <3>2, <3>3
    <3> QED BY <3>1, <3>4
  <2>3. n - 1 \in T
    <3> HIDE DEF T
    <3> QED BY <1>1, <2>1, <2>2, Counting
  <2>4. (n - 1) + 1 = n
    OBVIOUS
  <2> QED BY <2>3, <2>4
<1>10. c[n] = f[n]
  <2> HIDE DEF c, R
  <2> QED BY <1>7, <1>9
<1> QED BY <1>4, <1>5, <1>8, <1>10

\* The nodes of a bucket are under its key, and their values are what it holds.
LEMMA RowUnder ==
    ASSUME NEW k \in Int, NEW b \in Seq(Val), b # <<>> => k \in Key
    PROVE  LET row == [j \in DOMAIN b |-> Node(k, b[j])]
           IN /\ row \in Seq(Nodes) /\ Values(row) = b
              /\ \A l : Under(row, {l}) = IF l = k THEN row ELSE <<>>
<1> DEFINE row == [j \in DOMAIN b |-> Node(k, b[j])]
<1>1. /\ DOMAIN b = 1 .. Len(b) /\ Len(b) \in Nat
      /\ \A j \in 1 .. Len(b) : b[j] \in Val /\ k \in Key
    OBVIOUS
<1>2. row \in [1 .. Len(b) -> Nodes] /\ \A j \in 1 .. Len(b) : row[j] = Node(k, b[j])
    BY <1>1 DEF Node, Nodes
<1>3. row \in Seq(Nodes) /\ Len(row) = Len(b)
    BY <1>1, <1>2
<1>4. \A j \in 1 .. Len(b) : row[j].key = k /\ row[j].val = b[j]
    BY <1>2 DEF Node
<1> HIDE DEF row
<1>5. Values(row) = b
    BY <1>1, <1>3, <1>4, ValuesOf, SeqEqual
<1>6. ASSUME NEW l
      PROVE  Under(row, {l}) = IF l = k THEN row ELSE <<>>
  <2>1. /\ (\A j \in 1 .. Len(row) : row[j].key \in {l}) => Under(row, {l}) = row
        /\ (\A j \in 1 .. Len(row) : row[j].key \notin {l}) => Under(row, {l}) = <<>>
    BY <1>3, UnderAllOrNone
  <2> QED BY <1>3, <1>4, <2>1
<1> QED BY <1>3, <1>5, <1>6 DEF row

\* All buckets in the order of their keys.
LEMMA BucketsInOrder ==
    ASSUME InitSize \in Nat \ {0}, bucket \in [0 .. InitSize - 1 -> Seq(Val)],
           \A k \in DOMAIN bucket : bucket[k] # <<>> => k \in Key
    PROVE  /\ InOrder \in Seq(Nodes)
           /\ \A k \in Key : Values(Under(InOrder, {k})) =
                 IF k \in DOMAIN bucket THEN bucket[k] ELSE <<>>
<1> DEFINE n == InitSize
           row(k) == [j \in DOMAIN bucket[k] |-> Node(k, bucket[k][j])]
           rows == [i \in 1 .. n |-> row(i - 1)]
<1>1. ASSUME NEW k \in 0 .. n - 1
      PROVE  /\ row(k) \in Seq(Nodes) /\ Values(row(k)) = bucket[k]
             /\ \A l : Under(row(k), {l}) = IF l = k THEN row(k) ELSE <<>>
  <2> DEFINE b == bucket[k]
  <2>1. b \in Seq(Val) /\ (b # <<>> => k \in Key) /\ k \in Int
    OBVIOUS
  <2> HIDE DEF b
  <2>2. LET r == [j \in DOMAIN b |-> Node(k, b[j])]
        IN /\ r \in Seq(Nodes) /\ Values(r) = b
           /\ \A l : Under(r, {l}) = IF l = k THEN r ELSE <<>>
    BY <2>1, RowUnder
  <2> QED BY <2>2 DEF b
<1>2. InOrder = FlattenSeq(rows)
    BY DEF InOrder
<1> HIDE DEF row
<1>3. rows \in [1 .. n -> Seq(Nodes)] /\ \A i \in 1 .. n : rows[i] = row(i - 1)
    BY <1>1
<1> HIDE DEF rows
<1>4. PICK f \in [1 .. n -> Seq(Nodes)] : Joins(f, n, rows) /\ FlattenSeq(rows) = f[n]
    BY <1>3, FlattenJoins
<1> DEFINE Upto(i) == \A k \in Key : Under(f[i + 1], {k}) =
                         IF k \in 0 .. i THEN row(k) ELSE <<>>
           T == {i \in 0 .. n - 1 : Upto(i)}
<1>5. 0 \in T
  <2>1. f[1] = row(0) /\ 0 \in 0 .. n - 1 /\ 0 + 1 = 1
    BY <1>3, <1>4 DEF Joins
  <2>2. \A k \in Key : Under(row(0), {k}) = IF k \in 0 .. 0 THEN row(k) ELSE <<>>
    <3> SUFFICES ASSUME NEW k \in Key
                 PROVE  Under(row(0), {k}) = IF k \in 0 .. 0 THEN row(k) ELSE <<>>
      OBVIOUS
    <3>1. Under(row(0), {k}) = IF k = 0 THEN row(0) ELSE <<>>
      BY <1>1, <2>1
    <3>2. CASE k = 0
      BY <3>1, <3>2
    <3>3. CASE k # 0
      <4>1. k \notin 0 .. 0
        BY <3>3
      <4> QED BY <3>1, <3>3, <4>1
    <3> QED BY <3>2, <3>3
  <2>3. Upto(0)
    BY <2>1, <2>2
  <2> HIDE DEF Upto
  <2> QED BY <2>1, <2>3
<1>6. ASSUME NEW i \in 1 .. n - 1, i - 1 \in T
      PROVE  i \in T
  <2>1. i \in 0 .. n - 1 /\ i + 1 \in 1 .. n /\ i + 1 # 1 /\ (i + 1) - 1 = i /\ (i - 1) + 1 = i
    OBVIOUS
  <2>2. f[i + 1] = f[i] \o row(i)
    BY <1>3, <1>4, <2>1 DEF Joins
  <2>3. \A k \in Key : Under(f[i], {k}) = IF k \in 0 .. i - 1 THEN row(k) ELSE <<>>
    BY <1>6, <2>1
  <2>4. f[i] \in Seq(Nodes) /\ row(i) \in Seq(Nodes)
    BY <1>1, <2>1
  <2>5. ASSUME NEW k \in Key
        PROVE  Under(f[i + 1], {k}) = IF k \in 0 .. i THEN row(k) ELSE <<>>
    <3> DEFINE p == f[i]
               q == row(i)
    <3>1. Under(p, {k}) = IF k \in 0 .. i - 1 THEN row(k) ELSE <<>>
      BY <2>3
    <3>2. Under(q, {k}) = IF k = i THEN q ELSE <<>>
      BY <1>1, <2>1
    <3>3. p \in Seq(Nodes) /\ q \in Seq(Nodes)
      BY <2>4
    <3> HIDE DEF p, q
    <3>4. Under(p \o q, {k}) = Under(p, {k}) \o Under(q, {k})
      BY ONLY <3>3, UnderConcat
    <3>5. Under(f[i + 1], {k}) = Under(p, {k}) \o Under(q, {k})
      BY <2>2, <3>4 DEF p, q
    <3>6. CASE k = i
      <4>1. Under(p, {k}) = <<>> /\ Under(q, {k}) = q
        BY <3>1, <3>2, <3>6
      <4>2. <<>> \o q = q
        BY <3>3, ConcatEmptySeq
      <4>3. Under(p, {k}) \o Under(q, {k}) = row(k)
        BY <3>6, <4>1, <4>2 DEF q
      <4>4. k \in 0 .. i
        BY <2>1, <3>6
      <4> QED BY <3>5, <4>3, <4>4
    <3>7. CASE k # i
      <4>1. Under(q, {k}) = <<>> /\ Under(p, {k}) \in Seq(Nodes)
        BY <3>2, <3>3, <3>7, UnderType
      <4>2. Under(p, {k}) \o <<>> = Under(p, {k})
        BY <4>1, ConcatEmptySeq
      <4>3. k \in 0 .. i - 1 <=> k \in 0 .. i
        BY <2>1, <3>7
      <4> QED BY <3>1, <3>5, <4>1, <4>2, <4>3
    <3> QED BY <3>6, <3>7
  <2>6. Upto(i)
    BY <2>5
  <2> HIDE DEF Upto
  <2> QED BY <2>1, <2>6
<1>7. n - 1 \in T
  <2> HIDE DEF T
  <2>1. n - 1 \in Nat
    OBVIOUS
  <2> QED BY <1>5, <1>6, <2>1, Counting
<1>8. (n - 1) + 1 = n /\ DOMAIN bucket = 0 .. n - 1 /\ f[n] \in Seq(Nodes)
    OBVIOUS
<1>9. ASSUME NEW k \in Key
      PROVE  Values(Under(InOrder, {k})) = IF k \in DOMAIN bucket THEN bucket[k] ELSE <<>>
  <2>1. Under(InOrder, {k}) = IF k \in DOMAIN bucket THEN row(k) ELSE <<>>
    BY <1>2, <1>4, <1>7, <1>8
  <2>2. Values(<<>>) = <<>>
    <3>1. <<>> \in Seq(Nodes) /\ Len(<<>>) = 0
      OBVIOUS
    <3>2. Values(<<>>) \in Seq(Val) /\ Len(Values(<<>>)) = 0
      BY <3>1, ValuesOf
    <3> QED BY <3>2, EmptySeq
  <2> QED BY <1>1, <1>8, <2>1, <2>2
<1> QED BY <1>2, <1>4, <1>8, <1>9

-----------------------------------------------------------------------------
(* How many values buckets hold *)

\* The places of values in buckets b.
Slots(b) == UNION {{<<k, i>> : i \in DOMAIN b[k]} : k \in DOMAIN b}

\* A place is a bucket and an index in it.
LEMMA SlotsHave ==
    ASSUME NEW D, NEW b \in [D -> Seq(Val)]
    PROVE  /\ \A k \in D : \A i \in 1 .. Len(b[k]) : <<k, i>> \in Slots(b)
           /\ \A p \in Slots(b) : \E k \in D : \E i \in 1 .. Len(b[k]) : p = <<k, i>>
BY DEF Slots

\* No places, no values.
LEMMA SlotsNone ==
    ASSUME NEW D, NEW b \in [D -> Seq(Val)]
    PROVE  Slots(b) = {} <=> \A k \in D : b[k] = <<>>
<1>1. ASSUME Slots(b) = {}, NEW k \in D
      PROVE  b[k] = <<>>
  <2>1. 1 \notin 1 .. Len(b[k]) /\ b[k] \in Seq(Val)
    BY <1>1, SlotsHave
  <2> QED BY <2>1
<1>2. ASSUME \A k \in D : b[k] = <<>>
      PROVE  Slots(b) = {}
  <2>1. \A k \in D : 1 .. Len(b[k]) = {}
    BY <1>2
  <2> QED BY <2>1, SlotsHave
<1> QED BY <1>1, <1>2

\* What happens to buckets b: one value more or a shorter queue in bucket k, or
\* more buckets.
Appended(c, b, k, v) == c = [b EXCEPT ![k] = Append(@, v)]
Shortened(c, b, k, s) == /\ c = [b EXCEPT ![k] = s]
                         /\ b[k] # <<>> /\ s \in Seq(Val) /\ Len(s) = Len(b[k]) - 1
Grown(c, E, b, D) == /\ D \subseteq E /\ c \in [E -> Seq(Val)]
                     /\ \A k \in E : c[k] = IF k \in D THEN b[k] ELSE <<>>

\* One more value in bucket k.
LEMMA SlotsPush ==
    ASSUME NEW D, NEW b \in [D -> Seq(Val)], NEW k \in D, NEW v \in Val,
           IsFiniteSet(Slots(b)), NEW c, Appended(c, b, k, v)
    PROVE  /\ c \in [D -> Seq(Val)] /\ IsFiniteSet(Slots(c))
           /\ Cardinality(Slots(c)) = Cardinality(Slots(b)) + 1
<1> DEFINE n == Len(b[k])
<1>1. n \in Nat /\ c \in [D -> Seq(Val)] /\ Len(c[k]) = n + 1
      /\ \A l \in D : l # k => c[l] = b[l]
    BY DEF Appended
<1> HIDE DEF n
<1>2. \A l \in D, i \in Nat : i \in 1 .. Len(c[l]) <=>
            ((i \in 1 .. Len(b[l])) \/ (l = k /\ i = n + 1))
  <2> SUFFICES ASSUME NEW l \in D, NEW i \in Nat
               PROVE  i \in 1 .. Len(c[l]) <=>
                         ((i \in 1 .. Len(b[l])) \/ (l = k /\ i = n + 1))
    OBVIOUS
  <2>1. CASE l = k
    BY <1>1, <2>1 DEF n
  <2>2. CASE l # k
    BY <1>1, <2>2
  <2> QED BY <2>1, <2>2
<1>3. Slots(c) = Slots(b) \cup {<<k, n + 1>>}
  <2>1. \A l \in D, i \in Nat : /\ i \in DOMAIN b[l] <=> i \in 1 .. Len(b[l])
                                /\ i \in DOMAIN c[l] <=> i \in 1 .. Len(c[l])
    <3>1. \A l \in D : DOMAIN b[l] = 1 .. Len(b[l]) /\ DOMAIN c[l] = 1 .. Len(c[l])
      BY <1>1
    <3> QED BY <3>1
  <2>2. DOMAIN b = D /\ DOMAIN c = D
    BY <1>1
  <2>3. n + 1 \in Nat
    BY <1>1
  <2> QED BY <1>2, <2>1, <2>2, <2>3 DEF Slots
<1>4. <<k, n + 1>> \notin Slots(b)
  <2>1. n + 1 \notin DOMAIN b[k]
    BY <1>1 DEF n
  <2> QED BY <2>1 DEF Slots
<1>5. IsFiniteSet(Slots(c)) /\ Cardinality(Slots(c)) = Cardinality(Slots(b)) + 1
    BY <1>3, <1>4, FS_AddElement
<1> QED BY <1>1, <1>5

\* One value less in bucket k.
LEMMA SlotsPop ==
    ASSUME NEW D, NEW b \in [D -> Seq(Val)], NEW k \in D, NEW s \in Seq(Val),
           IsFiniteSet(Slots(b)), NEW c, Shortened(c, b, k, s)
    PROVE  /\ c \in [D -> Seq(Val)] /\ IsFiniteSet(Slots(c))
           /\ Cardinality(Slots(c)) = Cardinality(Slots(b)) - 1
<1> DEFINE n == Len(b[k])
<1>1. n \in Nat /\ n > 0 /\ c \in [D -> Seq(Val)] /\ Len(c[k]) = n - 1
      /\ \A l \in D : l # k => c[l] = b[l]
    BY DEF Shortened
<1> HIDE DEF n
<1>2. \A l \in D, i \in Nat : i \in 1 .. Len(c[l]) <=>
            ((i \in 1 .. Len(b[l])) /\ ~(l = k /\ i = n))
  <2> SUFFICES ASSUME NEW l \in D, NEW i \in Nat
               PROVE  i \in 1 .. Len(c[l]) <=>
                         ((i \in 1 .. Len(b[l])) /\ ~(l = k /\ i = n))
    OBVIOUS
  <2>1. CASE l = k
    BY <1>1, <2>1 DEF n
  <2>2. CASE l # k
    BY <1>1, <2>2
  <2> QED BY <2>1, <2>2
<1>3. Slots(c) = Slots(b) \ {<<k, n>>}
  <2>1. \A l \in D, i \in Nat : /\ i \in DOMAIN b[l] <=> i \in 1 .. Len(b[l])
                                /\ i \in DOMAIN c[l] <=> i \in 1 .. Len(c[l])
    <3>1. \A l \in D : DOMAIN b[l] = 1 .. Len(b[l]) /\ DOMAIN c[l] = 1 .. Len(c[l])
      BY <1>1
    <3> QED BY <3>1
  <2>2. DOMAIN b = D /\ DOMAIN c = D
    BY <1>1
  <2> QED BY <1>2, <2>1, <2>2 DEF Slots
<1>4. <<k, n>> \in Slots(b)
  <2>1. n \in DOMAIN b[k]
    BY <1>1 DEF n
  <2> QED BY <1>1, <2>1 DEF Slots
<1>5. IsFiniteSet(Slots(c)) /\ Cardinality(Slots(c)) = Cardinality(Slots(b)) - 1
    BY <1>3, <1>4, FS_RemoveElement
<1> QED BY <1>1, <1>5

\* Empty buckets have no places.
LEMMA SlotsGrow ==
    ASSUME NEW D, NEW b \in [D -> Seq(Val)], NEW E, NEW c, Grown(c, E, b, D)
    PROVE  Slots(c) = Slots(b)
<1>1. \A k \in E \ D : DOMAIN c[k] = {}
    BY DEF Grown
<1>2. DOMAIN b = D /\ DOMAIN c = E
    BY DEF Grown
<1> QED BY <1>1, <1>2 DEF Slots, Grown

-----------------------------------------------------------------------------
(* First and last values *)

\* The first and the last value of a queue are removed.
LEMMA EndsRemoved ==
    ASSUME NEW S, NEW b \in Seq(S), b # <<>>
    PROVE  /\ Head(b) = b[1] /\ Last(b) = b[Len(b)]
           /\ 1 \in DOMAIN b /\ Len(b) \in DOMAIN b
           /\ Tail(b) \in Seq(S) /\ Len(Tail(b)) = Len(b) - 1
           /\ Front(b) \in Seq(S) /\ Len(Front(b)) = Len(b) - 1
           /\ RemoveAt(b, 1) = Tail(b) /\ RemoveAt(b, Len(b)) = Front(b)
<1> DEFINE n == Len(b)
<1>1. n \in Nat /\ n >= 1 /\ DOMAIN b = 1 .. n
    OBVIOUS
<1>2. /\ Tail(b) \in Seq(S) /\ Len(Tail(b)) = n - 1
      /\ Front(b) \in Seq(S) /\ Len(Front(b)) = n - 1
    BY <1>1 DEF Front
<1>3. RemoveAt(b, 1) = Tail(b)
  <2>1. SubSeq(b, 1, 1 - 1) = <<>>
    BY SubSeqEmpty
  <2>2. SubSeq(b, 1 + 1, n) = Tail(b)
    BY TailIsSubSeq
  <2> QED BY <1>2, <2>1, <2>2, ConcatEmptySeq DEF RemoveAt
<1>4. RemoveAt(b, n) = Front(b)
  <2>1. SubSeq(b, n + 1, n) = <<>>
    BY <1>1, SubSeqEmpty
  <2> QED BY <1>2, <2>1, ConcatEmptySeq DEF RemoveAt, Front
<1> QED BY <1>1, <1>2, <1>3, <1>4 DEF Last

-----------------------------------------------------------------------------
(* What a heap holds *)

\* A list of nodes, by their keys.
Held(h, k) == Values(Under(h, {k}))

\* Nothing is in an empty heap.
LEMMA NothingUnder ==
    ASSUME NEW k
    PROVE  Held(<<>>, k) = <<>>
<1>1. <<>> \in Seq(Nodes) /\ Len(<<>>) = 0
    OBVIOUS
<1>2. Values(<<>>) \in Seq(Val) /\ Len(Values(<<>>)) = 0
    BY <1>1, ValuesOf
<1> QED BY <1>2, UnderEmpty, EmptySeq DEF Held

\* It is a queue of values, empty unless there is a node of that key.
LEMMA HeldOf ==
    ASSUME NEW h \in Seq(Nodes), NEW k
    PROVE  /\ Held(h, k) \in Seq(Val)
           /\ Held(h, k) # <<>> => \E i \in 1 .. Len(h) : h[i].key = k
<1>1. Under(h, {k}) \in Seq(Nodes)
    BY UnderType
<1>2. Held(h, k) \in Seq(Val)
  <2> DEFINE u == Under(h, {k})
  <2>1. u \in Seq(Nodes)
    BY <1>1
  <2> HIDE DEF u
  <2>2. Values(u) \in Seq(Val)
    BY <2>1, ValuesOf
  <2> QED BY <2>2 DEF u, Held
<1>3. ASSUME \A i \in 1 .. Len(h) : h[i].key # k
      PROVE  Held(h, k) = <<>>
  <2>1. Under(h, {k}) = <<>>
    BY <1>3, UnderAllOrNone
  <2>2. Values(Under(<<>>, {k})) = <<>> /\ Under(<<>>, {k}) = <<>>
    BY NothingUnder, UnderEmpty DEF Held
  <2> QED BY <2>1, <2>2 DEF Held
<1> QED BY <1>2, <1>3

\* A node is pushed.
LEMMA HeldPush ==
    ASSUME NEW h \in Seq(Nodes), NEW k \in Key, NEW v \in Val, NEW l
    PROVE  /\ Append(h, Node(k, v)) \in Seq(Nodes)
           /\ Held(Append(h, Node(k, v)), l) =
                 IF l = k THEN Append(Held(h, l), v) ELSE Held(h, l)
<1> DEFINE x == Node(k, v)
           u == Under(h, {l})
<1>1. x \in Nodes /\ x.key = k /\ x.val = v
    BY DEF Node, Nodes
<1>2. u \in Seq(Nodes)
    BY UnderType
<1> HIDE DEF x
<1>3. Under(Append(h, x), {l}) = IF k = l THEN Append(u, x) ELSE u
  <2>1. Under(Append(h, x), {l}) = IF x.key \in {l} THEN Append(u, x) ELSE u
    BY <1>1, UnderAppend
  <2> QED BY <1>1, <2>1
<1> HIDE DEF u
<1>4. Values(Append(u, x)) = Append(Values(u), v)
    BY <1>1, <1>2, ValuesAppend
<1>5. Append(h, x) \in Seq(Nodes)
    BY <1>1
<1>6. CASE l = k
  <2>1. Held(Append(h, x), l) = Values(Append(u, x))
    BY <1>3, <1>6 DEF Held
  <2> QED BY <1>4, <1>5, <1>6, <2>1 DEF Held, u, x
<1>7. CASE l # k
  <2>1. Held(Append(h, x), l) = Values(u)
    BY <1>3, <1>7 DEF Held
  <2> QED BY <1>5, <1>7, <2>1 DEF Held, u, x
<1> QED BY <1>6, <1>7

\* A node is taken away.
LEMMA HeldTake ==
    ASSUME NEW h \in Seq(Nodes), NEW i \in 1 .. Len(h)
    PROVE  /\ RemoveAt(h, i) \in Seq(Nodes)
           /\ \A l : l # h[i].key => Held(RemoveAt(h, i), l) = Held(h, l)
           /\ \E j \in DOMAIN Held(h, h[i].key) :
                /\ Held(h, h[i].key)[j] = h[i].val
                /\ Held(RemoveAt(h, i), h[i].key) = RemoveAt(Held(h, h[i].key), j)
<1> DEFINE k == h[i].key
           r == RemoveAt(h, i)
           u == Under(h, {k})
<1>1. r \in Seq(Nodes)
    BY UnderRemove
<1>2. ASSUME NEW l, l # k
      PROVE  Held(r, l) = Held(h, l)
  <2>1. h[i].key \notin {l}
    BY <1>2
  <2>2. Under(r, {l}) = Under(h, {l})
    BY <2>1, UnderRemove
  <2> HIDE DEF r
  <2> QED BY <2>2 DEF Held
<1>3. PICK j \in 1 .. Len(u) : u[j] = h[i] /\ Under(r, {k}) = RemoveAt(u, j)
  <2>1. h[i].key \in {k}
    OBVIOUS
  <2> HIDE DEF k
  <2> QED BY <2>1, UnderRemove
<1>4. u \in Seq(Nodes)
    BY UnderType
<1> HIDE DEF u, r
<1>5. /\ j \in DOMAIN Values(u) /\ Values(u)[j] = u[j].val
      /\ Values(RemoveAt(u, j)) = RemoveAt(Values(u), j)
    BY <1>3, <1>4, ValuesRemove
<1>6. Held(h, k) = Values(u) /\ Held(r, k) = Values(RemoveAt(u, j))
    BY <1>3 DEF Held, u
<1>7. /\ j \in DOMAIN Held(h, k) /\ Held(h, k)[j] = h[i].val
      /\ Held(r, k) = RemoveAt(Held(h, k), j)
    BY <1>3, <1>5, <1>6
<1> QED BY <1>1, <1>2, <1>7 DEF r

-----------------------------------------------------------------------------
(* The inductive invariant *)

\* What the code assumes of the sizes.
Sizes == InitSize \in Nat /\ TopKey \in Nat

Typed == /\ kind \in Kinds
         /\ lowest \in Nat
         /\ heap \in Seq(Nodes)
         /\ \E m \in Nat : bucket \in [0 .. m - 1 -> Seq(Val)]
         /\ tree \in [DOMAIN tree -> Seq(Val)] /\ DOMAIN tree \subseteq Key

\* size is the number of values in all buckets, and none is below lowest_key.
Counted == /\ IsFiniteSet(Slots(bucket)) /\ size = Cardinality(Slots(bucket))
           /\ \A k \in DOMAIN bucket : bucket[k] # <<>> => k \in Key /\ lowest <= k

\* A queue of a tree is removed with its last value.
TreeFilled == \A k \in DOMAIN tree : tree[k] # <<>>

\* Either the buckets or the heap is in use.
OneStore ==
    /\ kind = "bucket" => heap = <<>>
    /\ kind = "prio" => \/ DOMAIN bucket = {}
                        \/ heap = <<>> /\ DOMAIN bucket = 0 .. InitSize - 1
    /\ kind = "fifo" => \A i \in 1 .. Len(heap) : heap[i].key = 0

IInv == Typed /\ Counted /\ TreeFilled /\ OneStore

\* What a list holds, by its kind.
LEMMA ContentIs ==
    ASSUME NEW k
    PROVE  /\ kind = "tree" => Content(k) = IF k \in DOMAIN tree THEN tree[k] ELSE <<>>
           /\ kind \in {"bucket", "prio"} /\ k \in DOMAIN bucket => Content(k) = bucket[k]
           /\ kind \in {"bucket", "prio"} /\ k \notin DOMAIN bucket =>
                 Content(k) = Held(heap, k)
           /\ kind \in {"heap", "fifo"} => Content(k) = Held(heap, k)
BY DEF Content, Held

\* The same after a step.
LEMMA ContentIsNext ==
    ASSUME NEW k
    PROVE  /\ kind' = "tree" =>
                 Content(k)' = IF k \in DOMAIN tree' THEN tree'[k] ELSE <<>>
           /\ kind' \in {"bucket", "prio"} /\ k \in DOMAIN bucket' => Content(k)' = bucket'[k]
           /\ kind' \in {"bucket", "prio"} /\ k \notin DOMAIN bucket' =>
                 Content(k)' = Held(heap', k)
           /\ kind' \in {"heap", "fifo"} => Content(k)' = Held(heap', k)
BY DEF Content, Held

\* The steps of the abstract queue, in terms of what the list holds.
LEMMA PushRefines ==
    ASSUME NEW k \in Key, NEW v \in Val, kind' = kind, out' = Nothing,
           \A l \in Key : Content(l)' = IF l = k THEN Append(Content(l), v) ELSE Content(l)
    PROVE  QueueStep
<1>1. [l \in Key |-> Content(l)]' = [[l \in Key |-> Content(l)] EXCEPT ![k] = Append(@, v)]
    OBVIOUS
<1>2. (IF out = TooHigh THEN Nothing ELSE out)' = Nothing
    BY DEF Nothing, TooHigh
<1>3. Abstract!Push(k, v)
    BY <1>1, <1>2 DEF Abstract!Push
<1>4. Abstract!Next
    BY <1>3 DEF Abstract!Next
<1> QED BY <1>4 DEF QueueStep

\* A step that takes value i of the least key.
LEMMA PopRefines ==
    ASSUME NEW k \in Key, NEW i \in DOMAIN Content(k), kind' = kind,
           Content(k) \in Seq(Val),
           kind \in {"bucket", "tree", "fifo"} => i = 1,
           \A l \in Key : Content(l) # <<>> => k <= l,
           out' = Node(k, Content(k)[i]),
           \A l \in Key : Content(l)' = IF l = k THEN RemoveAt(Content(l), i) ELSE Content(l)
    PROVE  QueueStep
<1>1. [l \in Key |-> Content(l)]' = [[l \in Key |-> Content(l)] EXCEPT ![k] = RemoveAt(@, i)]
    OBVIOUS
<1>2. Content(k) # <<>>
    OBVIOUS
<1>3. k \in Abstract!Used /\ \A l \in Abstract!Used : k <= l
    BY <1>2 DEF Abstract!Used
<1>4. out' # TooHigh
  <2>1. DOMAIN Node(k, Content(k)[i]) = {"key", "val"} /\ DOMAIN TooHigh = {"what"}
    BY DEF Node, TooHigh
  <2> QED BY <2>1
<1>5. (IF out = TooHigh THEN Nothing ELSE out)' = Abstract!Popped(k, Content(k)[i])
    BY <1>4 DEF Node, Abstract!Popped
<1>6. Abstract!Pop(k, i)
  <2>1. [m \in Key |-> Content(m)][k] = Content(k)
    OBVIOUS
  <2>2. (kind \in {"bucket", "tree", "fifo"}) => i = 1
    OBVIOUS
  <2>3. (IF out = TooHigh THEN Nothing ELSE out)'
           = Abstract!Popped(k, [m \in Key |-> Content(m)][k][i])
    BY <1>5, <2>1
  <2>4. Abstract!RemoveAt(Content(k), i) = RemoveAt(Content(k), i)
    BY DEF Abstract!RemoveAt, RemoveAt
  <2>5. [m \in Key |-> Content(m)]' =
           [[m \in Key |-> Content(m)] EXCEPT ![k] = Abstract!RemoveAt(@, i)]
    BY <1>1, <2>1, <2>4
  <2> QED BY <1>3, <2>2, <2>3, <2>5 DEF Abstract!Pop
<1>7. \E l \in Abstract!Used : \E j \in DOMAIN [m \in Key |-> Content(m)][l] : Abstract!Pop(l, j)
    BY <1>3, <1>6
<1>8. Abstract!Next
    BY <1>7 DEF Abstract!Next
<1> QED BY <1>8 DEF QueueStep

\* A step that finds nothing.
LEMMA EmptyRefines ==
    ASSUME kind' = kind, out' = Empty, \A l \in Key : Content(l) = <<>>,
           \A l \in Key : Content(l)' = Content(l)
    PROVE  QueueStep
<1>1. [l \in Key |-> Content(l)]' = [l \in Key |-> Content(l)]
    OBVIOUS
<1>2. Abstract!Used = {}
    BY DEF Abstract!Used
<1>3. (IF out = TooHigh THEN Nothing ELSE out)' = Empty
    BY DEF Empty, TooHigh
<1>4. Abstract!PopNothing
    BY <1>1, <1>2, <1>3 DEF Abstract!PopNothing
<1>5. Abstract!Next
    BY <1>4 DEF Abstract!Next
<1> QED BY <1>5 DEF QueueStep

\* A step that empties the list.
LEMMA ClearRefines ==
    ASSUME kind' = kind, out' = Nothing, \A l \in Key : Content(l)' = <<>>
    PROVE  QueueStep
<1>1. [l \in Key |-> Content(l)]' = [l \in Key |-> <<>>]
    OBVIOUS
<1>2. (IF out = TooHigh THEN Nothing ELSE out)' = Nothing
    BY DEF Nothing, TooHigh
<1>3. Abstract!Clear
    BY <1>1, <1>2 DEF Abstract!Clear
<1>4. Abstract!Next
    BY <1>3 DEF Abstract!Next
<1> QED BY <1>4 DEF QueueStep

-----------------------------------------------------------------------------
(* Every step keeps the invariant and is one of the abstract queue *)

\* At first nothing is in any list.
LEMMA Initially ==
    ASSUME Sizes, ListInit
    PROVE  IInv /\ Abstract!Init
<1>1. /\ kind \in Kinds /\ bucket = [k \in 0 .. InitSize - 1 |-> <<>>]
      /\ lowest = (IF kind = "prio" THEN InitSize ELSE TopKey + 1)
      /\ size = 0 /\ tree = <<>> /\ heap = <<>> /\ out = Nothing
      /\ InitSize \in Nat /\ TopKey \in Nat
    BY DEF ListInit, Sizes
<1>2. bucket \in [0 .. InitSize - 1 -> Seq(Val)] /\ DOMAIN bucket = 0 .. InitSize - 1
    BY <1>1
<1>3. Typed
  <2>1. tree \in [DOMAIN tree -> Seq(Val)] /\ DOMAIN tree = {}
    BY <1>1
  <2>2. lowest \in Nat /\ heap \in Seq(Nodes)
    BY <1>1
  <2> QED BY <1>1, <1>2, <2>1, <2>2 DEF Typed
<1>4. Counted
  <2>1. Slots(bucket) = {}
    BY <1>1, <1>2, SlotsNone
  <2> QED BY <1>1, <2>1, FS_EmptySet DEF Counted
<1>5. TreeFilled /\ OneStore
  <2>1. Len(heap) = 0 /\ DOMAIN tree = {}
    BY <1>1
  <2> QED BY <1>1, <1>2, <2>1 DEF TreeFilled, OneStore
<1>6. \A k \in Key : Content(k) = <<>>
    BY <1>1, <1>2, ContentIs, NothingUnder DEF Kinds
<1>7. [k \in Key |-> Content(k)] = [k \in Key |-> <<>>]
    BY <1>6
<1>8. (IF out = TooHigh THEN Nothing ELSE out) = Nothing
    BY <1>1
<1> QED BY <1>3, <1>4, <1>5, <1>7, <1>8 DEF IInv, Abstract!Init

\* The least key in use.
LEMMA LeastKey ==
    ASSUME NEW S \in SUBSET Nat, S # {}
    PROVE  LET k == CHOOSE k \in S : \A l \in S : k <= l
           IN k \in S /\ \A l \in S : k <= l
BY Smallest

\* Steps that leave the buckets alone.
LEMMA OtherStore ==
    ASSUME IInv, UNCHANGED <<kind, bucket, lowest, size, tree>>,
           heap' \in Seq(Nodes), OneStore'
    PROVE  IInv'
<1>1. /\ kind' = kind /\ bucket' = bucket /\ lowest' = lowest /\ size' = size
      /\ tree' = tree
    OBVIOUS
<1> QED BY <1>1 DEF IInv, Typed, Counted, TreeFilled

\* A heap is pushed to.
LEMMA HeapPushStep ==
    ASSUME Sizes, IInv, NEW k \in Key, NEW v \in Val, kind' = kind, HeapPush(k, v)
    PROVE  IInv' /\ QueueStep
<1>1. /\ kind = "heap" /\ heap' = Append(heap, Node(k, v)) /\ out' = Nothing
      /\ bucket' = bucket /\ lowest' = lowest /\ size' = size /\ tree' = tree
      /\ heap \in Seq(Nodes)
    BY DEF HeapPush, IInv, Typed
<1>2. heap' \in Seq(Nodes)
    BY <1>1, HeldPush
<1>3. OneStore'
    BY <1>1 DEF OneStore
<1>4. \A l \in Key : Content(l)' = IF l = k THEN Append(Content(l), v) ELSE Content(l)
    BY <1>1, ContentIs, ContentIsNext, HeldPush
<1>5. IInv'
    BY <1>1, <1>2, <1>3, OtherStore
<1>6. QueueStep
    BY <1>1, <1>4, PushRefines
<1> QED BY <1>5, <1>6

\* The queue that ignores keys is pushed to.
LEMMA FifoPushStep ==
    ASSUME Sizes, IInv, NEW v \in Val, kind' = kind, FifoPush(v)
    PROVE  IInv' /\ QueueStep
<1>1. /\ kind = "fifo" /\ heap' = Append(heap, Node(0, v)) /\ out' = Nothing
      /\ bucket' = bucket /\ lowest' = lowest /\ size' = size /\ tree' = tree
      /\ heap \in Seq(Nodes) /\ \A i \in 1 .. Len(heap) : heap[i].key = 0
    BY DEF FifoPush, IInv, Typed, OneStore
<1>2. 0 \in Key
    BY DEF Sizes, Key
<1>3. heap' \in Seq(Nodes)
    BY <1>1, <1>2, HeldPush
<1>4. \A i \in 1 .. Len(heap') : heap'[i].key = 0
  <2> DEFINE x == Node(0, v)
  <2>1. x \in Nodes /\ x.key = 0
    BY <1>2 DEF Node, Nodes
  <2> HIDE DEF x
  <2>2. /\ Len(Append(heap, x)) = Len(heap) + 1
        /\ \A i \in 1 .. Len(heap) : Append(heap, x)[i] = heap[i]
        /\ Append(heap, x)[Len(heap) + 1] = x
    BY <1>1, <2>1, AppendProperties
  <2>3. \A i \in 1 .. Len(heap) + 1 : i \in 1 .. Len(heap) \/ i = Len(heap) + 1
    BY <1>1
  <2>4. heap' = Append(heap, x)
    BY <1>1 DEF x
  <2> QED BY <1>1, <2>1, <2>2, <2>3, <2>4
<1>5. OneStore'
    BY <1>1, <1>4 DEF OneStore
<1>6. \A l \in Key : Content(l)' = IF l = 0 THEN Append(Content(l), v) ELSE Content(l)
    BY <1>1, <1>2, ContentIs, ContentIsNext, HeldPush
<1>7. IInv'
    BY <1>1, <1>3, <1>5, OtherStore
<1>8. QueueStep
    BY <1>1, <1>2, <1>6, PushRefines
<1> QED BY <1>7, <1>8

\* A node of the least key is taken from a heap.
LEMMA LeastTaken ==
    ASSUME IInv, NEW i \in LeastNodes, kind' = kind, kind \notin {"bucket", "tree", "fifo"},
           out' = heap[i], heap' = RemoveAt(heap, i),
           \A l \in Key : Content(l) = Held(heap, l) /\ Content(l)' = Held(heap', l)
    PROVE  heap' \in Seq(Nodes) /\ QueueStep
<1> DEFINE k == heap[i].key
<1>1. heap \in Seq(Nodes) /\ i \in 1 .. Len(heap)
    BY DEF IInv, Typed, LeastNodes
<1>2. heap[i] \in Nodes /\ k \in Key /\ heap[i] = Node(k, heap[i].val)
  <2>1. heap[i] \in Nodes
    BY <1>1
  <2> QED BY <2>1 DEF Nodes, Node
<1>3. /\ heap' \in Seq(Nodes)
      /\ \A l : l # k => Held(heap', l) = Held(heap, l)
    BY <1>1, HeldTake
<1>4. PICK j \in DOMAIN Held(heap, k) :
         /\ Held(heap, k)[j] = heap[i].val
         /\ Held(heap', k) = RemoveAt(Held(heap, k), j)
    BY <1>1, HeldTake
<1>5. ASSUME NEW l \in Key, Content(l) # <<>>
      PROVE  k <= l
  <2>1. Held(heap, l) # <<>>
    BY <1>5
  <2>2. PICK m \in 1 .. Len(heap) : heap[m].key = l
    BY <1>1, <2>1, HeldOf
  <2>3. DOMAIN heap = 1 .. Len(heap)
    BY <1>1
  <2>4. heap[i].key <= heap[m].key
    BY <2>3 DEF LeastNodes
  <2> QED BY <2>2, <2>4
<1> HIDE DEF k
<1>6. /\ j \in DOMAIN Content(k) /\ Content(k) \in Seq(Val)
      /\ out' = Node(k, Content(k)[j])
    BY <1>1, <1>2, <1>4, HeldOf
<1>7. \A l \in Key : Content(l)' = IF l = k THEN RemoveAt(Content(l), j) ELSE Content(l)
    BY <1>3, <1>4
<1>8. QueueStep
    BY <1>2, <1>5, <1>6, <1>7, PopRefines
<1> QED BY <1>3, <1>8

\* A heap is popped from.
LEMMA HeapPopStep ==
    ASSUME Sizes, IInv, kind' = kind, HeapPop
    PROVE  IInv' /\ QueueStep
<1>1. /\ kind = "heap" /\ heap \in Seq(Nodes)
      /\ bucket' = bucket /\ lowest' = lowest /\ size' = size /\ tree' = tree
    BY DEF HeapPop, IInv, Typed
<1>2. \A l \in Key : Content(l) = Held(heap, l) /\ Content(l)' = Held(heap', l)
    BY <1>1, ContentIs, ContentIsNext
<1>3. OneStore'
    BY <1>1 DEF OneStore
<1>4. CASE heap = <<>> /\ out' = Empty /\ heap' = heap
  <2>1. \A l \in Key : Content(l) = <<>> /\ Content(l)' = Content(l)
    BY <1>2, <1>4, NothingUnder
  <2>2. QueueStep
    BY <1>4, <2>1, EmptyRefines
  <2>3. IInv'
    BY <1>1, <1>3, <1>4, OtherStore
  <2> QED BY <2>2, <2>3
<1>5. CASE \E i \in LeastNodes : out' = heap[i] /\ heap' = RemoveAt(heap, i)
  <2>1. PICK i \in LeastNodes : out' = heap[i] /\ heap' = RemoveAt(heap, i)
    BY <1>5
  <2>2. heap' \in Seq(Nodes) /\ QueueStep
    BY <1>1, <1>2, <2>1, LeastTaken
  <2>3. IInv'
    BY <1>1, <1>3, <2>2, OtherStore
  <2> QED BY <2>2, <2>3
<1> QED BY <1>4, <1>5 DEF HeapPop

\* The first value of the queue that ignores keys is taken.
LEMMA FifoPopStep ==
    ASSUME Sizes, IInv, kind' = kind, FifoPop
    PROVE  IInv' /\ QueueStep
<1>1. /\ kind = "fifo" /\ heap \in Seq(Nodes)
      /\ bucket' = bucket /\ lowest' = lowest /\ size' = size /\ tree' = tree
      /\ \A i \in 1 .. Len(heap) : heap[i].key = 0
    BY DEF FifoPop, IInv, Typed, OneStore
<1>2. \A l \in Key : Content(l) = Held(heap, l) /\ Content(l)' = Held(heap', l)
    BY <1>1, ContentIs, ContentIsNext
<1>3. CASE heap = <<>> /\ out' = Empty /\ heap' = heap
  <2>1. \A l \in Key : Content(l) = <<>> /\ Content(l)' = Content(l)
    BY <1>2, <1>3, NothingUnder
  <2>2. QueueStep
    BY <1>3, <2>1, EmptyRefines
  <2>3. OneStore'
    BY <1>1, <1>3 DEF OneStore
  <2>4. IInv'
    BY <1>1, <1>3, <2>3, OtherStore
  <2> QED BY <2>2, <2>4
<1>4. CASE heap # <<>> /\ out' = Head(heap) /\ heap' = Tail(heap)
  <2>1. /\ Head(heap) = heap[1] /\ 1 \in 1 .. Len(heap) /\ Tail(heap) = RemoveAt(heap, 1)
        /\ Tail(heap) \in Seq(Nodes) /\ Len(Tail(heap)) = Len(heap) - 1
        /\ \A i \in 1 .. Len(Tail(heap)) : Tail(heap)[i] = heap[i + 1]
    <3>1. heap \in Seq(Nodes) /\ heap # <<>>
      BY <1>1, <1>4
    <3>2. DOMAIN heap = 1 .. Len(heap)
      BY <3>1
    <3>3. /\ Head(heap) = heap[1] /\ 1 \in DOMAIN heap /\ Tail(heap) = RemoveAt(heap, 1)
          /\ Tail(heap) \in Seq(Nodes) /\ Len(Tail(heap)) = Len(heap) - 1
      BY <3>1, EndsRemoved
    <3>4. \A i \in 1 .. Len(Tail(heap)) : Tail(heap)[i] = heap[i + 1]
      BY <3>1, HeadTailProperties
    <3> QED BY <3>2, <3>3, <3>4
  <2>2. \A i \in 1 .. Len(heap') : heap'[i].key = 0
    <3>1. \A i \in 1 .. Len(heap) - 1 : i + 1 \in 1 .. Len(heap)
      BY <1>1
    <3> QED BY <1>1, <1>4, <2>1, <3>1
  <2>3. OneStore'
    BY <1>1, <2>2 DEF OneStore
  <2>4. IInv'
    BY <1>1, <1>4, <2>1, <2>3, OtherStore
  <2>5. Under(heap, {0}) = heap /\ Under(heap', {0}) = heap'
    <3>1. heap' \in Seq(Nodes)
      BY <1>4, <2>1
    <3>2. \A h \in Seq(Nodes) : (\A i \in 1 .. Len(h) : h[i].key = 0) => Under(h, {0}) = h
      BY UnderAllOrNone
    <3> QED BY <1>1, <2>2, <3>1, <3>2
  <2>6. ASSUME NEW l \in Key, l # 0
        PROVE  Content(l) = <<>> /\ Content(l)' = <<>>
    <3>1. /\ Held(heap, l) # <<>> => \E i \in 1 .. Len(heap) : heap[i].key = l
          /\ Held(heap', l) # <<>> => \E i \in 1 .. Len(heap') : heap'[i].key = l
      BY <1>1, <1>4, <2>1, HeldOf
    <3> QED BY <1>1, <1>2, <2>2, <2>6, <3>1
  <2>7. 0 \in Key
    BY DEF Sizes, Key
  <2>8. Content(0) = Values(heap) /\ Content(0)' = Values(heap')
    BY <1>2, <2>5, <2>7 DEF Held
  <2>9. /\ 1 \in DOMAIN Values(heap) /\ Values(heap)[1] = heap[1].val
        /\ Values(heap') = RemoveAt(Values(heap), 1) /\ Values(heap) \in Seq(Val)
    <3>1. Values(heap) \in Seq(Val)
      BY <1>1, ValuesOf
    <3>2. /\ 1 \in DOMAIN Values(heap) /\ Values(heap)[1] = heap[1].val
          /\ Values(RemoveAt(heap, 1)) = RemoveAt(Values(heap), 1)
      BY <1>1, <2>1, ValuesRemove
    <3>3. heap' = RemoveAt(heap, 1)
      BY <1>4, <2>1
    <3> QED BY <3>1, <3>2, <3>3
  <2>10. out' = Node(0, heap[1].val)
    <3>1. heap[1] \in Nodes /\ heap[1].key = 0
      BY <1>1, <2>1
    <3> QED BY <1>4, <2>1, <3>1 DEF Nodes, Node
  <2>11. \A l \in Key : 0 <= l
    BY DEF Key
  <2>12. \A l \in Key : Content(l)' = IF l = 0 THEN RemoveAt(Content(l), 1) ELSE Content(l)
    BY <2>6, <2>8, <2>9
  <2>13. QueueStep
    BY <2>7, <2>8, <2>9, <2>10, <2>11, <2>12, PopRefines
  <2> QED BY <2>4, <2>13
<1> QED BY <1>3, <1>4 DEF FifoPop

\* The nodes of a heap or of the one queue are removed.
LEMMA ClearedStep ==
    ASSUME Sizes, IInv, NEW k \in {"heap", "fifo"}, kind' = kind, Cleared(k)
    PROVE  IInv' /\ QueueStep
<1>1. /\ kind = k /\ heap' = <<>> /\ out' = Nothing
      /\ bucket' = bucket /\ lowest' = lowest /\ size' = size /\ tree' = tree
    BY DEF Cleared
<1>2. heap' \in Seq(Nodes) /\ Len(heap') = 0
    BY <1>1
<1>3. OneStore'
    BY <1>1, <1>2 DEF OneStore
<1>4. IInv'
    BY <1>1, <1>2, <1>3, OtherStore
<1>5. \A l \in Key : Content(l)' = <<>>
    BY <1>1, ContentIsNext, NothingUnder
<1>6. QueueStep
    BY <1>1, <1>5, ClearRefines
<1> QED BY <1>4, <1>6

\* Steps that change a tree only.
LEMMA TreeStore ==
    ASSUME IInv, kind = "tree", UNCHANGED <<kind, bucket, lowest, size, heap>>,
           tree' \in [DOMAIN tree' -> Seq(Val)], DOMAIN tree' \subseteq Key, TreeFilled'
    PROVE  IInv'
<1>1. /\ kind' = kind /\ bucket' = bucket /\ lowest' = lowest /\ size' = size
      /\ heap' = heap
    OBVIOUS
<1>2. Typed' /\ Counted'
    BY <1>1 DEF IInv, Typed, Counted
<1>3. OneStore'
    BY <1>1 DEF OneStore
<1> QED BY <1>2, <1>3 DEF IInv

\* A value is put into the queue of its key.
LEMMA TreePushStep ==
    ASSUME Sizes, IInv, NEW k \in Key, NEW v \in Val, kind' = kind, TreePush(k, v)
    PROVE  IInv' /\ QueueStep
<1> DEFINE D == DOMAIN tree
<1>1. /\ kind = "tree" /\ out' = Nothing
      /\ bucket' = bucket /\ lowest' = lowest /\ size' = size /\ heap' = heap
      /\ tree \in [D -> Seq(Val)] /\ D \subseteq Key
      /\ tree' = [l \in D \cup {k} |-> IF l # k THEN tree[l]
                    ELSE IF k \in D THEN Append(tree[k], v) ELSE <<v>>]
      /\ \A l \in D : tree[l] # <<>>
    BY DEF TreePush, IInv, Typed, TreeFilled
<1> HIDE DEF D
<1>2. /\ DOMAIN tree' = D \cup {k}
      /\ \A l \in D \cup {k} : tree'[l] = IF l # k THEN tree[l]
                    ELSE IF k \in D THEN Append(tree[k], v) ELSE <<v>>
    BY <1>1
<1>3. ASSUME NEW l \in D \cup {k}
      PROVE  tree'[l] \in Seq(Val) /\ tree'[l] # <<>>
  <2>1. CASE l # k
    BY <1>1, <1>2, <2>1
  <2>2. CASE l = k /\ k \in D
    <3>1. tree[k] \in Seq(Val) /\ tree'[l] = Append(tree[k], v)
      BY <1>1, <1>2, <2>2
    <3> QED BY <3>1
  <2>3. CASE l = k /\ k \notin D
    <3>1. tree'[l] = <<v>>
      BY <1>2, <2>3
    <3> QED BY <3>1
  <2> QED BY <2>1, <2>2, <2>3
<1>4. tree' \in [DOMAIN tree' -> Seq(Val)] /\ DOMAIN tree' \subseteq Key
    BY <1>1, <1>2, <1>3
<1>5. TreeFilled'
    BY <1>2, <1>3 DEF TreeFilled
<1>6. IInv'
    BY <1>1, <1>4, <1>5, TreeStore
<1>7. Append(<<>>, v) = <<v>>
    OBVIOUS
<1>8. \A l \in Key : Content(l)' = IF l = k THEN Append(Content(l), v) ELSE Content(l)
  <2> SUFFICES ASSUME NEW l \in Key
               PROVE  Content(l)' = IF l = k THEN Append(Content(l), v) ELSE Content(l)
    OBVIOUS
  <2>1. /\ Content(l) = IF l \in D THEN tree[l] ELSE <<>>
        /\ Content(l)' = IF l \in DOMAIN tree' THEN tree'[l] ELSE <<>>
    BY <1>1, ContentIs, ContentIsNext DEF D
  <2>2. CASE l = k
    BY <1>2, <1>7, <2>1, <2>2
  <2>3. CASE l # k
    BY <1>2, <2>1, <2>3
  <2> QED BY <2>2, <2>3
<1>9. QueueStep
    BY <1>1, <1>8, PushRefines
<1> QED BY <1>6, <1>9

\* The first value of the least key is taken, and the key with the last one.
LEMMA TreePopStep ==
    ASSUME Sizes, IInv, kind' = kind, TreePop
    PROVE  IInv' /\ QueueStep
<1> DEFINE D == DOMAIN tree
<1>1. /\ kind = "tree"
      /\ bucket' = bucket /\ lowest' = lowest /\ size' = size /\ heap' = heap
      /\ tree \in [D -> Seq(Val)] /\ D \subseteq Key
      /\ \A l \in D : tree[l] # <<>>
    BY DEF TreePop, IInv, Typed, TreeFilled
<1>2. \A l : /\ Content(l) = IF l \in D THEN tree[l] ELSE <<>>
             /\ Content(l)' = IF l \in DOMAIN tree' THEN tree'[l] ELSE <<>>
    BY <1>1, ContentIs, ContentIsNext
<1>3. CASE D = {}
  <2>1. out' = Empty /\ tree' = tree
    BY <1>3 DEF TreePop
  <2>2. \A l \in Key : Content(l) = <<>> /\ Content(l)' = Content(l)
    BY <1>2, <1>3, <2>1
  <2>3. QueueStep
    BY <2>1, <2>2, EmptyRefines
  <2>4. TreeFilled'
    BY <1>1, <2>1 DEF TreeFilled
  <2>5. IInv'
    BY <1>1, <2>1, <2>4, TreeStore
  <2> QED BY <2>3, <2>5
<1>4. CASE D # {}
  <2> DEFINE k == CHOOSE l \in D : \A m \in D : l <= m
             rest == Tail(tree[k])
  <2>1. /\ out' = Node(k, Head(tree[k]))
        /\ tree' = IF rest = <<>> THEN [l \in D \ {k} |-> tree[l]]
                   ELSE [tree EXCEPT ![k] = rest]
    BY <1>4 DEF TreePop
  <2>2. D \in SUBSET Nat
    BY <1>1 DEF Key
  <2>3. k \in D /\ \A m \in D : k <= m
    <3> HIDE DEF D
    <3> QED BY <1>4, <2>2, LeastKey
  <2> HIDE DEF k, D
  <2>4. k \in Key /\ tree[k] \in Seq(Val) /\ tree[k] # <<>>
    BY <1>1, <2>3
  <2>5. /\ Head(tree[k]) = tree[k][1] /\ 1 \in DOMAIN tree[k] /\ rest \in Seq(Val)
        /\ RemoveAt(tree[k], 1) = rest
    BY <2>4, EndsRemoved
  <2> HIDE DEF rest
  <2>6. /\ DOMAIN tree' = IF rest = <<>> THEN D \ {k} ELSE D
        /\ \A l \in D : l # k => tree'[l] = tree[l]
        /\ rest # <<>> => tree'[k] = rest
    BY <1>1, <2>1, <2>3
  <2>7. \A l \in DOMAIN tree' : tree'[l] \in Seq(Val) /\ tree'[l] # <<>>
    BY <1>1, <2>5, <2>6
  <2>8. tree' \in [DOMAIN tree' -> Seq(Val)] /\ DOMAIN tree' \subseteq Key
    <3>1. tree' = [l \in DOMAIN tree' |-> tree'[l]]
      BY <1>1, <2>1
    <3>2. DOMAIN tree' \subseteq Key
      BY <1>1, <2>6
    <3> QED BY <2>7, <3>1, <3>2
  <2>9. TreeFilled'
    BY <2>7 DEF TreeFilled
  <2>10. IInv'
    BY <1>1, <2>8, <2>9, TreeStore
  <2>11. Content(k) = tree[k]
    BY <1>2, <2>3 DEF D
  <2>12. \A l \in Key : Content(l)' = IF l = k THEN RemoveAt(Content(l), 1) ELSE Content(l)
    <3> SUFFICES ASSUME NEW l \in Key
                 PROVE  Content(l)' = IF l = k THEN RemoveAt(Content(l), 1) ELSE Content(l)
      OBVIOUS
    <3>1. /\ Content(l) = IF l \in D THEN tree[l] ELSE <<>>
          /\ Content(l)' = IF l \in DOMAIN tree' THEN tree'[l] ELSE <<>>
      BY <1>2
    <3>2. CASE l = k
      BY <2>3, <2>5, <2>6, <3>1, <3>2
    <3>3. CASE l # k
      BY <2>6, <3>1, <3>3
    <3> QED BY <3>2, <3>3
  <2>13. \A l \in Key : Content(l) # <<>> => k <= l
    BY <1>2, <2>3 DEF D
  <2>14. /\ 1 \in DOMAIN Content(k) /\ Content(k) \in Seq(Val)
         /\ out' = Node(k, Content(k)[1])
    BY <2>1, <2>4, <2>5, <2>11
  <2>15. QueueStep
    BY <2>4, <2>12, <2>13, <2>14, PopRefines
  <2> QED BY <2>10, <2>15
<1> QED BY <1>3, <1>4

\* A tree is emptied.
LEMMA TreeClearStep ==
    ASSUME Sizes, IInv, kind' = kind, TreeClear
    PROVE  IInv' /\ QueueStep
<1>1. /\ kind = "tree" /\ tree' = <<>> /\ out' = Nothing
      /\ bucket' = bucket /\ lowest' = lowest /\ size' = size /\ heap' = heap
    BY DEF TreeClear
<1>2. DOMAIN tree' = {} /\ tree' \in [DOMAIN tree' -> Seq(Val)]
    BY <1>1
<1>3. TreeFilled'
    BY <1>2 DEF TreeFilled
<1>4. IInv'
    BY <1>1, <1>2, <1>3, TreeStore
<1>5. \A l \in Key : Content(l)' = <<>>
    BY <1>1, <1>2, ContentIsNext
<1>6. QueueStep
    BY <1>1, <1>5, ClearRefines
<1> QED BY <1>4, <1>6

\* A value is put into its bucket, in an array that may have grown to E.
LEMMA BucketPushed ==
    ASSUME Sizes, IInv, kind \in {"bucket", "prio"}, heap = <<>>,
           NEW e \in Nat, NEW E, E \in [0 .. e - 1 -> Seq(Val)],
           DOMAIN bucket \subseteq 0 .. e - 1,
           \A l \in 0 .. e - 1 : E[l] = IF l \in DOMAIN bucket THEN bucket[l] ELSE <<>>,
           NEW k \in Key, k \in 0 .. e - 1, NEW v \in Val,
           bucket' = [E EXCEPT ![k] = Append(@, v)],
           lowest' = LowestWith(k), size' = size + 1, out' = Nothing,
           kind' = kind, tree' = tree, heap' = heap, OneStore'
    PROVE  IInv' /\ QueueStep
<1>0. PICK D, B : D = DOMAIN bucket /\ B = 0 .. e - 1
    OBVIOUS
<1>1. /\ bucket \in [D -> Seq(Val)] /\ IsFiniteSet(Slots(bucket))
      /\ size = Cardinality(Slots(bucket)) /\ lowest \in Nat /\ k \in Nat
      /\ \A l \in D : bucket[l] # <<>> => l \in Key /\ lowest <= l
  <2>1. \E m \in Nat : bucket \in [0 .. m - 1 -> Seq(Val)]
    BY DEF IInv, Typed
  <2>2. bucket \in [D -> Seq(Val)]
    BY <1>0, <2>1
  <2> QED BY <1>0, <2>2 DEF IInv, Typed, Counted, Key
<1>2. D \subseteq B /\ k \in B /\ E \in [B -> Seq(Val)]
      /\ \A l \in B : E[l] = IF l \in D THEN bucket[l] ELSE <<>>
    BY <1>0
<1>3. Slots(E) = Slots(bucket)
  <2>1. Grown(E, B, bucket, D)
    BY <1>2 DEF Grown
  <2> QED BY <1>1, <2>1, SlotsGrow
<1>4. /\ bucket' \in [B -> Seq(Val)] /\ IsFiniteSet(Slots(bucket'))
      /\ Cardinality(Slots(bucket')) = Cardinality(Slots(bucket)) + 1
  <2>1. IsFiniteSet(Slots(E))
    BY <1>1, <1>3
  <2>2. Appended(bucket', E, k, v)
    BY DEF Appended
  <2>3. /\ bucket' \in [B -> Seq(Val)] /\ IsFiniteSet(Slots(bucket'))
        /\ Cardinality(Slots(bucket')) = Cardinality(Slots(E)) + 1
    <3>1. k \in B /\ v \in Val /\ E \in [B -> Seq(Val)]
      BY <1>2
    <3>2. PICK c : c = bucket'
      OBVIOUS
    <3>3. Appended(c, E, k, v)
      BY <2>2, <3>2
    <3>4. /\ c \in [B -> Seq(Val)] /\ IsFiniteSet(Slots(c))
          /\ Cardinality(Slots(c)) = Cardinality(Slots(E)) + 1
      <4>1. \A b \in [B -> Seq(Val)] : \A l \in B : \A w \in Val : \A d :
               IsFiniteSet(Slots(b)) /\ Appended(d, b, l, w) =>
                  /\ d \in [B -> Seq(Val)] /\ IsFiniteSet(Slots(d))
                  /\ Cardinality(Slots(d)) = Cardinality(Slots(b)) + 1
        BY ONLY SlotsPush
      <4> QED BY ONLY <2>1, <3>1, <3>3, <4>1
    <3> QED BY <3>2, <3>4
  <2> QED BY <1>3, <2>3
<1>5. DOMAIN bucket' = B /\ \A l \in B : bucket'[l] = IF l = k THEN Append(E[l], v) ELSE E[l]
    BY <1>2
<1>6. lowest' \in Nat /\ lowest' <= lowest /\ lowest' <= k
    BY <1>1 DEF LowestWith
<1>7. Typed'
  <2>1. \E m \in Nat : bucket' \in [0 .. m - 1 -> Seq(Val)]
    BY <1>0, <1>4
  <2> QED BY <1>6, <2>1 DEF IInv, Typed
<1>8. Counted'
  <2>1. ASSUME NEW l \in B, bucket'[l] # <<>>
        PROVE  l \in Key /\ lowest' <= l
    <3>1. CASE l = k
      BY <1>6, <3>1
    <3>2. CASE l # k
      <4>1. l \in D /\ bucket[l] # <<>>
        BY <1>2, <1>5, <2>1, <3>2
      <4>2. l \in Key /\ lowest <= l
        BY <1>1, <4>1
      <4> QED BY <1>1, <1>6, <4>2 DEF Key
    <3> QED BY <3>1, <3>2
  <2> QED BY <1>0, <1>1, <1>4, <1>5, <2>1 DEF Counted
<1>9. IInv'
    BY <1>7, <1>8 DEF IInv, TreeFilled
<1>10. \A l \in Key : Content(l)' = IF l = k THEN Append(Content(l), v) ELSE Content(l)
  <2> SUFFICES ASSUME NEW l \in Key
               PROVE  Content(l)' = IF l = k THEN Append(Content(l), v) ELSE Content(l)
    OBVIOUS
  <2>1. Content(l) = IF l \in D THEN bucket[l] ELSE <<>>
    BY <1>0, ContentIs, NothingUnder
  <2>2. Content(l)' = IF l \in B THEN bucket'[l] ELSE <<>>
    BY <1>0, <1>5, ContentIsNext, NothingUnder
  <2>3. CASE l \in B
    <3>1. E[l] = Content(l)
      BY <1>2, <2>1, <2>3
    <3> QED BY <1>5, <2>2, <2>3, <3>1
  <2>4. CASE l \notin B
    BY <1>2, <2>1, <2>2, <2>4
  <2> QED BY <2>3, <2>4
<1>11. QueueStep
    BY <1>10, PushRefines
<1> QED BY <1>9, <1>11

\* The first bucket that is not empty.
LEMMA FirstFilledIs ==
    ASSUME IInv, size # 0
    PROVE  /\ FirstFilled \in DOMAIN bucket /\ FirstFilled \in Key /\ FirstFilled \in Nat
           /\ bucket[FirstFilled] # <<>> /\ bucket[FirstFilled] \in Seq(Val)
           /\ lowest <= FirstFilled
           /\ \A l \in DOMAIN bucket : bucket[l] # <<>> => FirstFilled <= l
<1>1. PICK m \in Nat : bucket \in [0 .. m - 1 -> Seq(Val)]
    BY DEF IInv, Typed
<1>2. /\ size = Cardinality(Slots(bucket)) /\ lowest \in Nat
      /\ \A l \in DOMAIN bucket : bucket[l] # <<>> => l \in Key /\ lowest <= l
    BY DEF IInv, Counted, Typed
<1>3. Filled = {l \in DOMAIN bucket : bucket[l] # <<>>}
    BY <1>2 DEF Filled
<1>4. Slots(bucket) # {}
    BY <1>2, FS_EmptySet
<1>5. Filled # {}
    BY <1>1, <1>3, <1>4, SlotsNone
<1>6. Filled \in SUBSET Nat
    BY <1>1, <1>3
<1>7. FirstFilled \in Filled /\ \A l \in Filled : FirstFilled <= l
    BY <1>5, <1>6, LeastKey DEF FirstFilled
<1> QED BY <1>1, <1>2, <1>3, <1>6, <1>7

\* A value is taken from the first bucket that is not empty.
LEMMA BucketPopped ==
    ASSUME Sizes, IInv, kind \in {"bucket", "prio"}, heap = <<>>, size # 0,
           NEW i \in DOMAIN bucket[FirstFilled], kind = "bucket" => i = 1,
           NEW s \in Seq(Val), Len(s) = Len(bucket[FirstFilled]) - 1,
           RemoveAt(bucket[FirstFilled], i) = s,
           out' = Node(FirstFilled, bucket[FirstFilled][i]),
           bucket' = [bucket EXCEPT ![FirstFilled] = s],
           lowest' = FirstFilled, size' = size - 1,
           kind' = kind, tree' = tree, heap' = heap, OneStore'
    PROVE  IInv' /\ QueueStep
<1> DEFINE k == FirstFilled
           D == DOMAIN bucket
<1>1. /\ k \in D /\ k \in Key /\ k \in Nat /\ bucket[k] # <<>> /\ bucket[k] \in Seq(Val)
      /\ lowest <= k /\ \A l \in D : bucket[l] # <<>> => k <= l
    BY FirstFilledIs
<1>2. /\ bucket \in [D -> Seq(Val)] /\ IsFiniteSet(Slots(bucket))
      /\ size = Cardinality(Slots(bucket))
      /\ \A l \in D : bucket[l] # <<>> => l \in Key
  <2>1. \E m \in Nat : bucket \in [0 .. m - 1 -> Seq(Val)]
    BY DEF IInv, Typed
  <2>2. bucket \in [D -> Seq(Val)]
    BY <2>1
  <2> QED BY <2>2 DEF IInv, Counted
<1>3. PICK m \in Nat : D = 0 .. m - 1
    BY DEF IInv, Typed
<1> HIDE DEF k, D
<1>4. /\ bucket' \in [D -> Seq(Val)] /\ IsFiniteSet(Slots(bucket'))
      /\ Cardinality(Slots(bucket')) = Cardinality(Slots(bucket)) - 1
  <2>1. Shortened(bucket', bucket, k, s)
    BY <1>1 DEF Shortened, k
  <2>2. k \in D /\ bucket \in [D -> Seq(Val)] /\ IsFiniteSet(Slots(bucket))
    BY <1>1, <1>2
  <2>3. PICK c : c = bucket'
    OBVIOUS
  <2>4. Shortened(c, bucket, k, s)
    BY <2>1, <2>3
  <2>5. /\ c \in [D -> Seq(Val)] /\ IsFiniteSet(Slots(c))
        /\ Cardinality(Slots(c)) = Cardinality(Slots(bucket)) - 1
    BY ONLY <2>2, <2>4, SlotsPop
  <2> QED BY <2>3, <2>5
<1>5. DOMAIN bucket' = D /\ \A l \in D : bucket'[l] = IF l = k THEN s ELSE bucket[l]
    BY <1>2 DEF k
<1>6. Typed'
  <2>1. \E n \in Nat : bucket' \in [0 .. n - 1 -> Seq(Val)]
    BY <1>3, <1>4
  <2>2. lowest' \in Nat
    BY <1>1 DEF k
  <2> QED BY <2>1, <2>2 DEF IInv, Typed
<1>7. Counted'
  <2>1. ASSUME NEW l \in D, bucket'[l] # <<>>
        PROVE  l \in Key /\ k <= l
    BY <1>1, <1>2, <1>5, <2>1
  <2>2. lowest' = k
    BY DEF k
  <2> QED BY <1>2, <1>4, <1>5, <2>1, <2>2 DEF Counted
<1>8. IInv'
    BY <1>6, <1>7 DEF IInv, TreeFilled
<1>9. \A l : /\ Content(l) = IF l \in D THEN bucket[l] ELSE <<>>
             /\ Content(l)' = IF l \in D THEN bucket'[l] ELSE <<>>
    BY <1>5, ContentIs, ContentIsNext, NothingUnder DEF D
<1>10. Content(k) = bucket[k]
    BY <1>1, <1>9
<1>11. \A l \in Key : Content(l)' = IF l = k THEN RemoveAt(Content(l), i) ELSE Content(l)
  <2> SUFFICES ASSUME NEW l \in Key
               PROVE  Content(l)' = IF l = k THEN RemoveAt(Content(l), i) ELSE Content(l)
    OBVIOUS
  <2>1. CASE l = k
    <3>1. RemoveAt(bucket[k], i) = s
      BY DEF k
    <3> QED BY <1>1, <1>5, <1>9, <1>10, <2>1, <3>1
  <2>2. CASE l # k
    BY <1>5, <1>9, <2>2
  <2> QED BY <2>1, <2>2
<1>12. \A l \in Key : Content(l) # <<>> => k <= l
    BY <1>1, <1>9
<1>13. /\ i \in DOMAIN Content(k) /\ Content(k) \in Seq(Val)
       /\ out' = Node(k, Content(k)[i])
    BY <1>1, <1>10 DEF k
<1>14. QueueStep
    BY <1>1, <1>11, <1>12, <1>13, PopRefines
<1> QED BY <1>8, <1>14

\* Nothing is in the buckets.
LEMMA BucketsEmpty ==
    ASSUME Sizes, IInv, kind \in {"bucket", "prio"}, heap = <<>>, size = 0, out' = Empty,
           UNCHANGED <<kind, bucket, lowest, size, tree, heap>>
    PROVE  IInv' /\ QueueStep
<1>1. PICK m \in Nat : bucket \in [0 .. m - 1 -> Seq(Val)]
    BY DEF IInv, Typed
<1>2. IsFiniteSet(Slots(bucket)) /\ Cardinality(Slots(bucket)) = 0
    BY DEF IInv, Counted
<1>3. Slots(bucket) = {}
    BY <1>2, FS_EmptySet
<1>4. \A l \in DOMAIN bucket : bucket[l] = <<>>
    BY <1>1, <1>3, SlotsNone
<1>5. \A l \in Key : Content(l) = <<>> /\ Content(l)' = <<>>
    BY <1>4, ContentIs, ContentIsNext, NothingUnder
<1>6. QueueStep
    BY <1>5, EmptyRefines
<1>7. IInv'
    BY DEF IInv, Typed, Counted, TreeFilled, OneStore
<1> QED BY <1>6, <1>7

\* A bucket list is pushed to; a key that is too high ends the program.
LEMMA BucketPushStep ==
    ASSUME Sizes, IInv, NEW k \in Key, NEW v \in Val, kind' = kind, BucketPush(k, v)
    PROVE  IInv' /\ QueueStep
<1>1. kind = "bucket" /\ heap = <<>> /\ tree' = tree /\ heap' = heap
    BY DEF BucketPush, IInv, OneStore
<1>2. OneStore'
    BY <1>1 DEF OneStore
<1>3. CASE k > MaxKey
  <2>1. out' = TooHigh /\ bucket' = bucket /\ lowest' = lowest /\ size' = size
    BY <1>3 DEF BucketPush
  <2>2. IInv'
    BY <1>1, <1>2, <2>1 DEF IInv, Typed, Counted, TreeFilled
  <2>3. \A l : Content(l)' = Content(l)
    BY <1>1, <2>1, kind' = kind DEF Content
  <2>4. UNCHANGED [l \in Key |-> Content(l)]
    BY <2>3
  <2> QED BY <2>1, <2>2, <2>4 DEF QueueStep
<1>4. CASE ~(k > MaxKey)
  <2>1. /\ bucket' = [Expanded(k) EXCEPT ![k] = Append(@, v)]
        /\ lowest' = LowestWith(k) /\ size' = size + 1 /\ out' = Nothing
    BY <1>4 DEF BucketPush
  <2>2. PICK m \in Nat : bucket \in [0 .. m - 1 -> Seq(Val)]
    BY DEF IInv, Typed
  <2>3. DOMAIN bucket = 0 .. m - 1 /\ Cardinality(DOMAIN bucket) = m
    <3>1. Cardinality(0 .. m - 1) = IF 0 > m - 1 THEN 0 ELSE (m - 1) - 0 + 1
      BY FS_Interval
    <3> QED BY <2>2, <3>1
  <2>4. k \in Nat
    BY DEF Key
  <2>5. PICK e : e = IF k < m THEN m ELSE Greater(k + 1, 2 * m)
    OBVIOUS
  <2>6. e \in Nat /\ m <= e /\ k < e
    BY <2>4, <2>5 DEF Greater
  <2>7. Expanded(k) = [l \in 0 .. e - 1 |-> IF l < m THEN bucket[l] ELSE <<>>]
    BY <2>3, <2>5 DEF Expanded
  <2>8. Expanded(k) \in [0 .. e - 1 -> Seq(Val)]
    BY <2>2, <2>6, <2>7
  <2>9. \A l \in 0 .. e - 1 : Expanded(k)[l] = IF l \in DOMAIN bucket THEN bucket[l] ELSE <<>>
    BY <2>3, <2>6, <2>7
  <2>10. DOMAIN bucket \subseteq 0 .. e - 1 /\ k \in 0 .. e - 1
    BY <2>3, <2>4, <2>6
  <2> QED BY <1>1, <1>2, <2>1, <2>6, <2>8, <2>9, <2>10, BucketPushed
<1> QED BY <1>3, <1>4

\* The first value of the least key is taken from a bucket list.
LEMMA BucketPopStep ==
    ASSUME Sizes, IInv, kind' = kind, BucketPop
    PROVE  IInv' /\ QueueStep
<1>1. kind = "bucket" /\ heap = <<>> /\ tree' = tree /\ heap' = heap
    BY DEF BucketPop, IInv, OneStore
<1>2. OneStore'
    BY <1>1 DEF OneStore
<1>3. CASE size = 0
  <2>1. out' = Empty /\ bucket' = bucket /\ lowest' = lowest /\ size' = size
    BY <1>3 DEF BucketPop
  <2> QED BY <1>1, <1>3, <2>1, BucketsEmpty
<1>4. CASE size # 0
  <2> DEFINE b == bucket[FirstFilled]
  <2>1. /\ out' = Node(FirstFilled, Head(b)) /\ bucket' = [bucket EXCEPT ![FirstFilled] = Tail(b)]
        /\ lowest' = FirstFilled /\ size' = size - 1
    BY <1>4 DEF BucketPop
  <2>2. b \in Seq(Val) /\ b # <<>>
    BY <1>4, FirstFilledIs
  <2> HIDE DEF b
  <2>3. /\ Head(b) = b[1] /\ 1 \in DOMAIN b /\ RemoveAt(b, 1) = Tail(b)
        /\ Tail(b) \in Seq(Val) /\ Len(Tail(b)) = Len(b) - 1
    BY <2>2, EndsRemoved
  <2>4. PICK s : s = Tail(b)
    OBVIOUS
  <2>5. /\ s \in Seq(Val) /\ Len(s) = Len(bucket[FirstFilled]) - 1
        /\ RemoveAt(bucket[FirstFilled], 1) = s /\ 1 \in DOMAIN bucket[FirstFilled]
        /\ out' = Node(FirstFilled, bucket[FirstFilled][1])
        /\ bucket' = [bucket EXCEPT ![FirstFilled] = s]
    BY <2>1, <2>3, <2>4 DEF b
  <2> QED BY <1>1, <1>2, <1>4, <2>1, <2>5, BucketPopped
<1> QED BY <1>3, <1>4

\* The buckets of a priority queue become a heap.
LEMMA BucketsMoved ==
    ASSUME Sizes, IInv, kind = "prio", DOMAIN bucket # {}
    PROVE  /\ Moved(InOrder) \in Seq(Nodes)
           /\ \A l \in Key : Content(l) = Held(Moved(InOrder), l)
<1> DEFINE K == {j \in Key : j >= lowest}
           b == InOrder
<1>1. heap = <<>> /\ DOMAIN bucket = 0 .. InitSize - 1 /\ lowest \in Nat
    BY DEF IInv, OneStore, Typed
<1>2. bucket \in [0 .. InitSize - 1 -> Seq(Val)] /\ InitSize \in Nat \ {0}
  <2>1. PICK m \in Nat : bucket \in [0 .. m - 1 -> Seq(Val)]
    BY DEF IInv, Typed
  <2>2. 0 .. m - 1 = 0 .. InitSize - 1
    BY <1>1, <2>1
  <2>3. InitSize # 0
    BY <1>1 DEF Sizes
  <2> QED BY <2>1, <2>2, <2>3 DEF Sizes
<1>3. \A l \in DOMAIN bucket : bucket[l] # <<>> => l \in Key /\ lowest <= l
    BY DEF IInv, Counted
<1>4. /\ b \in Seq(Nodes)
      /\ \A l \in Key : Values(Under(b, {l})) =
            IF l \in DOMAIN bucket THEN bucket[l] ELSE <<>>
    BY <1>2, <1>3, BucketsInOrder
<1> HIDE DEF b
<1>5. Moved(b) = Under(b, K)
    BY DEF Moved
<1>6. \A l \in Key : Content(l) = IF l \in DOMAIN bucket THEN bucket[l] ELSE <<>>
    BY <1>1, ContentIs, NothingUnder
<1>7. Moved(b) \in Seq(Nodes)
  <2> HIDE DEF K
  <2> QED BY <1>4, <1>5, UnderType
<1>8. ASSUME NEW l \in Key
      PROVE  Content(l) = Held(Moved(b), l)
  <2>1. Held(Moved(b), l) = Values(Under(b, K \cap {l}))
    <3>1. Under(Under(b, K), {l}) = Under(b, K \cap {l})
      <4> HIDE DEF K
      <4> QED BY <1>4, UnderUnder
    <3> QED BY <1>5, <3>1 DEF Held
  <2>2. CASE l >= lowest
    <3>1. K \cap {l} = {l}
      BY <2>2
    <3> QED BY <1>4, <1>6, <2>1, <3>1
  <2>3. CASE ~(l >= lowest)
    <3>1. K \cap {l} = {}
      BY <2>3
    <3>2. Under(b, {}) = <<>>
      BY <1>4, UnderAllOrNone
    <3>3. Values(<<>>) = <<>>
      BY NothingUnder, UnderEmpty DEF Held
    <3>4. Content(l) = <<>>
      <4>1. l \in DOMAIN bucket => bucket[l] = <<>>
        BY <1>1, <1>3, <2>3 DEF Key
      <4> QED BY <1>6, <4>1
    <3> QED BY <2>1, <3>1, <3>2, <3>3, <3>4
  <2> QED BY <2>2, <2>3
<1> QED BY <1>7, <1>8 DEF b

\* A priority queue is pushed to; a key that does not fit turns it into a heap.
LEMMA PrioPushStep ==
    ASSUME Sizes, IInv, NEW k \in Key, NEW v \in Val, kind' = kind, PrioPush(k, v)
    PROVE  IInv' /\ QueueStep
<1>1. /\ kind = "prio" /\ out' = Nothing /\ tree' = tree
      /\ heap \in Seq(Nodes) /\ lowest \in Nat /\ k \in Nat
      /\ DOMAIN bucket # {} => heap = <<>> /\ DOMAIN bucket = 0 .. InitSize - 1
    BY DEF PrioPush, IInv, Typed, OneStore, Key
<1>2. CASE /\ DOMAIN bucket # {} /\ k < InitSize
           /\ bucket' = [bucket EXCEPT ![k] = Append(@, v)]
           /\ lowest' = LowestWith(k) /\ size' = size + 1 /\ heap' = heap
  <2>1. PICK e : e = InitSize
    OBVIOUS
  <2>2. e \in Nat /\ DOMAIN bucket = 0 .. e - 1 /\ k \in 0 .. e - 1
    BY <1>1, <1>2, <2>1 DEF Sizes
  <2>3. bucket \in [0 .. e - 1 -> Seq(Val)]
    <3>1. \E m \in Nat : bucket \in [0 .. m - 1 -> Seq(Val)]
      BY DEF IInv, Typed
    <3> QED BY <2>2, <3>1
  <2>4. DOMAIN bucket' = DOMAIN bucket
    BY <1>2
  <2>5. OneStore'
    BY <1>1, <1>2, <2>4 DEF OneStore
  <2> QED BY <1>1, <1>2, <2>2, <2>3, <2>5, BucketPushed
<1>3. CASE /\ DOMAIN bucket # {} /\ k >= InitSize
           /\ bucket' = <<>> /\ size' = 0 /\ lowest' = lowest
           /\ heap' = Append(Moved(InOrder), Node(k, v))
  <2> DEFINE h == Moved(InOrder)
  <2>1. /\ h \in Seq(Nodes)
        /\ \A l \in Key : Content(l) = Held(h, l)
    BY <1>1, <1>3, BucketsMoved
  <2> HIDE DEF h
  <2>2. /\ heap' \in Seq(Nodes)
        /\ \A l : Held(heap', l) = IF l = k THEN Append(Held(h, l), v) ELSE Held(h, l)
    <3>1. heap' = Append(h, Node(k, v))
      BY <1>3 DEF h
    <3> QED BY <2>1, <3>1, HeldPush
  <2>3. DOMAIN bucket' = {} /\ bucket' \in [0 .. 0 - 1 -> Seq(Val)]
    BY <1>3
  <2>4. \A l \in Key : Content(l)' = Held(heap', l)
    BY <1>1, <2>3, ContentIsNext
  <2>5. QueueStep
    <3>1. \A l \in Key : Content(l)' = IF l = k THEN Append(Content(l), v) ELSE Content(l)
      BY <2>1, <2>2, <2>4
    <3> QED BY <1>1, <3>1, PushRefines
  <2>6. Typed'
    BY <1>1, <1>3, <2>2, <2>3 DEF IInv, Typed
  <2>7. Counted'
    <3>1. Slots(bucket') = {}
      BY <2>3 DEF Slots
    <3> QED BY <1>3, <2>3, <3>1, FS_EmptySet DEF Counted
  <2>8. OneStore'
    BY <1>1, <2>3 DEF OneStore
  <2>9. TreeFilled'
    BY <1>1 DEF IInv, TreeFilled
  <2> QED BY <2>5, <2>6, <2>7, <2>8, <2>9 DEF IInv
<1>4. CASE /\ DOMAIN bucket = {} /\ heap' = Append(heap, Node(k, v))
           /\ bucket' = bucket /\ lowest' = lowest /\ size' = size
  <2>1. /\ heap' \in Seq(Nodes)
        /\ \A l : Held(heap', l) = IF l = k THEN Append(Held(heap, l), v) ELSE Held(heap, l)
    BY <1>1, <1>4, HeldPush
  <2>2. OneStore'
    BY <1>1, <1>4 DEF OneStore
  <2>3. IInv'
    BY <1>1, <1>4, <2>1, <2>2, OtherStore
  <2>4. \A l \in Key : Content(l) = Held(heap, l) /\ Content(l)' = Held(heap', l)
    BY <1>1, <1>4, ContentIs, ContentIsNext
  <2>5. QueueStep
    BY <1>1, <2>1, <2>4, PushRefines
  <2> QED BY <2>3, <2>5
<1> QED BY <1>2, <1>3, <1>4 DEF PrioPush, IsHeap

\* The last value of the first bucket, or a node of the least key, is taken.
LEMMA PrioPopStep ==
    ASSUME Sizes, IInv, kind' = kind, PrioPop
    PROVE  IInv' /\ QueueStep
<1>1. /\ kind = "prio" /\ tree' = tree /\ heap \in Seq(Nodes)
      /\ DOMAIN bucket # {} => heap = <<>> /\ DOMAIN bucket = 0 .. InitSize - 1
    BY DEF PrioPop, IInv, Typed, OneStore
<1>2. CASE /\ DOMAIN bucket # {} /\ size = 0 /\ out' = Empty
           /\ UNCHANGED <<bucket, lowest, size, heap>>
    BY <1>1, <1>2, BucketsEmpty
<1>3. CASE /\ DOMAIN bucket # {} /\ size # 0
           /\ out' = Node(FirstFilled, Last(bucket[FirstFilled]))
           /\ bucket' = [bucket EXCEPT ![FirstFilled] = Front(@)]
           /\ lowest' = FirstFilled /\ size' = size - 1 /\ heap' = heap
  <2> DEFINE b == bucket[FirstFilled]
  <2>1. b \in Seq(Val) /\ b # <<>>
    BY <1>3, FirstFilledIs
  <2>2. bucket' = [bucket EXCEPT ![FirstFilled] = Front(b)] /\ out' = Node(FirstFilled, Last(b))
    BY <1>3
  <2> HIDE DEF b
  <2>3. /\ Last(b) = b[Len(b)] /\ Len(b) \in DOMAIN b /\ RemoveAt(b, Len(b)) = Front(b)
        /\ Front(b) \in Seq(Val) /\ Len(Front(b)) = Len(b) - 1
    BY <2>1, EndsRemoved
  <2>4. PICK s, i : s = Front(b) /\ i = Len(b)
    OBVIOUS
  <2>5. /\ s \in Seq(Val) /\ Len(s) = Len(bucket[FirstFilled]) - 1
        /\ RemoveAt(bucket[FirstFilled], i) = s /\ i \in DOMAIN bucket[FirstFilled]
        /\ out' = Node(FirstFilled, bucket[FirstFilled][i])
        /\ bucket' = [bucket EXCEPT ![FirstFilled] = s]
    BY <2>2, <2>3, <2>4 DEF b
  <2>6. DOMAIN bucket' = DOMAIN bucket
    BY <1>3
  <2>7. OneStore'
    BY <1>1, <1>3, <2>6 DEF OneStore
  <2> QED BY <1>1, <1>3, <2>5, <2>7, BucketPopped
<1>4. CASE /\ DOMAIN bucket = {} /\ heap = <<>> /\ out' = Empty
           /\ UNCHANGED <<bucket, lowest, size, heap>>
  <2>1. \A l \in Key : Content(l) = <<>> /\ Content(l)' = Content(l)
    BY <1>1, <1>4, ContentIs, ContentIsNext, NothingUnder
  <2>2. QueueStep
    BY <1>4, <2>1, EmptyRefines
  <2>3. IInv'
    BY <1>1, <1>4 DEF IInv, Typed, Counted, TreeFilled, OneStore
  <2> QED BY <2>2, <2>3
<1>5. CASE /\ DOMAIN bucket = {}
           /\ \E i \in LeastNodes : out' = heap[i] /\ heap' = RemoveAt(heap, i)
           /\ UNCHANGED <<bucket, lowest, size>>
  <2>1. PICK i \in LeastNodes : out' = heap[i] /\ heap' = RemoveAt(heap, i)
    BY <1>5
  <2>2. \A l \in Key : Content(l) = Held(heap, l) /\ Content(l)' = Held(heap', l)
    BY <1>1, <1>5, ContentIs, ContentIsNext
  <2>3. heap' \in Seq(Nodes) /\ QueueStep
    BY <1>1, <2>1, <2>2, LeastTaken
  <2>4. OneStore'
    BY <1>1, <1>5 DEF OneStore
  <2>5. IInv'
    BY <1>1, <1>5, <2>3, <2>4, OtherStore
  <2> QED BY <2>3, <2>5
<1> QED BY <1>2, <1>3, <1>4, <1>5 DEF PrioPop, IsHeap

-----------------------------------------------------------------------------
(* The theorem *)

\* Every step keeps the invariant and is one of the abstract queue.
LEMMA NextStep ==
    ASSUME Sizes, IInv, ListNext
    PROVE  IInv' /\ QueueStep
<1>1. kind' = kind
    BY DEF ListNext
<1>2. CASE \E k \in Key, v \in Val : Push(k, v)
  <2>1. PICK k \in Key, v \in Val : Push(k, v)
    BY <1>2
  <2>2. CASE BucketPush(k, v)
    BY <1>1, <2>2, BucketPushStep
  <2>3. CASE TreePush(k, v)
    BY <1>1, <2>3, TreePushStep
  <2>4. CASE HeapPush(k, v)
    BY <1>1, <2>4, HeapPushStep
  <2>5. CASE FifoPush(v)
    BY <1>1, <2>5, FifoPushStep
  <2>6. CASE PrioPush(k, v)
    BY <1>1, <2>6, PrioPushStep
  <2> QED BY <2>1, <2>2, <2>3, <2>4, <2>5, <2>6 DEF Push
<1>3. CASE Pop
  <2>1. CASE BucketPop
    BY <1>1, <2>1, BucketPopStep
  <2>2. CASE TreePop
    BY <1>1, <2>2, TreePopStep
  <2>3. CASE HeapPop
    BY <1>1, <2>3, HeapPopStep
  <2>4. CASE FifoPop
    BY <1>1, <2>4, FifoPopStep
  <2>5. CASE PrioPop
    BY <1>1, <2>5, PrioPopStep
  <2> QED BY <1>3, <2>1, <2>2, <2>3, <2>4, <2>5 DEF Pop
<1>4. CASE Clear
  <2>1. CASE TreeClear
    BY <1>1, <2>1, TreeClearStep
  <2>2. CASE HeapClear \/ FifoClear
    BY <1>1, <2>2, ClearedStep DEF HeapClear, FifoClear
  <2> QED BY <1>4, <2>1, <2>2 DEF Clear
<1> QED BY <1>2, <1>3, <1>4 DEF ListNext

\* Every list is a queue, for every array size, key range and set of values
\* (src/list_lazy_*.c, src/list_tiebreaking.c, src/prio_queue.c).
THEOREM ListsImplementQueue == ASSUME Sizes PROVE ListSpec => ListsAreQueues
<1>1. ListInit => IInv /\ Abstract!Init
    BY Initially
<1>2. IInv /\ [ListNext]_listVars => IInv'
  <2>1. IInv /\ ListNext => IInv'
    BY NextStep
  <2>2. IInv /\ UNCHANGED listVars => IInv'
    BY DEF listVars, IInv, Typed, Counted, TreeFilled, OneStore
  <2> QED BY <2>1, <2>2
<1>3. IInv /\ [ListNext]_listVars => [QueueStep]_listVars
    BY NextStep
<1> QED BY <1>1, <1>2, <1>3, PTL DEF ListSpec, ListsAreQueues
=============================================================================
