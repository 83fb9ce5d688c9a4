------------------------- MODULE LocalSearchProofs -------------------------
(***************************************************************************)
(* The searches of a single agent (LocalSearch): the plan that is printed   *)
(* can be executed and costs what is reported, A* with an admissible        *)
(* heuristic finds a cheapest one, and an empty open list means that there  *)
(* is none; for any problem, heuristic and number of states.                *)
(*                                                                         *)
(* The lemmas on recursion are those of ListsProofs.                        *)
(***************************************************************************)
EXTENDS LocalSearch, ListsProofs

-----------------------------------------------------------------------------
(* The problem *)

\* The operators of a problem.
LEMMA Operators ==
    ASSUME task \in Problems
    PROVE  /\ Len(task.op) \in Nat /\ Op = 1 .. Len(task.op) /\ None \notin Op
           /\ \A o \in Op : From(o) \in State /\ To(o) \in State /\ Cost(o) \in Nat
           /\ task.goal \subseteq State /\ task.h \in [State -> 0 .. DeadEnd]
<1>1. /\ task.op \in Seq([from : State, to : State, cost : Nat])
      /\ task.goal \subseteq State /\ task.h \in [State -> 0 .. DeadEnd]
  BY ProblemAssumption
<1>2. Len(task.op) \in Nat /\ DOMAIN task.op = 1 .. Len(task.op)
  BY <1>1
<1>3. \A o \in DOMAIN task.op : task.op[o] \in [from : State, to : State, cost : Nat]
  <2> DEFINE S == [from : State, to : State, cost : Nat]
  <2>1. task.op \in Seq(S)
    BY <1>1
  <2> HIDE DEF S
  <2>2. \A o \in DOMAIN task.op : task.op[o] \in S
    BY <1>2, <2>1
  <2> QED BY <2>2 DEF S
<1>4. \A o \in DOMAIN task.op : /\ task.op[o].from \in State /\ task.op[o].to \in State
                               /\ task.op[o].cost \in Nat
  BY <1>3
<1>5. \A o \in Op : From(o) \in State /\ To(o) \in State /\ Cost(o) \in Nat
  BY <1>4 DEF Op, From, To, Cost
<1>6. Op = 1 .. Len(task.op) /\ None \notin Op
  BY <1>2 DEF Op, None
<1> QED BY <1>1, <1>2, <1>5, <1>6

\* The number of states.
LEMMA States ==
    /\ 0 \in State /\ None \notin State /\ DeadEnd \in Nat \ {0}
    /\ Cardinality(State) \in Nat \ {0}
<1>1. IsFiniteSet(State) /\ 0 \in State /\ None \notin State /\ DeadEnd \in Nat \ {0}
  BY StateAssumption, DeadEndAssumption
<1>2. Cardinality(State) \in Nat /\ Cardinality(State) # 0
  BY <1>1, FS_CardinalityType, FS_EmptySet
<1> QED BY <1>1, <1>2

-----------------------------------------------------------------------------
(* The operators that apply in a state *)

\* What is in a sequence.
Elements(q) == {q[i] : i \in DOMAIN q}

LEMMA ElementsAppend ==
    ASSUME NEW S, NEW q \in Seq(S), NEW x \in S
    PROVE  Elements(Append(q, x)) = Elements(q) \cup {x}
<1>1. /\ Append(q, x) \in Seq(S) /\ Len(q) \in Nat /\ Len(Append(q, x)) = Len(q) + 1
      /\ \A i \in 1 .. Len(q) : Append(q, x)[i] = q[i]
      /\ Append(q, x)[Len(q) + 1] = x
  BY AppendProperties
<1>2. DOMAIN Append(q, x) = 1 .. Len(q) + 1 /\ DOMAIN q = 1 .. Len(q)
  BY <1>1
<1> QED BY <1>1, <1>2 DEF Elements

\* What is in two sequences, one after the other.
LEMMA ElementsConcat ==
    ASSUME NEW S, NEW p \in Seq(S), NEW q \in Seq(S)
    PROVE  Elements(p \o q) = Elements(p) \cup Elements(q)
<1>1. /\ p \o q \in Seq(S) /\ Len(p) \in Nat /\ Len(q) \in Nat /\ Len(p \o q) = Len(p) + Len(q)
      /\ \A i \in 1 .. Len(p) + Len(q) :
            (p \o q)[i] = IF i <= Len(p) THEN p[i] ELSE q[i - Len(p)]
  BY ConcatProperties
<1>2. /\ DOMAIN (p \o q) = 1 .. Len(p) + Len(q)
      /\ DOMAIN p = 1 .. Len(p) /\ DOMAIN q = 1 .. Len(q)
  BY <1>1
<1>3. ASSUME NEW i \in DOMAIN q
      PROVE  i + Len(p) \in DOMAIN (p \o q) /\ (p \o q)[i + Len(p)] = q[i]
  BY <1>1, <1>2
<1>4. \A i \in DOMAIN p : i \in DOMAIN (p \o q) /\ (p \o q)[i] = p[i]
  BY <1>1, <1>2
<1>5. Elements(p \o q) \subseteq Elements(p) \cup Elements(q)
  BY <1>1, <1>2 DEF Elements
<1>6. Elements(p) \subseteq Elements(p \o q)
  BY <1>4 DEF Elements
<1>7. Elements(q) \subseteq Elements(p \o q)
  BY <1>3 DEF Elements
<1> QED BY <1>5, <1>6, <1>7

\* What is in a sequence from which element i was taken.
LEMMA ElementsRemove ==
    ASSUME NEW S, NEW q \in Seq(S), NEW i \in DOMAIN q
    PROVE  /\ RemoveAt(q, i) \in Seq(S)
           /\ Elements(RemoveAt(q, i)) \subseteq Elements(q)
           /\ \A x \in Elements(q) : x # q[i] => x \in Elements(RemoveAt(q, i))
<1>1. Len(q) \in Nat /\ DOMAIN q = 1 .. Len(q) /\ i \in 1 .. Len(q)
  OBVIOUS
<1> DEFINE b == SubSeq(q, 1, i - 1)
           a == SubSeq(q, i + 1, Len(q))
<1>2. b \in Seq(S) /\ Len(b) = i - 1 /\ \A j \in 1 .. i - 1 : b[j] = q[j]
  BY <1>1, SubSeqProperties
<1>3. a \in Seq(S) /\ Len(a) = Len(q) - i /\ \A j \in 1 .. Len(q) - i : a[j] = q[i + j]
  <2>1. i + 1 \in Int /\ Len(q) \in Int /\ \A j \in i + 1 .. Len(q) : q[j] \in S
    BY <1>1
  <2>2. /\ a \in Seq(S) /\ Len(a) = IF i + 1 <= Len(q) THEN Len(q) - (i + 1) + 1 ELSE 0
        /\ \A j \in 1 .. Len(q) - (i + 1) + 1 : a[j] = q[i + 1 + j - 1]
    BY <2>1, SubSeqProperties
  <2> HIDE DEF a
  <2>3. i + 1 <= Len(q) \/ i = Len(q)
    BY <1>1
  <2>4. \A j \in 1 .. Len(q) - i : i + 1 + j - 1 = i + j /\ j \in 1 .. Len(q) - (i + 1) + 1
    BY <1>1
  <2> QED BY <1>1, <2>2, <2>3, <2>4
<1>4. RemoveAt(q, i) = b \o a
  BY DEF RemoveAt
<1>5. Elements(b) = {q[j] : j \in 1 .. i - 1}
  BY <1>1, <1>2 DEF Elements
<1>6. Elements(a) = {q[j] : j \in i + 1 .. Len(q)}
  <2>0. DOMAIN a = 1 .. Len(q) - i
    BY <1>1, <1>3
  <2>4. \A j \in 1 .. Len(q) - i : a[j] = q[i + j]
    BY <1>3
  <2> HIDE DEF a
  <2>1. Elements(a) = {q[i + j] : j \in 1 .. Len(q) - i}
    BY <2>0, <2>4 DEF Elements
  <2>2. \A j \in i + 1 .. Len(q) : j - i \in 1 .. Len(q) - i /\ q[i + (j - i)] = q[j]
    BY <1>1
  <2>3. \A j \in 1 .. Len(q) - i : i + j \in i + 1 .. Len(q)
    BY <1>1
  <2> QED BY <2>1, <2>2, <2>3
<1> HIDE DEF a, b
<1>7. Elements(b \o a) = Elements(b) \cup Elements(a) /\ b \o a \in Seq(S)
  BY <1>2, <1>3, ElementsConcat, ConcatProperties
<1>8. Elements(q) = {q[j] : j \in 1 .. Len(q)}
  BY <1>1 DEF Elements
<1>9. \A j \in 1 .. Len(q) : j \in 1 .. i - 1 \/ j = i \/ j \in i + 1 .. Len(q)
  BY <1>1
<1>10. \A j \in 1 .. i - 1 : j \in 1 .. Len(q)
  BY <1>1
<1>11. \A j \in i + 1 .. Len(q) : j \in 1 .. Len(q)
  BY <1>1
<1> QED BY <1>4, <1>5, <1>6, <1>7, <1>8, <1>9, <1>10, <1>11

\* Found goes on with operator n of the problem.
FindsNext(s) == [n \in 1 .. Len(task.op) |-> [q \in Seq(Op) |->
                   IF From(n) = s THEN Append(q, n) ELSE q]]

LEMMA FoundUnfolds ==
    ASSUME task \in Problems, NEW s \in State
    PROVE  \E c : /\ \A i \in 0 .. Len(task.op) :
                       c[i] = IF i = 0 THEN <<>> ELSE
                                IF From(i) = s THEN Append(c[i - 1], i) ELSE c[i - 1]
                 /\ Found(s) = c[Len(task.op)]
<1> DEFINE n == Len(task.op)
           R(f) == [i \in 0 .. n |-> IF i = 0 THEN <<>> ELSE
                       IF From(i) = s THEN Append(f[i - 1], i) ELSE f[i - 1]]
           c == CHOOSE f : f = R(f)
<1>1. n \in Nat /\ Op = 1 .. n
  BY Operators
<1>2. <<>> \in Seq(Op)
  OBVIOUS
<1>3. FindsNext(s) \in [1 .. n -> [Seq(Op) -> Seq(Op)]]
  <2>1. ASSUME NEW i \in 1 .. n, NEW q \in Seq(Op)
        PROVE  (IF From(i) = s THEN Append(q, i) ELSE q) \in Seq(Op)
    <3>1. i \in Op
      BY <1>1
    <3>2. Append(q, i) \in Seq(Op)
      BY <3>1, AppendProperties
    <3> QED BY <3>2
  <2>2. \A i \in 1 .. n : [q \in Seq(Op) |-> IF From(i) = s THEN Append(q, i) ELSE q]
                             \in [Seq(Op) -> Seq(Op)]
    BY <2>1
  <2> QED BY <2>2 DEF FindsNext
<1>4. PICK f \in [0 .. n -> Seq(Op)] : Unfolds(f, <<>>, n, FindsNext(s))
  BY <1>1, <1>2, <1>3, Unfolding
<1>5. f = R(f)
  <2>1. ASSUME NEW i \in 0 .. n
        PROVE  f[i] = IF i = 0 THEN <<>> ELSE
                        IF From(i) = s THEN Append(f[i - 1], i) ELSE f[i - 1]
    <3>1. CASE i = 0
      BY <1>4, <3>1 DEF Unfolds
    <3>2. CASE i # 0
      <4>1. i \in 1 .. n /\ i - 1 \in 0 .. n
        BY <1>1, <3>2
      <4>2. f[i] = FindsNext(s)[i][f[i - 1]] /\ f[i - 1] \in Seq(Op)
        BY <1>4, <3>2, <4>1 DEF Unfolds
      <4> QED BY <3>2, <4>1, <4>2 DEF FindsNext
    <3> QED BY <3>1, <3>2
  <2> QED BY <2>1
<1>6. c = R(c)
  <2> HIDE DEF R
  <2> QED BY <1>5
<1>7. Found(s) = c[n]
  BY DEF Found
<1> HIDE DEF c
<1>8. \A i \in 0 .. n : c[i] = IF i = 0 THEN <<>> ELSE
                        IF From(i) = s THEN Append(c[i - 1], i) ELSE c[i - 1]
  BY <1>6
<1> QED BY <1>7, <1>8

\* Found gives the operators that leave s.
LEMMA FoundAll ==
    ASSUME task \in Problems, NEW s \in State
    PROVE  /\ Found(s) \in Seq(Op)
           /\ Elements(Found(s)) = {o \in Op : From(o) = s}
<1> DEFINE n == Len(task.op)
<1>1. n \in Nat /\ Op = 1 .. n
  BY Operators
<1>2. PICK c : /\ \A i \in 0 .. n : c[i] = IF i = 0 THEN <<>> ELSE
                        IF From(i) = s THEN Append(c[i - 1], i) ELSE c[i - 1]
               /\ Found(s) = c[n]
  BY FoundUnfolds
<1> DEFINE T == {i \in 0 .. n : /\ c[i] \in Seq(Op)
                               /\ Elements(c[i]) = {o \in 1 .. i : From(o) = s}}
<1>3. 0 \in T
  <2>1. c[0] = <<>>
    BY <1>1, <1>2
  <2>2. Elements(<<>>) = {}
    BY DEF Elements
  <2>3. {o \in 1 .. 0 : From(o) = s} = {}
    OBVIOUS
  <2>4. <<>> \in Seq(Op) /\ 0 \in 0 .. n
    BY <1>1
  <2> QED BY <2>1, <2>2, <2>3, <2>4
<1>4. ASSUME NEW i \in 1 .. n, i - 1 \in T
      PROVE  i \in T
  <2> DEFINE q == c[i - 1]
  <2>1. i - 1 \in 0 .. n /\ i \in 0 .. n /\ i # 0 /\ i \in Op
    BY <1>1
  <2>2. c[i] = IF From(i) = s THEN Append(q, i) ELSE q
    BY <1>2, <2>1
  <2>3. q \in Seq(Op) /\ Elements(q) = {o \in 1 .. i - 1 : From(o) = s}
    BY <1>4
  <2> HIDE DEF q
  <2>4. CASE From(i) = s
    <3>1. c[i] = Append(q, i)
      BY <2>2, <2>4
    <3>2. Append(q, i) \in Seq(Op)
      BY <2>1, <2>3, AppendProperties
    <3>3. Elements(Append(q, i)) = Elements(q) \cup {i}
      BY <2>1, <2>3, ElementsAppend
    <3>4. {o \in 1 .. i : From(o) = s} = {o \in 1 .. i - 1 : From(o) = s} \cup {i}
      BY <1>1, <2>4
    <3> QED BY <2>1, <2>3, <3>1, <3>2, <3>3, <3>4
  <2>5. CASE From(i) # s
    <3>1. {o \in 1 .. i : From(o) = s} = {o \in 1 .. i - 1 : From(o) = s}
      BY <1>1, <2>5
    <3> QED BY <2>1, <2>2, <2>3, <2>5, <3>1
  <2> QED BY <2>4, <2>5
<1>5. n \in T
  <2> HIDE DEF T
  <2> QED BY <1>1, <1>3, <1>4, Counting
<1> QED BY <1>1, <1>2, <1>5

-----------------------------------------------------------------------------
(* The operators a heuristic prefers *)

\* A selection that is going on.
Selection(L) == {sel \in [ops : Seq(Op), ins : Nat, cur : Nat] :
                   /\ 1 <= sel.ins /\ sel.ins <= sel.cur /\ sel.ins <= Len(sel.ops) + 1
                   /\ Elements(sel.ops) = L}

\* A selected operator takes its place among those selected, none gets lost.
LEMMA SelectKeeps ==
    ASSUME NEW L, NEW sel \in Selection(L), NEW o
    PROVE  Select(sel, o) \in Selection(L)
<1> DEFINE at == {i \in DOMAIN sel.ops : i >= sel.cur /\ sel.ops[i] = o}
<1>1. /\ sel.ops \in Seq(Op) /\ sel.ins \in Nat /\ sel.cur \in Nat
      /\ 1 <= sel.ins /\ sel.ins <= sel.cur /\ sel.ins <= Len(sel.ops) + 1
      /\ Elements(sel.ops) = L
  BY DEF Selection
<1>2. CASE at = {}
  BY <1>2 DEF Select
<1>3. CASE at # {}
  <2> DEFINE i == CHOOSE j \in at : TRUE
             k == sel.ins
             p == sel.ops
             q == Swapped(p, k, i)
  <2>1. i \in at
    BY <1>3
  <2> HIDE DEF i
  <2>2. Len(p) \in Nat /\ DOMAIN p = 1 .. Len(p) /\ \A j \in 1 .. Len(p) : p[j] \in Op
    BY <1>1
  <2>3. i \in 1 .. Len(p) /\ k \in 1 .. Len(p) /\ k <= i /\ i \in Nat
    BY <1>1, <2>1, <2>2
  <2>4. /\ DOMAIN q = 1 .. Len(p)
        /\ \A j \in 1 .. Len(p) : q[j] = IF j = i THEN p[k] ELSE IF j = k THEN p[i] ELSE p[j]
    BY <2>2, <2>3 DEF Swapped
  <2>5. q = [j \in 1 .. Len(p) |-> q[j]] /\ \A j \in 1 .. Len(p) : q[j] \in Op
    BY <2>2, <2>3, <2>4 DEF Swapped
  <2> HIDE DEF q
  <2>6. q \in Seq(Op) /\ Len(q) = Len(p)
    <3>1. q \in [1 .. Len(p) -> Op] /\ Len(p) \in Nat
      BY <2>2, <2>5
    <3>2. q \in Seq(Op)
      BY <3>1
    <3> QED BY <3>1, <3>2
  <2>7. Elements(q) = {q[j] : j \in 1 .. Len(p)} /\ Elements(p) = {p[j] : j \in 1 .. Len(p)}
    BY <2>2, <2>4 DEF Elements
  <2>8. Elements(q) = Elements(p)
    <3>1. \A j \in 1 .. Len(p) : \E l \in 1 .. Len(p) : q[j] = p[l]
      BY <2>3, <2>4
    <3>2. \A j \in 1 .. Len(p) : \E l \in 1 .. Len(p) : p[j] = q[l]
      <4>1. q[k] = p[i] /\ q[i] = p[k]
        BY <2>3, <2>4
      <4>2. \A j \in 1 .. Len(p) : j # i /\ j # k => q[j] = p[j]
        BY <2>4
      <4> QED BY <2>3, <4>1, <4>2
    <3>3. Elements(q) \subseteq Elements(p)
      BY <2>7, <3>1
    <3>4. Elements(p) \subseteq Elements(q)
      BY <2>7, <3>2
    <3> QED BY <3>3, <3>4
  <2>9. Select(sel, o) = [ops |-> q, ins |-> k + 1, cur |-> i + 1]
    BY <1>3 DEF Select, i, q
  <2> QED BY <1>1, <2>3, <2>6, <2>8, <2>9 DEF Selection
<1> QED BY <1>2, <1>3

\* Selected goes on with operator n of the problem.
SelectsNext(L) == [n \in 1 .. Len(task.op) |-> [sel \in Selection(L) |->
                     IF n \in task.pref THEN Select(sel, n) ELSE sel]]

\* Selected gives the same operators as Found.
LEMMA SelectedAll ==
    ASSUME task \in Problems, NEW s \in State
    PROVE  Selected(s) \in Selection(Elements(Found(s)))
<1> DEFINE n == Len(task.op)
           L == Elements(Found(s))
           first == [ops |-> Found(s), ins |-> 1, cur |-> 1]
           R(f) == [i \in 0 .. n |-> IF i = 0 THEN first ELSE
                       IF i \in task.pref THEN Select(f[i - 1], i) ELSE f[i - 1]]
           c == CHOOSE f : f = R(f)
<1>1. n \in Nat /\ Op = 1 .. n
  BY Operators
<1>2. first \in Selection(L)
  <2>1. Found(s) \in Seq(Op) /\ Len(Found(s)) \in Nat
    BY FoundAll
  <2> QED BY <2>1 DEF Selection
<1> HIDE DEF first
<1>3. SelectsNext(L) \in [1 .. n -> [Selection(L) -> Selection(L)]]
  BY SelectKeeps DEF SelectsNext
<1>4. PICK f \in [0 .. n -> Selection(L)] : Unfolds(f, first, n, SelectsNext(L))
  <2> HIDE DEF L
  <2> QED BY <1>1, <1>2, <1>3, Unfolding
<1>5. f = R(f)
  <2>1. ASSUME NEW i \in 0 .. n
        PROVE  f[i] = IF i = 0 THEN first ELSE
                        IF i \in task.pref THEN Select(f[i - 1], i) ELSE f[i - 1]
    <3>1. CASE i = 0
      BY <1>4, <3>1 DEF Unfolds
    <3>2. CASE i # 0
      <4>1. i \in 1 .. n /\ i - 1 \in 0 .. n
        BY <1>1, <3>2
      <4>2. f[i] = SelectsNext(L)[i][f[i - 1]] /\ f[i - 1] \in Selection(L)
        BY <1>4, <3>2, <4>1 DEF Unfolds
      <4> HIDE DEF L
      <4> QED BY <3>2, <4>1, <4>2 DEF SelectsNext
    <3> QED BY <3>1, <3>2
  <2> QED BY <2>1
<1>6. c = R(c)
  <2> HIDE DEF R
  <2> QED BY <1>5
<1>7. Selected(s) = c[n]
  BY DEF Selected, first
<1> HIDE DEF c, L
<1>8. \A i \in 0 .. n : c[i] = IF i = 0 THEN first ELSE
                        IF i \in task.pref THEN Select(c[i - 1], i) ELSE c[i - 1]
  BY <1>6
<1> DEFINE T == {i \in 0 .. n : c[i] \in Selection(L)}
<1>9. 0 \in T
  BY <1>1, <1>2, <1>8
<1>10. ASSUME NEW i \in 1 .. n, i - 1 \in T
       PROVE  i \in T
  <2>1. i \in 0 .. n /\ i # 0 /\ c[i - 1] \in Selection(L)
    BY <1>1, <1>10
  <2> QED BY <1>8, <2>1, SelectKeeps
<1>11. n \in T
  <2> HIDE DEF T
  <2> QED BY <1>1, <1>9, <1>10, Counting
<1> QED BY <1>7, <1>11 DEF L

\* A state is expanded by operators that leave it, and by all of them unless
\* only preferred ones are used.
LEMMA ExpandingAll ==
    ASSUME task \in Problems, alg \in Algorithms, NEW s \in State
    PROVE  /\ Expanding(s) \in Seq(Op)
           /\ \A o \in Elements(Expanding(s)) : o \in Op /\ From(o) = s
           /\ alg.pref # "only" => \A o \in Op : From(o) = s => o \in Elements(Expanding(s))
<1>1. Found(s) \in Seq(Op) /\ Elements(Found(s)) = {o \in Op : From(o) = s}
  BY FoundAll
<1> DEFINE sel == Selected(s)
<1>2. /\ sel.ops \in Seq(Op) /\ sel.ins \in Nat /\ 1 <= sel.ins /\ sel.ins <= Len(sel.ops) + 1
      /\ Elements(sel.ops) = Elements(Found(s))
  BY SelectedAll DEF Selection
<1> HIDE DEF sel
<1>3. alg.pref \in {"no", "yes", "only"}
  BY AlgorithmAssumption
<1>4. CASE alg.pref = "no"
  BY <1>1, <1>4 DEF Expanding
<1>5. CASE alg.pref = "yes"
  BY <1>1, <1>2, <1>5 DEF Expanding, sel
<1>6. CASE alg.pref = "only"
  <2> DEFINE q == SubSeq(sel.ops, 1, sel.ins - 1)
  <2>1. Expanding(s) = q
    BY <1>6 DEF Expanding, sel
  <2>2. Len(sel.ops) \in Nat /\ DOMAIN sel.ops = 1 .. Len(sel.ops)
    BY <1>2
  <2>3. q \in Seq(Op) /\ Len(q) = sel.ins - 1 /\ \A i \in 1 .. sel.ins - 1 : q[i] = sel.ops[i]
    BY <1>2, <2>2, SubSeqProperties
  <2>4. DOMAIN q = 1 .. sel.ins - 1
    BY <2>3
  <2>5. Elements(q) \subseteq Elements(sel.ops)
    BY <1>2, <2>2, <2>3, <2>4 DEF Elements
  <2> HIDE DEF q
  <2> QED BY <1>1, <1>2, <1>6, <2>1, <2>3, <2>5
<1> QED BY <1>3, <1>4, <1>5, <1>6

-----------------------------------------------------------------------------
(* Nodes and entries; the operators of a state that A* expands *)

NodeType == {n \in [state : {"new", "open", "closed"}, parent : State \cup {None},
                    op : Op \cup {None}, cost : Int, h : Int] :
               n.op # None => n.parent \in State}
EntryType == [key : Int \X Int, state : State, op : Op \cup {None}]
AccType == [after : [State -> NodeType], openList : Seq(EntryType)]

\* What one operator changes.
LEMMA GenerateType ==
    ASSUME task \in Problems, nodes \in [State -> NodeType], NEW acc \in AccType, NEW o \in Op
    PROVE  Generate(acc, o) \in AccType
<1> DEFINE s == To(o)
           g == nodes[From(o)].cost + Cost(o)
           h == HeurOf(acc.after, s, o)
           n == [state |-> "open", parent |-> From(o), op |-> o, cost |-> g, h |-> h]
           e == Entry(g + Larger(h, 0), Larger(h, 0), s, None)
<1>1. /\ From(o) \in State /\ s \in State /\ Cost(o) \in Nat /\ o # None
      /\ task.h[s] \in Int
  BY Operators
<1>2. nodes[From(o)].cost \in Int /\ nodes[From(o)].h \in Int /\ acc.after[s].h \in Int
  BY <1>1 DEF NodeType, AccType
<1>3. g \in Int
  BY <1>1, <1>2
<1>4. h \in Int
  BY <1>1, <1>2 DEF HeurOf, Pathmax, Larger
<1>5. n \in NodeType
  BY <1>1, <1>3, <1>4 DEF NodeType
<1>6. e \in EntryType
  BY <1>1, <1>3, <1>4 DEF EntryType, Entry, Larger
<1>7. InsertState(acc, s, o) =
        [after |-> [acc.after EXCEPT ![s] = n],
         openList |-> IF h = DeadEnd THEN acc.openList ELSE Append(acc.openList, e)]
  BY <1>1 DEF InsertState, Opened
<1> HIDE DEF n, e, h, g, s
<1>8. InsertState(acc, s, o) \in AccType
  BY <1>1, <1>5, <1>6, <1>7 DEF AccType
<1> QED BY <1>8 DEF Generate, s

\* GenerateAll takes one operator after the other.
LEMMA GenerateAllUnfolds ==
    ASSUME task \in Problems, nodes \in [State -> NodeType],
           NEW first \in AccType, NEW ops \in Seq(Op)
    PROVE  \E c \in [0 .. Len(ops) -> AccType] :
              /\ c[0] = first
              /\ \A i \in 1 .. Len(ops) : c[i] = Generate(c[i - 1], ops[i])
              /\ GenerateAll(first, ops) = c[Len(ops)]
<1> DEFINE n == Len(ops)
           F == [i \in 1 .. n |-> [acc \in AccType |-> Generate(acc, ops[i])]]
           R(f) == [i \in 0 .. n |-> IF i = 0 THEN first ELSE Generate(f[i - 1], ops[i])]
           c == CHOOSE f : f = R(f)
<1>1. n \in Nat /\ \A i \in 1 .. n : ops[i] \in Op
  OBVIOUS
<1>2. F \in [1 .. n -> [AccType -> AccType]]
  BY <1>1, GenerateType
<1>3. PICK f \in [0 .. n -> AccType] : Unfolds(f, first, n, F)
  <2> HIDE DEF F
  <2> QED BY <1>1, <1>2, Unfolding
<1>4. f = R(f)
  <2>1. ASSUME NEW i \in 0 .. n
        PROVE  f[i] = IF i = 0 THEN first ELSE Generate(f[i - 1], ops[i])
    <3>1. CASE i = 0
      BY <1>3, <3>1 DEF Unfolds
    <3>2. CASE i # 0
      <4>1. i \in 1 .. n /\ i - 1 \in 0 .. n
        BY <1>1, <3>2
      <4>2. f[i] = F[i][f[i - 1]] /\ f[i - 1] \in AccType
        BY <1>3, <3>2, <4>1 DEF Unfolds
      <4> QED BY <3>2, <4>1, <4>2
    <3> QED BY <3>1, <3>2
  <2> QED BY <2>1
<1>5. c = R(c)
  <2> HIDE DEF R
  <2> QED BY <1>4
<1>6. GenerateAll(first, ops) = c[n]
  BY DEF GenerateAll
<1> HIDE DEF c
<1>7. \A i \in 0 .. n : c[i] = IF i = 0 THEN first ELSE Generate(c[i - 1], ops[i])
  BY <1>5
<1> DEFINE T == {i \in 0 .. n : c[i] \in AccType}
<1>8. 0 \in T
  BY <1>1, <1>7
<1>9. ASSUME NEW i \in 1 .. n, i - 1 \in T
      PROVE  i \in T
  BY <1>1, <1>7, <1>9, GenerateType
<1>10. \A i \in 0 .. n : c[i] \in AccType
  <2>1. ASSUME NEW i \in 0 .. n
        PROVE  i \in T
    <3>1. i \in Nat /\ \A k \in 1 .. i : k - 1 \in T => k \in T
      BY <1>1, <1>9
    <3> HIDE DEF T
    <3> QED BY <1>8, <3>1, Counting
  <2> QED BY <2>1
<1>11. c \in [0 .. n -> AccType]
  BY <1>5, <1>10
<1>12. c[0] = first /\ \A i \in 1 .. n : c[i] = Generate(c[i - 1], ops[i])
  BY <1>1, <1>7
<1> QED BY <1>6, <1>11, <1>12

-----------------------------------------------------------------------------
(* The way back from a node *)

LEMMA WayUnfolds ==
    ASSUME task \in Problems, NEW N \in [State -> NodeType], NEW goal \in State
    PROVE  \E c : /\ \A n \in 0 .. Cardinality(State) : \A s \in State :
                       c[n][s] = IF N[s].op = None \/ n = 0 THEN <<>>
                                 ELSE Append(c[n - 1][N[s].parent], N[s].op)
                  /\ Way(N, goal) = c[Cardinality(State)][goal]
<1> DEFINE K == Cardinality(State)
           S == [State -> Seq(Op)]
           next(w) == [s \in State |-> IF N[s].op = None THEN <<>>
                                       ELSE Append(w[N[s].parent], N[s].op)]
           zero == [s \in State |-> <<>>]
           F == [i \in 1 .. K |-> [w \in S |-> next(w)]]
           R(f) == [n \in 0 .. K |-> [s \in State |->
                      IF N[s].op = None \/ n = 0 THEN <<>>
                      ELSE Append(f[n - 1][N[s].parent], N[s].op)]]
           c == CHOOSE f : f = R(f)
<1>1. K \in Nat
  BY States
<1>2. zero \in S
  OBVIOUS
<1>3. F \in [1 .. K -> [S -> S]]
  <2>1. ASSUME NEW w \in S, NEW s \in State
        PROVE  (IF N[s].op = None THEN <<>> ELSE Append(w[N[s].parent], N[s].op)) \in Seq(Op)
    <3>1. CASE N[s].op = None
      BY <3>1
    <3>2. CASE N[s].op # None
      <4>1. N[s].op \in Op /\ N[s].parent \in State
        BY <3>2 DEF NodeType
      <4>2. w[N[s].parent] \in Seq(Op)
        BY <4>1
      <4> QED BY <3>2, <4>1, <4>2, AppendProperties
    <3> QED BY <3>1, <3>2
  <2>2. \A w \in S : next(w) \in S
    BY <2>1
  <2> HIDE DEF next, S
  <2> QED BY <2>2
<1>4. PICK f \in [0 .. K -> S] : Unfolds(f, zero, K, F)
  <2> HIDE DEF F, S, zero
  <2> QED BY <1>1, <1>2, <1>3, Unfolding
<1>5. f = R(f)
  <2>1. ASSUME NEW i \in 0 .. K
        PROVE  f[i] = [s \in State |-> IF N[s].op = None \/ i = 0 THEN <<>>
                                       ELSE Append(f[i - 1][N[s].parent], N[s].op)]
    <3>1. CASE i = 0
      BY <1>4, <3>1 DEF Unfolds
    <3>2. CASE i # 0
      <4>1. i \in 1 .. K /\ i - 1 \in 0 .. K
        BY <1>1, <3>2
      <4>2. f[i] = F[i][f[i - 1]] /\ f[i - 1] \in S
        <5> HIDE DEF F, S
        <5> QED BY <1>4, <3>2, <4>1 DEF Unfolds
      <4>3. f[i] = next(f[i - 1])
        <5> HIDE DEF next, S
        <5> QED BY <4>1, <4>2
      <4> QED BY <3>2, <4>3
    <3> QED BY <3>1, <3>2
  <2> QED BY <2>1
<1>6. c = R(c)
  <2> HIDE DEF R
  <2> QED BY <1>5
<1>7. Way(N, goal) = c[K][goal]
  BY DEF Way
<1> HIDE DEF c
<1>8. \A n \in 0 .. K :
         c[n] = [s \in State |-> IF N[s].op = None \/ n = 0 THEN <<>>
                                ELSE Append(c[n - 1][N[s].parent], N[s].op)]
  BY <1>6
<1>9. ASSUME NEW n \in 0 .. K, NEW s \in State
      PROVE  c[n][s] = IF N[s].op = None \/ n = 0 THEN <<>>
                       ELSE Append(c[n - 1][N[s].parent], N[s].op)
  BY <1>8
<1> QED BY <1>7, <1>9

-----------------------------------------------------------------------------
(* The cost of a path *)

LEMMA CostUnfolds ==
    ASSUME task \in Problems, NEW p \in Seq(Op)
    PROVE  \E c \in [0 .. Len(p) -> Nat] :
              /\ c[0] = 0 /\ \A i \in 1 .. Len(p) : c[i] = c[i - 1] + Cost(p[i])
              /\ CostOf(task, p) = c[Len(p)]
<1> DEFINE n == Len(p)
           F == [i \in 1 .. n |-> [x \in Nat |-> x + Cost(p[i])]]
           R(f) == [i \in 0 .. n |-> IF i = 0 THEN 0 ELSE f[i - 1] + Cost(p[i])]
           c == CHOOSE f : f = R(f)
<1>0. n \in Nat /\ \A i \in 1 .. n : p[i] \in Op
  OBVIOUS
<1>1. n \in Nat /\ \A i \in 1 .. n : Cost(p[i]) \in Nat
  BY <1>0, Operators
<1>2. F \in [1 .. n -> [Nat -> Nat]]
  BY <1>1
<1>3. PICK f \in [0 .. n -> Nat] : Unfolds(f, 0, n, F)
  <2> HIDE DEF F
  <2> QED BY <1>1, <1>2, Unfolding
<1>4. f = R(f)
  <2>1. ASSUME NEW i \in 0 .. n
        PROVE  f[i] = IF i = 0 THEN 0 ELSE f[i - 1] + Cost(p[i])
    <3>1. CASE i = 0
      BY <1>3, <3>1 DEF Unfolds
    <3>2. CASE i # 0
      <4>1. i \in 1 .. n /\ i - 1 \in 0 .. n
        BY <1>1, <3>2
      <4>2. f[i] = F[i][f[i - 1]] /\ f[i - 1] \in Nat
        BY <1>3, <3>2, <4>1 DEF Unfolds
      <4> QED BY <3>2, <4>1, <4>2
    <3> QED BY <3>1, <3>2
  <2> QED BY <2>1
<1>5. c = R(c)
  <2> HIDE DEF R
  <2> QED BY <1>4
<1>6. CostOf(task, p) = c[n]
  BY DEF CostOf, Cost
<1> HIDE DEF c
<1>7. \A i \in 0 .. n : c[i] = IF i = 0 THEN 0 ELSE c[i - 1] + Cost(p[i])
  BY <1>5
<1> DEFINE T == {i \in 0 .. n : c[i] \in Nat}
<1>8. 0 \in T
  BY <1>1, <1>7
<1>9. ASSUME NEW i \in 1 .. n, i - 1 \in T
      PROVE  i \in T
  BY <1>1, <1>7, <1>9
<1>10. \A i \in 0 .. n : c[i] \in Nat
  <2>1. ASSUME NEW i \in 0 .. n
        PROVE  i \in T
    <3>1. i \in Nat /\ \A k \in 1 .. i : k - 1 \in T => k \in T
      BY <1>1, <1>9
    <3> HIDE DEF T
    <3> QED BY <1>8, <3>1, Counting
  <2> QED BY <2>1
<1>11. c \in [0 .. n -> Nat]
  BY <1>5, <1>10
<1>12. c[0] = 0 /\ \A i \in 1 .. n : c[i] = c[i - 1] + Cost(p[i])
  BY <1>1, <1>7
<1> QED BY <1>6, <1>11, <1>12

\* A path costs what its operators cost.
LEMMA CostEmpty ==
    ASSUME task \in Problems
    PROVE  CostOf(task, <<>>) = 0
<1>1. <<>> \in Seq(Op) /\ Len(<<>>) = 0
  OBVIOUS
<1>2. PICK c \in [0 .. Len(<<>>) -> Nat] : c[0] = 0 /\ CostOf(task, <<>>) = c[Len(<<>>)]
  BY <1>1, CostUnfolds
<1> QED BY <1>1, <1>2

LEMMA CostAppend ==
    ASSUME task \in Problems, NEW p \in Seq(Op), NEW o \in Op
    PROVE  CostOf(task, Append(p, o)) = CostOf(task, p) + Cost(o) /\ CostOf(task, p) \in Nat
<1> DEFINE n == Len(p)
           q == Append(p, o)
<1>1. /\ n \in Nat /\ q \in Seq(Op) /\ Len(q) = n + 1 /\ q[n + 1] = o
      /\ \A i \in 1 .. n : q[i] = p[i]
  BY AppendProperties
<1>2. PICK c \in [0 .. Len(p) -> Nat] :
              /\ c[0] = 0 /\ \A i \in 1 .. Len(p) : c[i] = c[i - 1] + Cost(p[i])
              /\ CostOf(task, p) = c[Len(p)]
  BY CostUnfolds
<1>3. PICK d \in [0 .. Len(q) -> Nat] :
              /\ d[0] = 0 /\ \A i \in 1 .. Len(q) : d[i] = d[i - 1] + Cost(q[i])
              /\ CostOf(task, q) = d[Len(q)]
  <2> HIDE DEF q
  <2> QED BY <1>1, CostUnfolds
<1> HIDE DEF q
<1> DEFINE T == {i \in 0 .. n : c[i] = d[i]}
<1>4. 0 \in T
  BY <1>1, <1>2, <1>3
<1>5. ASSUME NEW i \in 1 .. n, i - 1 \in T
      PROVE  i \in T
  <2>1. i \in 1 .. Len(q) /\ c[i - 1] = d[i - 1] /\ q[i] = p[i] /\ i \in 0 .. n
    BY <1>1, <1>5
  <2>2. c[i] = c[i - 1] + Cost(p[i]) /\ d[i] = d[i - 1] + Cost(q[i])
    BY <1>2, <1>3, <2>1
  <2> QED BY <2>1, <2>2
<1>6. n \in T
  <2> HIDE DEF T
  <2> QED BY <1>1, <1>4, <1>5, Counting
<1>7. n + 1 \in 1 .. Len(q) /\ (n + 1) - 1 = n
  BY <1>1
<1>8. d[n + 1] = d[n] + Cost(q[n + 1])
  BY <1>3, <1>7
<1>9. c[n] = d[n] /\ c[n] \in Nat
  BY <1>1, <1>2, <1>6
<1> QED BY <1>1, <1>2, <1>3, <1>8, <1>9 DEF q

-----------------------------------------------------------------------------
(* The tree of the nodes that were reached *)

Reached(N, s) == N[s].state # "new"

\* The node of a state other than the initial one names an operator that leads
\* to it from a state that was reached, and costs at least what this way costs.
Rooted(N) ==
    \A d \in State : Reached(N, d) =>
        IF N[d].op = None THEN d = 0 /\ N[d].cost = 0
        ELSE /\ N[d].op \in Op /\ To(N[d].op) = d /\ N[d].parent = From(N[d].op)
             /\ Reached(N, From(N[d].op))
             /\ N[d].cost >= N[From(N[d].op)].cost + Cost(N[d].op)

\* It costs just that when the node it was reached from is closed.
Exact(N) ==
    \A d \in State : /\ Reached(N, d) /\ N[d].op # None
                     /\ N[From(N[d].op)].state = "closed"
        => N[d].cost = N[From(N[d].op)].cost + Cost(N[d].op)

\* So do all but those reached from p.
ExactBut(N, p) ==
    \A d \in State : /\ Reached(N, d) /\ N[d].op # None /\ From(N[d].op) # p
                     /\ N[From(N[d].op)].state = "closed"
        => N[d].cost = N[From(N[d].op)].cost + Cost(N[d].op)

\* A[d] has all states on the way to d, and maybe those on former ways.
Ancestry(N, A) ==
    /\ A \in [State -> SUBSET State]
    /\ \A d \in State :
          /\ d \notin A[d]
          /\ Reached(N, d) /\ N[d].op # None => From(N[d].op) \in A[d]
          /\ \A a \in A[d] : Reached(N, a) /\ A[a] \subseteq A[d] /\ N[a].cost <= N[d].cost

\* p leads from the initial state to d.
IsPath(p, d) ==
    /\ p \in Seq(Op)
    /\ \A i \in 1 .. Len(p) : From(p[i]) = IF i = 1 THEN 0 ELSE To(p[i - 1])
    /\ d = IF p = <<>> THEN 0 ELSE To(p[Len(p)])

LEMMA PathAppend ==
    ASSUME NEW p, NEW o \in Op, IsPath(p, From(o))
    PROVE  IsPath(Append(p, o), To(o))
<1> DEFINE n == Len(p)
           q == Append(p, o)
<1>1. /\ p \in Seq(Op) /\ \A i \in 1 .. n : From(p[i]) = IF i = 1 THEN 0 ELSE To(p[i - 1])
      /\ From(o) = IF p = <<>> THEN 0 ELSE To(p[n])
  BY DEF IsPath
<1>2. /\ n \in Nat /\ q \in Seq(Op) /\ Len(q) = n + 1 /\ q[n + 1] = o
      /\ \A i \in 1 .. n : q[i] = p[i]
  BY <1>1, AppendProperties
<1>3. p = <<>> <=> n = 0
  BY <1>1, EmptySeq
<1>4. q # <<>>
  <2>1. Len(q) # 0
    BY <1>2
  <2> QED BY <2>1
<1> HIDE DEF q
<1>5. ASSUME NEW i \in 1 .. Len(q)
      PROVE  From(q[i]) = IF i = 1 THEN 0 ELSE To(q[i - 1])
  <2>1. CASE i \in 1 .. n
    <3>1. i # 1 => i - 1 \in 1 .. n
      BY <2>1
    <3> QED BY <1>1, <1>2, <2>1, <3>1
  <2>2. CASE i = n + 1
    <3>1. q[i] = o
      BY <1>2, <2>2
    <3>2. CASE n = 0
      BY <1>1, <1>3, <2>2, <3>1, <3>2
    <3>3. CASE n # 0
      <4>1. i - 1 = n /\ n \in 1 .. n /\ i # 1
        BY <1>2, <2>2, <3>3
      <4>2. q[i - 1] = p[n]
        BY <1>2, <4>1
      <4> QED BY <1>1, <1>3, <3>1, <3>3, <4>1, <4>2
    <3> QED BY <3>2, <3>3
  <2> QED BY <1>2, <2>1, <2>2
<1> QED BY <1>2, <1>4, <1>5 DEF IsPath, q

\* The way back from a node whose predecessors are all closed is a path to it,
\* and costs what the node says.
LEMMA WayIsPath ==
    ASSUME task \in Problems, NEW N \in [State -> NodeType], NEW A,
           NEW goal \in State, Rooted(N), ExactBut(N, goal), Ancestry(N, A),
           Reached(N, goal), \A a \in A[goal] : N[a].state = "closed"
    PROVE  IsPath(Way(N, goal), goal) /\ CostOf(task, Way(N, goal)) = N[goal].cost
<1> DEFINE K == Cardinality(State)
<1>1. PICK c : /\ \A n \in 0 .. K : \A s \in State :
                     c[n][s] = IF N[s].op = None \/ n = 0 THEN <<>>
                               ELSE Append(c[n - 1][N[s].parent], N[s].op)
               /\ Way(N, goal) = c[K][goal]
  BY WayUnfolds
<1>2. IsFiniteSet(State) /\ K \in Nat
  BY StateAssumption, States
<1>3. A \in [State -> SUBSET State]
  BY DEF Ancestry
<1>4. \A d \in State : IsFiniteSet(A[d]) /\ Cardinality(A[d]) \in Nat /\ Cardinality(A[d]) <= K
  <2>1. ASSUME NEW d \in State
        PROVE  IsFiniteSet(A[d]) /\ Cardinality(A[d]) \in Nat /\ Cardinality(A[d]) <= K
    BY <1>2, <1>3, FS_Subset, FS_CardinalityType
  <2> QED BY <2>1
<1> DEFINE Right(n, d) == IsPath(c[n][d], d) /\ CostOf(task, c[n][d]) = N[d].cost
           Closed(d) == Reached(N, d) /\ \A a \in A[d] : N[a].state = "closed" /\ a # goal
           T == {n \in 0 .. K : \A d \in State : Closed(d) /\ Cardinality(A[d]) <= n => Right(n, d)}
<1>5. ASSUME NEW n \in 0 .. K, NEW d \in State, Closed(d), N[d].op = None
      PROVE  Right(n, d)
  <2>1. c[n][d] = <<>>
    BY <1>1, <1>5
  <2>2. d = 0 /\ N[d].cost = 0
    BY <1>5 DEF Rooted
  <2>3. IsPath(<<>>, 0)
    BY DEF IsPath
  <2> QED BY <2>1, <2>2, <2>3, CostEmpty
<1>6. 0 \in T
  <2>1. ASSUME NEW d \in State, Closed(d), Cardinality(A[d]) <= 0
        PROVE  Right(0, d)
    <3>1. A[d] = {}
      BY <1>4, <2>1, FS_EmptySet
    <3>2. N[d].op = None
      BY <2>1, <3>1 DEF Ancestry
    <3> HIDE DEF Right
    <3> QED BY <1>2, <1>5, <2>1, <3>2
  <2> HIDE DEF Right, Closed
  <2> QED BY <1>2, <2>1
<1>7. ASSUME NEW n \in 1 .. K, n - 1 \in T
      PROVE  n \in T
  <2>1. ASSUME NEW d \in State, Closed(d), Cardinality(A[d]) <= n
        PROVE  Right(n, d)
    <3> DEFINE o == N[d].op
               p == From(o)
    <3>1. CASE o = None
      <4> HIDE DEF Right
      <4> QED BY <1>2, <1>5, <2>1, <3>1
    <3>2. CASE o # None
      <4>1. o \in Op /\ To(o) = d /\ N[d].parent = p /\ Reached(N, p)
        BY <2>1, <3>2 DEF Rooted
      <4>2. p \in A[d] /\ p \in State
        BY <1>3, <2>1, <3>2 DEF Ancestry
      <4>3. A[p] \subseteq A[d] /\ p \notin A[p]
        BY <4>2 DEF Ancestry
      <4>4. Cardinality(A[p]) <= n - 1
        <5>1. A[p] \subseteq A[d] \ {p}
          BY <4>3
        <5>2. IsFiniteSet(A[d] \ {p}) /\ Cardinality(A[d] \ {p}) = Cardinality(A[d]) - 1
          BY <1>4, <4>2, FS_RemoveElement
        <5>3. Cardinality(A[p]) <= Cardinality(A[d] \ {p})
          BY <5>1, <5>2, FS_Subset
        <5> QED BY <1>2, <1>4, <2>1, <4>2, <5>2, <5>3
      <4>5. Closed(p)
        BY <2>1, <4>1, <4>3
      <4>6. Right(n - 1, p)
        <5> HIDE DEF Right, Closed, p
        <5> QED BY <1>7, <4>2, <4>4, <4>5
      <4>7. c[n][d] = Append(c[n - 1][p], o)
        <5>1. n \in 0 .. K /\ n # 0
          BY <1>2
        <5> QED BY <1>1, <3>2, <4>1, <5>1
      <4>8. N[d].cost = N[p].cost + Cost(o)
        BY <2>1, <3>2, <4>2 DEF ExactBut
      <4> HIDE DEF o, p
      <4>9. IsPath(Append(c[n - 1][p], o), d)
        BY <4>1, <4>6, PathAppend DEF p
      <4>10. CostOf(task, Append(c[n - 1][p], o)) = N[p].cost + Cost(o)
        BY <4>1, <4>6, CostAppend DEF IsPath
      <4> QED BY <4>7, <4>8, <4>9, <4>10
    <3> QED BY <3>1, <3>2
  <2>2. n \in 0 .. K
    BY <1>2
  <2> HIDE DEF Right, Closed
  <2> QED BY <2>1, <2>2
<1>8. K \in T
  <2> HIDE DEF T
  <2> QED BY <1>2, <1>6, <1>7, Counting
<1>9. Right(K, goal)
  <2>1. Closed(goal) /\ Cardinality(A[goal]) <= K
    BY <1>4 DEF Ancestry
  <2> HIDE DEF Right, Closed
  <2> QED BY <1>8, <2>1
<1> QED BY <1>1, <1>9

-----------------------------------------------------------------------------
(* The cost of the cheapest plan *)

LEMMA MinimumIs ==
    ASSUME NEW S \in SUBSET Nat, S # {}
    PROVE  Minimum(S) \in S /\ \A d \in S : Minimum(S) <= d
<1>1. \E c \in S : \A d \in S : c <= d
  BY Smallest
<1> QED BY <1>1 DEF Minimum

\* What a plan from s can cost when plans from the successors cost w.
Ahead(w, s) == {Infinite} \cup {Cost(o) + w[To(o)] : o \in {p \in Op : From(p) = s}}
Costs == [State -> 0 .. Infinite]

LEMMA AheadLeast ==
    ASSUME task \in Problems, NEW w \in Costs, NEW s \in State
    PROVE  /\ Minimum(Ahead(w, s)) \in 0 .. Infinite
           /\ \A o \in Op : From(o) = s => Minimum(Ahead(w, s)) <= Cost(o) + w[To(o)]
           /\ \/ Minimum(Ahead(w, s)) = Infinite
              \/ \E o \in Op : From(o) = s /\ Minimum(Ahead(w, s)) = Cost(o) + w[To(o)]
<1> DEFINE S == Ahead(w, s)
<1>1. Infinite \in Nat
  BY States DEF Infinite
<1>2. \A o \in Op : To(o) \in State /\ Cost(o) \in Nat /\ w[To(o)] \in Nat
  BY <1>1, Operators DEF Costs
<1>3. S \in SUBSET Nat /\ S # {} /\ Infinite \in S
  BY <1>1, <1>2 DEF Ahead
<1>4. \A o \in Op : From(o) = s => Cost(o) + w[To(o)] \in S
  BY DEF Ahead
<1>5. \A x \in S : x = Infinite \/ \E o \in Op : From(o) = s /\ x = Cost(o) + w[To(o)]
  BY DEF Ahead
<1> DEFINE m == Minimum(S)
<1> HIDE DEF S
<1>6. m \in S /\ \A d \in S : m <= d
  BY <1>3, MinimumIs
<1> HIDE DEF m
<1>7. m \in Nat /\ m <= Infinite
  BY <1>3, <1>6
<1>8. m = Infinite \/ \E o \in Op : From(o) = s /\ m = Cost(o) + w[To(o)]
  BY <1>5, <1>6
<1>9. \A o \in Op : From(o) = s => m <= Cost(o) + w[To(o)]
  BY <1>4, <1>6
<1> QED BY <1>1, <1>7, <1>8, <1>9 DEF m, S

\* One row of Cheapest after another.
LEMMA CheapestUnfolds ==
    ASSUME task \in Problems
    PROVE  /\ Cheapest \in [0 .. Cardinality(State) -> Costs]
           /\ \A n \in 0 .. Cardinality(State) : \A s \in State :
                 Cheapest[n][s] = IF IsGoal(s) THEN 0 ELSE IF n = 0 THEN Infinite
                                  ELSE Minimum(Ahead(Cheapest[n - 1], s))
<1> DEFINE K == Cardinality(State)
           next(w) == [s \in State |-> IF IsGoal(s) THEN 0 ELSE Minimum(Ahead(w, s))]
           zero == [s \in State |-> IF IsGoal(s) THEN 0 ELSE Infinite]
           F == [i \in 1 .. K |-> [w \in Costs |-> next(w)]]
           R(f) == [n \in 0 .. K |-> [s \in State |->
                      IF IsGoal(s) THEN 0 ELSE IF n = 0 THEN Infinite
                      ELSE Minimum(Ahead(f[n - 1], s))]]
           c == CHOOSE f : f = R(f)
<1>1. K \in Nat /\ Infinite \in Nat
  BY States DEF Infinite
<1>2. zero \in Costs
  BY <1>1 DEF Costs
<1>3. \A w \in Costs : next(w) \in Costs
  <2>1. ASSUME NEW w \in Costs, NEW s \in State
        PROVE  (IF IsGoal(s) THEN 0 ELSE Minimum(Ahead(w, s))) \in 0 .. Infinite
    BY <1>1, AheadLeast
  <2> QED BY <2>1 DEF Costs
<1>4. F \in [1 .. K -> [Costs -> Costs]]
  <2> HIDE DEF next
  <2> QED BY <1>3
<1>5. PICK f \in [0 .. K -> Costs] : Unfolds(f, zero, K, F)
  <2> HIDE DEF F, zero
  <2> QED BY <1>1, <1>2, <1>4, Unfolding
<1>6. f = R(f)
  <2>1. ASSUME NEW i \in 0 .. K
        PROVE  f[i] = [s \in State |-> IF IsGoal(s) THEN 0 ELSE IF i = 0 THEN Infinite
                                       ELSE Minimum(Ahead(f[i - 1], s))]
    <3>1. CASE i = 0
      BY <1>5, <3>1 DEF Unfolds
    <3>2. CASE i # 0
      <4>1. i \in 1 .. K /\ i - 1 \in 0 .. K
        BY <1>1, <3>2
      <4>2. f[i] = F[i][f[i - 1]] /\ f[i - 1] \in Costs
        <5> HIDE DEF F
        <5> QED BY <1>5, <3>2, <4>1 DEF Unfolds
      <4>3. f[i] = next(f[i - 1])
        <5> HIDE DEF next
        <5> QED BY <4>1, <4>2
      <4> QED BY <3>2, <4>3
    <3> QED BY <3>1, <3>2
  <2> QED BY <2>1
<1>7. c = R(c)
  <2> HIDE DEF R
  <2> QED BY <1>6
<1>8. Cheapest = c
  BY DEF Cheapest, CheapestOf, Ahead, IsGoal, Op, From, To, Cost
<1> HIDE DEF c
<1>9. \A n \in 0 .. K :
         c[n] = [s \in State |-> IF IsGoal(s) THEN 0 ELSE IF n = 0 THEN Infinite
                                 ELSE Minimum(Ahead(c[n - 1], s))]
  BY <1>7
<1> DEFINE T == {n \in 0 .. K : c[n] \in Costs}
<1>10. 0 \in T
  <2>1. c[0] = zero
    BY <1>1, <1>9
  <2> HIDE DEF zero
  <2> QED BY <1>1, <1>2, <2>1
<1>11. ASSUME NEW n \in 1 .. K, n - 1 \in T
       PROVE  n \in T
  <2>1. n \in 0 .. K /\ n # 0 /\ c[n - 1] \in Costs
    BY <1>1, <1>11
  <2>2. c[n] = next(c[n - 1])
    BY <1>9, <2>1
  <2> HIDE DEF next
  <2> QED BY <1>3, <2>1, <2>2
<1>12. \A n \in 0 .. K : c[n] \in Costs
  <2>1. ASSUME NEW n \in 0 .. K
        PROVE  n \in T
    <3>1. n \in Nat /\ \A k \in 1 .. n : k - 1 \in T => k \in T
      BY <1>1, <1>11
    <3> HIDE DEF T
    <3> QED BY <1>10, <3>1, Counting
  <2> QED BY <2>1
<1>13. c \in [0 .. K -> Costs]
  BY <1>7, <1>12
<1>14. ASSUME NEW n \in 0 .. K, NEW s \in State
       PROVE  c[n][s] = IF IsGoal(s) THEN 0 ELSE IF n = 0 THEN Infinite
                        ELSE Minimum(Ahead(c[n - 1], s))
  BY <1>9
<1> QED BY <1>8, <1>13, <1>14

LEMMA CheapestStep ==
    ASSUME task \in Problems, NEW s \in State
    PROVE  /\ \A n \in 0 .. Cardinality(State) :
                 /\ Cheapest[n][s] \in Nat /\ Cheapest[n][s] <= Infinite
                 /\ IsGoal(s) => Cheapest[n][s] = 0
           /\ ~IsGoal(s) => Cheapest[0][s] = Infinite
           /\ \A n \in 1 .. Cardinality(State) : ~IsGoal(s) =>
                 /\ \A o \in Op : From(o) = s => Cheapest[n][s] <= Cost(o) + Cheapest[n - 1][To(o)]
                 /\ \/ Cheapest[n][s] = Infinite
                    \/ \E o \in Op : From(o) = s /\ Cheapest[n][s] = Cost(o) + Cheapest[n - 1][To(o)]
<1> DEFINE K == Cardinality(State)
<1>1. K \in Nat /\ Infinite \in Nat
  BY States DEF Infinite
<1>2. /\ Cheapest \in [0 .. K -> Costs]
      /\ \A n \in 0 .. K :
                 Cheapest[n][s] = IF IsGoal(s) THEN 0 ELSE IF n = 0 THEN Infinite
                                  ELSE Minimum(Ahead(Cheapest[n - 1], s))
  BY CheapestUnfolds
<1>3. ASSUME NEW n \in 0 .. K
      PROVE  /\ Cheapest[n][s] \in Nat /\ Cheapest[n][s] <= Infinite
             /\ IsGoal(s) => Cheapest[n][s] = 0
  <2>1. Cheapest[n] \in Costs
    BY <1>2
  <2> QED BY <1>1, <1>2, <2>1 DEF Costs
<1>4. ~IsGoal(s) => Cheapest[0][s] = Infinite
  BY <1>1, <1>2
<1>5. ASSUME NEW n \in 1 .. K, ~IsGoal(s)
      PROVE  /\ \A o \in Op : From(o) = s => Cheapest[n][s] <= Cost(o) + Cheapest[n - 1][To(o)]
             /\ \/ Cheapest[n][s] = Infinite
                \/ \E o \in Op : From(o) = s /\ Cheapest[n][s] = Cost(o) + Cheapest[n - 1][To(o)]
  <2>1. n \in 0 .. K /\ n - 1 \in 0 .. K /\ n # 0
    BY <1>1
  <2>2. Cheapest[n][s] = Minimum(Ahead(Cheapest[n - 1], s)) /\ Cheapest[n - 1] \in Costs
    BY <1>2, <1>5, <2>1
  <2> QED BY <2>2, AheadLeast
<1> QED BY <1>3, <1>4, <1>5

\* More operators never make a plan dearer.
LEMMA CheapestFalls ==
    ASSUME task \in Problems
    PROVE  \A n \in 1 .. Cardinality(State) : \A s \in State : Cheapest[n][s] <= Cheapest[n - 1][s]
<1> DEFINE K == Cardinality(State)
           Falls(n) == \A s \in State : Cheapest[n][s] <= Cheapest[n - 1][s]
           T == {n \in 0 .. K : n = 0 \/ Falls(n)}
<1>1. K \in Nat
  BY States
<1>2. 0 \in T
  BY <1>1
<1>3. ASSUME NEW n \in 1 .. K, n - 1 \in T
      PROVE  n \in T
  <2>1. ASSUME NEW s \in State
        PROVE  Cheapest[n][s] <= Cheapest[n - 1][s]
    <3>0. n \in 0 .. K /\ n - 1 \in 0 .. K
      BY <1>1
    <3>1. /\ Cheapest[n][s] \in Nat /\ Cheapest[n][s] <= Infinite /\ Cheapest[n - 1][s] \in Nat
          /\ IsGoal(s) => Cheapest[n][s] = 0
      BY <3>0, CheapestStep
    <3>2. CASE IsGoal(s)
      BY <3>1, <3>2
    <3>3. CASE ~IsGoal(s) /\ n = 1
      <4>1. Cheapest[0][s] = Infinite
        BY <3>3, CheapestStep
      <4> QED BY <3>1, <3>3, <4>1
    <3>4. CASE ~IsGoal(s) /\ n # 1
      <4>1. n - 1 \in 1 .. K /\ (n - 1) - 1 \in 0 .. K
        BY <1>1, <3>4
      <4>2. CASE Cheapest[n - 1][s] = Infinite
        BY <3>1, <4>2
      <4>3. CASE \E o \in Op : From(o) = s /\ Cheapest[n - 1][s] = Cost(o) + Cheapest[(n - 1) - 1][To(o)]
        <5>1. PICK o \in Op : From(o) = s /\ Cheapest[n - 1][s] = Cost(o) + Cheapest[(n - 1) - 1][To(o)]
          BY <4>3
        <5>2. To(o) \in State /\ Cost(o) \in Nat
          BY Operators
        <5>3. Cheapest[n - 1][To(o)] <= Cheapest[(n - 1) - 1][To(o)]
          BY <1>3, <4>1, <5>2
        <5>4. Cheapest[n][s] <= Cost(o) + Cheapest[n - 1][To(o)]
          BY <3>4, <5>1, CheapestStep
        <5>5. Cheapest[n - 1][To(o)] \in Nat /\ Cheapest[(n - 1) - 1][To(o)] \in Nat
          BY <3>0, <4>1, <5>2, CheapestStep
        <5> QED BY <3>1, <5>1, <5>2, <5>3, <5>4, <5>5
      <4> QED BY <3>4, <4>1, <4>2, <4>3, CheapestStep
    <3> QED BY <3>2, <3>3, <3>4
  <2>2. n \in 0 .. K
    BY <1>1
  <2> QED BY <2>1, <2>2
<1>4. \A n \in 1 .. K : n \in T
  <2>1. ASSUME NEW n \in 1 .. K
        PROVE  n \in T
    <3>1. n \in Nat /\ \A k \in 1 .. n : k - 1 \in T => k \in T
      BY <1>1, <1>3
    <3> HIDE DEF T
    <3> QED BY <1>2, <3>1, Counting
  <2> QED BY <2>1
<1> QED BY <1>1, <1>4

LEMMA CheapestLast ==
    ASSUME task \in Problems, NEW s \in State, NEW n \in 0 .. Cardinality(State)
    PROVE  Cheapest[Cardinality(State)][s] <= Cheapest[n][s]
<1> DEFINE K == Cardinality(State)
           T == {k \in 0 .. K - n : Cheapest[n + k][s] <= Cheapest[n][s]}
<1>1. K \in Nat /\ n \in Nat /\ K - n \in Nat /\ Cheapest[n][s] \in Nat
  BY States, CheapestStep
<1>2. 0 \in T
  BY <1>1
<1>3. ASSUME NEW k \in 1 .. K - n, k - 1 \in T
      PROVE  k \in T
  <2>1. n + k \in 1 .. K /\ (n + k) - 1 = n + (k - 1) /\ n + k \in 0 .. K /\ n + (k - 1) \in 0 .. K
    BY <1>1
  <2>2. Cheapest[n + k][s] <= Cheapest[n + (k - 1)][s]
    BY <2>1, CheapestFalls
  <2>3. Cheapest[n + k][s] \in Nat /\ Cheapest[n + (k - 1)][s] \in Nat
    BY <2>1, CheapestStep
  <2> QED BY <1>1, <1>3, <2>1, <2>2, <2>3
<1>4. K - n \in T
  <2> HIDE DEF T
  <2> QED BY <1>1, <1>2, <1>3, Counting
<1> QED BY <1>1, <1>4

\* A plan of n operators that is cheaper than all shorter ones has n states on
\* its way, from each of which a shorter plan is no dearer.
LEMMA CheaperPlan ==
    ASSUME task \in Problems, NEW n \in 1 .. Cardinality(State), NEW s \in State,
           Cheapest[n][s] # Cheapest[n - 1][s]
    PROVE  \E D \in SUBSET State :
              /\ Cardinality(D) = n /\ s \notin D
              /\ \A x \in D : \E j \in 0 .. n - 1 : Cheapest[j][x] <= Cheapest[n][s]
<1> DEFINE K == Cardinality(State)
           Behind(k, t) ==
              \E D \in SUBSET State :
                 /\ Cardinality(D) = k /\ t \notin D
                 /\ \A x \in D : \E j \in 0 .. k - 1 : Cheapest[j][x] <= Cheapest[k][t]
           Q(k) == \A t \in State : Cheapest[k][t] # Cheapest[k - 1][t] => Behind(k, t)
           T == {k \in 0 .. n : k = 0 \/ Q(k)}
<1>1. K \in Nat /\ n \in Nat /\ n <= K /\ Infinite \in Nat /\ IsFiniteSet(State)
  BY States, StateAssumption DEF Infinite
<1>2. 0 \in T
  BY <1>1
<1>3. ASSUME NEW k \in 1 .. n, k - 1 \in T
      PROVE  k \in T
  <2>1. ASSUME NEW t \in State, Cheapest[k][t] # Cheapest[k - 1][t]
        PROVE  Behind(k, t)
    <3>1. k \in 1 .. K /\ k \in 0 .. K /\ k - 1 \in 0 .. K
      BY <1>1
    <3>2. /\ Cheapest[k][t] \in Nat /\ Cheapest[k - 1][t] \in Nat
          /\ Cheapest[k - 1][t] <= Infinite /\ Cheapest[k][t] < Cheapest[k - 1][t]
      BY <2>1, <3>1, CheapestStep, CheapestFalls
    <3>3. ~IsGoal(t)
      BY <3>1, <3>2, CheapestStep
    <3>4. PICK o \in Op : From(o) = t /\ Cheapest[k][t] = Cost(o) + Cheapest[k - 1][To(o)]
      BY <3>1, <3>2, <3>3, CheapestStep
    <3> DEFINE u == To(o)
    <3>5. u \in State /\ Cost(o) \in Nat
      BY Operators
    <3>6. Cheapest[k - 1][u] \in Nat /\ Cheapest[k - 1][u] <= Cheapest[k][t]
      BY <3>1, <3>2, <3>4, <3>5, CheapestStep
    <3>7. u # t
      BY <3>2, <3>6
    <3>8. \A j \in 0 .. k - 1 : Cheapest[j][t] > Cheapest[k][t]
      <4>1. ASSUME NEW j \in 0 .. k - 1
            PROVE  Cheapest[k - 1][t] <= Cheapest[j][t] /\ Cheapest[j][t] \in Nat
        <5> DEFINE S == {i \in 0 .. (k - 1) - j : Cheapest[j + i][t] <= Cheapest[j][t]}
        <5>1. Cheapest[j][t] \in Nat /\ (k - 1) - j \in Nat
          <6>1. j \in 0 .. K
            BY <3>1, <1>1
          <6> QED BY <6>1, CheapestStep
        <5>2. 0 \in S
          BY <5>1
        <5>3. ASSUME NEW i \in 1 .. (k - 1) - j, i - 1 \in S
              PROVE  i \in S
          <6>1. /\ j + i \in 1 .. K /\ (j + i) - 1 = j + (i - 1)
                /\ j + i \in 0 .. K /\ j + (i - 1) \in 0 .. K
            BY <1>1, <3>1
          <6>2. Cheapest[j + i][t] <= Cheapest[j + (i - 1)][t]
            BY <6>1, CheapestFalls
          <6>3. Cheapest[j + i][t] \in Nat /\ Cheapest[j + (i - 1)][t] \in Nat
            BY <6>1, CheapestStep
          <6> QED BY <5>1, <5>3, <6>1, <6>2, <6>3
        <5>4. (k - 1) - j \in S
          <6> HIDE DEF S
          <6> QED BY <5>1, <5>2, <5>3, Counting
        <5> QED BY <5>1, <5>4
      <4> QED BY <3>2, <4>1
    <3>9. CASE k = 1
      <4>0. Cardinality({u}) = 1
        BY FS_Singleton
      <4>1. (k - 1) \in 0 .. k - 1 /\ Cardinality({u}) = 1
        BY <1>1, <3>9, <4>0
      <4>2. \A x \in {u} : \E j \in 0 .. k - 1 : Cheapest[j][x] <= Cheapest[k][t]
        BY <3>6, <4>1
      <4> QED BY <3>5, <3>7, <3>9, <4>1, <4>2
    <3>10. CASE k # 1
      <4>1. k - 1 \in 1 .. K /\ (k - 1) - 1 \in 0 .. K
        BY <1>1, <3>1, <3>10
      <4>2. Cheapest[k - 1][t] <= Cost(o) + Cheapest[(k - 1) - 1][u]
        BY <3>3, <3>4, <4>1, CheapestStep
      <4>3. Cheapest[(k - 1) - 1][u] \in Nat
        BY <3>5, <4>1, CheapestStep
      <4>4. Cheapest[k - 1][u] # Cheapest[(k - 1) - 1][u]
        BY <3>2, <3>4, <3>5, <3>6, <4>2, <4>3
      <4>5. Behind(k - 1, u)
        <5> HIDE DEF Behind
        <5> QED BY <1>3, <3>5, <3>10, <4>4
      <4>6. PICK D \in SUBSET State :
               /\ Cardinality(D) = k - 1 /\ u \notin D
               /\ \A x \in D : \E j \in 0 .. (k - 1) - 1 : Cheapest[j][x] <= Cheapest[k - 1][u]
        BY <4>5
      <4> DEFINE E == D \cup {u}
      <4>7. E \in SUBSET State /\ Cardinality(E) = k
        <5>1. IsFiniteSet(D)
          BY <1>1, FS_Subset
        <5>2. IsFiniteSet(E) /\ Cardinality(E) = Cardinality(D) + 1
          BY <4>6, <5>1, FS_AddElement
        <5>3. k \in Nat /\ Cardinality(D) + 1 = k
          BY <1>1, <4>6
        <5> QED BY <3>5, <5>2, <5>3
      <4>8. \A x \in E : \E j \in 0 .. k - 1 : Cheapest[j][x] <= Cheapest[k][t]
        <5>1. ASSUME NEW x \in D
              PROVE  \E j \in 0 .. k - 1 : Cheapest[j][x] <= Cheapest[k][t]
          <6>1. PICK j \in 0 .. (k - 1) - 1 : Cheapest[j][x] <= Cheapest[k - 1][u]
            BY <4>6
          <6>2. j \in 0 .. k - 1 /\ j \in 0 .. K /\ x \in State
            BY <1>1
          <6>3. Cheapest[j][x] \in Nat
            BY <6>2, CheapestStep
          <6> QED BY <3>2, <3>6, <6>1, <6>2, <6>3
        <5>2. k - 1 \in 0 .. k - 1
          BY <3>1
        <5> QED BY <3>6, <5>1, <5>2
      <4>9. t \notin E
        <5>1. ASSUME t \in E
              PROVE  FALSE
          <6>1. PICK j \in 0 .. k - 1 : Cheapest[j][t] <= Cheapest[k][t]
            BY <4>8, <5>1
          <6>2. j \in 0 .. K
            BY <1>1
          <6>3. Cheapest[j][t] \in Nat
            BY <6>2, CheapestStep
          <6> QED BY <3>2, <3>8, <6>1, <6>3
        <5> QED BY <5>1
      <4> HIDE DEF E
      <4> QED BY <4>7, <4>8, <4>9
    <3> QED BY <3>9, <3>10
  <2>2. k \in 0 .. n
    BY <1>1
  <2> HIDE DEF Behind
  <2> QED BY <2>1, <2>2
<1>4. n \in T
  <2> HIDE DEF T
  <2> QED BY <1>1, <1>2, <1>3, Counting
<1>5. Behind(n, s)
  <2> HIDE DEF Behind
  <2> QED BY <1>4
<1> QED BY <1>5

\* What TrueCost says: the cost of the cheapest plan is that of going on with
\* the best operator, and below DeadEnd if there is a plan.
LEMMA TrueCostIs ==
    ASSUME task \in Problems, NEW s \in State
    PROVE  LET H == Cheapest[Cardinality(State)]
           IN /\ H[s] \in Nat /\ TrueCost[s] = H[s]
              /\ IsGoal(s) => H[s] = 0
              /\ \A o \in Op : From(o) = s => H[s] <= Cost(o) + H[To(o)]
              /\ H[s] = Infinite \/ H[s] < DeadEnd
<1> DEFINE K == Cardinality(State)
           H == Cheapest[K]
<1>1. K \in Nat \ {0} /\ K \in 0 .. K /\ K \in 1 .. K /\ DeadEnd \in Nat \ {0}
  BY States
<1>2. H[s] \in Nat /\ H[s] <= Infinite /\ (IsGoal(s) => H[s] = 0)
  BY <1>1, CheapestStep
<1>3. \A t \in State : Cheapest[K][t] = Cheapest[K - 1][t]
  <2>1. ASSUME NEW t \in State, Cheapest[K][t] # Cheapest[K - 1][t]
        PROVE  FALSE
    <3>1. PICK D \in SUBSET State : Cardinality(D) = K /\ t \notin D
      BY <1>1, <2>1, CheaperPlan
    <3>2. IsFiniteSet(State \ {t}) /\ Cardinality(State \ {t}) = K - 1
      BY StateAssumption, FS_RemoveElement
    <3>3. D \subseteq State \ {t}
      BY <3>1
    <3>4. Cardinality(D) <= K - 1
      BY <3>2, <3>3, FS_Subset
    <3> QED BY <1>1, <3>1, <3>4
  <2> QED BY <2>1
<1>4. ASSUME NEW o \in Op, From(o) = s
      PROVE  H[s] <= Cost(o) + H[To(o)]
  <2>1. To(o) \in State /\ Cost(o) \in Nat
    BY Operators
  <2>2. H[To(o)] \in Nat
    BY <1>1, <2>1, CheapestStep
  <2>3. CASE IsGoal(s)
    BY <1>2, <2>1, <2>2, <2>3
  <2>4. CASE ~IsGoal(s)
    <3>1. Cheapest[K][s] <= Cost(o) + Cheapest[K - 1][To(o)]
      BY <1>1, <1>4, <2>4, CheapestStep
    <3> QED BY <1>3, <2>1, <3>1
  <2> QED BY <2>3, <2>4
<1>5. PICK most \in 0 .. DeadEnd : /\ \A i \in DOMAIN task.op : task.op[i].cost <= most
                                   /\ K * most < DeadEnd
  BY ProblemAssumption
<1>6. most \in Nat /\ \A o \in Op : Cost(o) <= most /\ Cost(o) \in Nat /\ To(o) \in State
  BY <1>1, <1>5, Operators DEF Op, Cost
<1> DEFINE T == {n \in 0 .. K : \A t \in State : \/ Cheapest[n][t] = Infinite
                                               \/ Cheapest[n][t] <= n * most}
<1>7. 0 \in T
  <2>1. ASSUME NEW t \in State
        PROVE  Cheapest[0][t] = Infinite \/ Cheapest[0][t] <= 0 * most
    <3>1. 0 \in 0 .. K /\ 0 * most = 0
      BY <1>1, <1>6
    <3> QED BY <3>1, CheapestStep
  <2> QED BY <1>1, <2>1
<1>8. ASSUME NEW n \in 1 .. K, n - 1 \in T
      PROVE  n \in T
  <2>0. n \in 0 .. K /\ n - 1 \in 0 .. K /\ n * most = (n - 1) * most + most /\ n * most \in Nat
    BY <1>1, <1>6
  <2>1. ASSUME NEW t \in State
        PROVE  Cheapest[n][t] = Infinite \/ Cheapest[n][t] <= n * most
    <3>1. Cheapest[n][t] \in Nat /\ Cheapest[n][t] <= Infinite /\ (IsGoal(t) => Cheapest[n][t] = 0)
      BY <2>0, CheapestStep
    <3>2. CASE IsGoal(t) \/ Cheapest[n][t] = Infinite
      BY <2>0, <3>1, <3>2
    <3>3. CASE ~IsGoal(t) /\ Cheapest[n][t] # Infinite
      <4>1. PICK o \in Op : From(o) = t /\ Cheapest[n][t] = Cost(o) + Cheapest[n - 1][To(o)]
        BY <3>3, CheapestStep
      <4>2. Cheapest[n - 1][To(o)] \in Nat
        BY <1>6, <2>0, CheapestStep
      <4>3. \/ Cheapest[n - 1][To(o)] = Infinite
            \/ Cheapest[n - 1][To(o)] <= (n - 1) * most
        BY <1>6, <1>8
      <4>4. Infinite \in Nat
        BY <1>1 DEF Infinite
      <4>5. Cheapest[n - 1][To(o)] # Infinite
        BY <1>6, <3>1, <3>3, <4>1, <4>2, <4>4
      <4> DEFINE x == (n - 1) * most
                 y == n * most
      <4>6. x \in Nat /\ y = x + most
        BY <1>1, <1>6, <2>0
      <4>7. Cheapest[n - 1][To(o)] <= x
        BY <4>3, <4>5
      <4> HIDE DEF x, y
      <4>8. Cheapest[n][t] <= y
        BY <1>6, <4>1, <4>2, <4>6, <4>7
      <4> QED BY <4>8 DEF y
    <3> QED BY <3>2, <3>3
  <2> QED BY <2>0, <2>1
<1>9. K \in T
  <2> HIDE DEF T
  <2> QED BY <1>1, <1>7, <1>8, Counting
<1>10. H[s] = Infinite \/ H[s] < DeadEnd
  <2>1. H[s] = Infinite \/ H[s] <= K * most
    BY <1>9
  <2>2. K * most \in Nat
    BY <1>1, <1>6
  <2> DEFINE x == K * most
  <2>3. x \in Nat /\ x < DeadEnd /\ (H[s] = Infinite \/ H[s] <= x)
    BY <1>5, <2>1, <2>2
  <2> HIDE DEF x, H
  <2> QED BY <1>1, <1>2, <2>3
<1>11. TrueCost[s] = H[s]
  BY <1>10 DEF TrueCost
<1> QED BY <1>2, <1>4, <1>10, <1>11

-----------------------------------------------------------------------------
(* A better way to a node *)

\* p and the states before it.
Upto(A, p) == A[p] \cup {p}

\* Operator o leads from p to t, which is new or cost more so far.
Better(N, o) ==
    /\ o \in Op /\ Reached(N, From(o))
    /\ Reached(N, To(o)) => N[To(o)].cost > N[From(o)].cost + Cost(o)

\* The node t gets, and the states before each one then.
NodeBy(N, n, o) == /\ n \in NodeType /\ n.state # "new"
                   /\ n.op = o /\ n.parent = From(o) /\ n.cost = N[From(o)].cost + Cost(o)
Regrown(A, p, t) == [d \in State |-> IF d = t THEN Upto(A, p)
                                   ELSE IF t \in A[d] THEN A[d] \cup Upto(A, p) ELSE A[d]]

\* What changes, and what does not.
LEMMA BetterWay ==
    ASSUME task \in Problems, NEW N \in [State -> NodeType], NEW A, Ancestry(N, A),
           NEW o, Better(N, o), NEW n, NodeBy(N, n, o)
    PROVE  LET p == From(o)  t == To(o)  M == [N EXCEPT ![t] = n]  B == Regrown(A, p, t)
           IN /\ p \in State /\ t \in State /\ M \in [State -> NodeType]
              /\ M[t] = n /\ \A d \in State : d # t => M[d] = N[d]
              /\ M[t].cost >= N[p].cost /\ (Reached(N, t) => M[t].cost < N[t].cost)
              /\ Upto(A, p) \subseteq State /\ t \notin Upto(A, p)
              /\ \A a \in Upto(A, p) : B[a] = A[a] /\ N[a].cost <= N[p].cost
              /\ \A d \in State : \A a \in B[d] : a \in Upto(A, p) \/ (d # t /\ a \in A[d])
              /\ N[p].cost \in Int
              /\ \A d \in State : N[d].cost \in Int /\ N[d].h \in Int /\ M[d].cost \in Int /\ M[d].h \in Int
<1> DEFINE p == From(o)
           t == To(o)
           M == [N EXCEPT ![t] = n]
           B == Regrown(A, p, t)
<1>1. p \in State /\ t \in State /\ Cost(o) \in Nat /\ n \in NodeType
  BY Operators DEF Better, NodeBy
<1>2. M \in [State -> NodeType] /\ M[t] = n /\ \A d \in State : d # t => M[d] = N[d]
  BY <1>1
<1>3. \A d \in State : N[d].cost \in Int /\ N[d].h \in Int /\ M[d].cost \in Int /\ M[d].h \in Int
  <2>1. ASSUME NEW d \in State
        PROVE  N[d] \in NodeType /\ M[d] \in NodeType
    BY <1>2
  <2> QED BY <2>1 DEF NodeType
<1>4. M[t].cost = N[p].cost + Cost(o)
  BY <1>2 DEF NodeBy
<1>5. M[t].cost >= N[p].cost /\ (Reached(N, t) => M[t].cost < N[t].cost)
  BY <1>1, <1>3, <1>4 DEF Better
<1>6. Upto(A, p) \subseteq State /\ \A a \in Upto(A, p) : A[a] \subseteq Upto(A, p)
  BY <1>1 DEF Upto, Ancestry
<1>7. \A a \in Upto(A, p) : Reached(N, a) /\ N[a].cost <= N[p].cost
  BY <1>1, <1>3 DEF Upto, Ancestry, Better
<1>8. t \notin Upto(A, p)
  BY <1>1, <1>3, <1>5, <1>7
<1>9. \A a \in Upto(A, p) : B[a] = A[a]
  BY <1>6, <1>8 DEF Regrown
<1>10. \A d \in State : \A a \in B[d] : a \in Upto(A, p) \/ (d # t /\ a \in A[d])
  BY DEF Regrown
<1> QED BY <1>1, <1>2, <1>3, <1>5, <1>6, <1>7, <1>8, <1>9, <1>10

\* The tree stays one.
LEMMA TreeGrows ==
    ASSUME task \in Problems, NEW N \in [State -> NodeType], NEW A,
           Rooted(N), Ancestry(N, A), NEW o, Better(N, o), NEW n, NodeBy(N, n, o)
    PROVE  LET t == To(o)  M == [N EXCEPT ![t] = n]  B == Regrown(A, From(o), t)
           IN Rooted(M) /\ Ancestry(M, B)
<1> DEFINE p == From(o)
           t == To(o)
           M == [N EXCEPT ![t] = n]
           B == Regrown(A, p, t)
           P == Upto(A, p)
<1>1. /\ p \in State /\ t \in State /\ M \in [State -> NodeType]
      /\ M[t] = n /\ \A d \in State : d # t => M[d] = N[d]
      /\ M[t].cost >= N[p].cost /\ (Reached(N, t) => M[t].cost < N[t].cost)
      /\ P \subseteq State /\ t \notin P
      /\ \A a \in P : B[a] = A[a] /\ N[a].cost <= N[p].cost
      /\ \A d \in State : \A a \in B[d] : a \in P \/ (d # t /\ a \in A[d])
      /\ N[p].cost \in Int
      /\ \A d \in State : N[d].cost \in Int /\ N[d].h \in Int /\ M[d].cost \in Int /\ M[d].h \in Int
  BY BetterWay
<1>2. /\ o \in Op /\ o # None /\ Reached(N, p) /\ n.state # "new" /\ n.op = o /\ n.parent = p
      /\ n.cost = N[p].cost + Cost(o)
      /\ \A q \in Op : From(q) \in State /\ To(q) \in State /\ Cost(q) \in Nat
  BY Operators DEF Better, NodeBy
<1>3. /\ B = [d \in State |-> IF d = t THEN P ELSE IF t \in A[d] THEN A[d] \cup P ELSE A[d]]
      /\ P = A[p] \cup {p}
  BY DEF Regrown, Upto
<1> HIDE DEF M, B, P, p, t
<1>4. \A d \in State : Reached(N, d) => Reached(M, d)
  BY <1>1, <1>2 DEF Reached
<1>5. Rooted(M)
  <2>1. ASSUME NEW d \in State, Reached(M, d)
        PROVE  IF M[d].op = None THEN d = 0 /\ M[d].cost = 0
               ELSE /\ M[d].op \in Op /\ To(M[d].op) = d /\ M[d].parent = From(M[d].op)
                    /\ Reached(M, From(M[d].op))
                    /\ M[d].cost >= M[From(M[d].op)].cost + Cost(M[d].op)
    <3>1. CASE d = t
      <4>1. p # t /\ M[p] = N[p]
        BY <1>1, <1>3
      <4> QED BY <1>1, <1>2, <1>4, <3>1, <4>1 DEF p, t
    <3>2. CASE d # t
      <4>1. M[d] = N[d] /\ Reached(N, d)
        BY <1>1, <2>1, <3>2 DEF Reached
      <4>2. CASE N[d].op = None
        BY <4>1, <4>2 DEF Rooted
      <4>3. CASE N[d].op # None
        <5> DEFINE q == From(N[d].op)
        <5>1. /\ N[d].op \in Op /\ To(N[d].op) = d /\ N[d].parent = q /\ Reached(N, q)
              /\ N[d].cost >= N[q].cost + Cost(N[d].op) /\ q \in State
          BY <1>2, <4>1, <4>3 DEF Rooted
        <5> HIDE DEF q
        <5>2. M[q].cost <= N[q].cost /\ Cost(N[d].op) \in Nat
          BY <1>1, <1>2, <5>1
        <5>3. M[d].cost >= M[q].cost + Cost(N[d].op)
          BY <1>1, <4>1, <5>1, <5>2
        <5> QED BY <1>4, <4>1, <4>3, <5>1, <5>3 DEF q
      <4> QED BY <4>2, <4>3
    <3> QED BY <3>1, <3>2
  <2> QED BY <2>1 DEF Rooted
<1>6. \A a \in P : Reached(N, a) /\ A[a] \subseteq P /\ a \in State /\ M[a] = N[a]
  BY <1>1, <1>2, <1>3 DEF Ancestry
<1>7. /\ A \in [State -> SUBSET State]
      /\ \A d \in State : /\ d \notin A[d]
                          /\ Reached(N, d) /\ N[d].op # None => From(N[d].op) \in A[d]
                          /\ \A a \in A[d] : /\ Reached(N, a) /\ A[a] \subseteq A[d]
                                             /\ N[a].cost <= N[d].cost /\ a \in State
  BY DEF Ancestry
<1>8. B \in [State -> SUBSET State]
  BY <1>1, <1>3, <1>7
<1>9. ASSUME NEW d \in State
      PROVE  d \notin B[d]
  <2>1. CASE d = t
    BY <1>1, <1>3, <2>1
  <2>2. CASE d # t /\ t \in A[d]
    <3>1. d \notin P
      BY <1>1, <1>6, <2>2
    <3> QED BY <1>3, <1>7, <2>2, <3>1
  <2>3. CASE d # t /\ t \notin A[d]
    BY <1>3, <1>7, <2>3
  <2> QED BY <2>1, <2>2, <2>3
<1>10. ASSUME NEW d \in State, Reached(M, d), M[d].op # None
       PROVE  From(M[d].op) \in B[d]
  <2>1. CASE d = t
    BY <1>1, <1>2, <1>3, <2>1 DEF p
  <2>2. CASE d # t
    <3>1. From(N[d].op) \in A[d] /\ M[d] = N[d]
      BY <1>1, <1>7, <1>10, <2>2 DEF Reached
    <3> QED BY <1>3, <2>2, <3>1
  <2> QED BY <2>1, <2>2
<1>11. ASSUME NEW d \in State, NEW a \in B[d]
       PROVE  Reached(M, a) /\ B[a] \subseteq B[d] /\ M[a].cost <= M[d].cost
  <2>1. CASE d = t
    <3>1. a \in P /\ B[d] = P
      BY <1>3, <1>11, <2>1
    <3> QED BY <1>1, <1>4, <1>6, <2>1, <3>1
  <2>2. CASE d # t /\ t \in A[d]
    <3>1. /\ B[d] = A[d] \cup P /\ M[d] = N[d]
          /\ M[t].cost < N[t].cost /\ N[t].cost <= N[d].cost /\ Reached(N, t)
      BY <1>1, <1>3, <1>7, <2>2
    <3>2. CASE a \in P
      <4>1. N[a].cost <= N[p].cost /\ M[a] = N[a] /\ a \in State /\ Reached(M, a)
        BY <1>1, <1>4, <1>6, <3>2
      <4>2. M[a].cost <= M[d].cost
        BY <1>1, <3>1, <4>1
      <4>3. B[a] = A[a] /\ A[a] \subseteq P
        BY <1>1, <1>6, <3>2
      <4> QED BY <3>1, <4>1, <4>2, <4>3
    <3>3. CASE a = t
      <4>1. B[a] = P
        BY <1>1, <1>3, <3>3
      <4>2. M[a].cost <= M[d].cost
        BY <1>1, <3>1, <3>3
      <4> QED BY <1>1, <1>4, <3>1, <3>3, <4>1, <4>2
    <3>4. CASE a \in A[d] /\ a # t
      <4>1. Reached(N, a) /\ A[a] \subseteq A[d] /\ N[a].cost <= N[d].cost /\ a \in State
        BY <1>7, <3>4
      <4>2. M[a] = N[a] /\ B[a] \subseteq A[a] \cup P
        BY <1>1, <1>3, <3>4, <4>1
      <4> QED BY <1>4, <3>1, <4>1, <4>2
    <3> QED BY <1>11, <3>1, <3>2, <3>3, <3>4
  <2>3. CASE d # t /\ t \notin A[d]
    <3>1. B[d] = A[d] /\ M[d] = N[d]
      BY <1>1, <1>3, <2>3
    <3>2. Reached(N, a) /\ A[a] \subseteq A[d] /\ N[a].cost <= N[d].cost /\ a \in State
      BY <1>7, <1>11, <3>1
    <3>3. a # t /\ t \notin A[a]
      BY <1>11, <2>3, <3>1, <3>2
    <3>4. M[a] = N[a] /\ B[a] = A[a]
      BY <1>1, <1>3, <3>2, <3>3
    <3> QED BY <1>4, <3>1, <3>2, <3>4
  <2> QED BY <2>1, <2>2, <2>3
<1>12. Ancestry(M, B)
  BY <1>8, <1>9, <1>10, <1>11 DEF Ancestry
<1> QED BY <1>5, <1>12 DEF M, B, p, t

-----------------------------------------------------------------------------
(* The order in which A* expands nodes that it reaches again               *)

\* A node that is still to be expanded, and its key.
Live(N, s) == N[s].state = "open" /\ N[s].h # DeadEnd
KeyOf(N, s) == N[s].cost + N[s].h

\* States on the way to another one were expanded.
NoDeadEnds(N, A) == \A d \in State : \A a \in A[d] : N[a].h # DeadEnd

\* A closed node a was the first in the open list.  What is in the list now
\* was there, or was reached since: from a, and then it costs more than a, or
\* from others that were there.
Overtaken(N, A) ==
    \A d, z \in State : \A a \in A[d] :
        N[a].state = "closed" /\ Live(N, d) /\ Live(N, z)
            => KeyOf(N, z) >= KeyOf(N, a) \/ KeyOf(N, d) >= KeyOf(N, a) \/ N[z].cost >= N[a].cost

\* A node that was opened again comes before those that were reached through it.
GoesFirst(N, A) ==
    \A d \in State : \A a \in A[d] :
        N[a].state = "open" /\ Live(N, d) => KeyOf(N, a) < KeyOf(N, d)

\* While p is being expanded: the same of the nodes p may still improve.
OvertakenBy(N, A, p) ==
    /\ \A d \in State : \A a \in A[d] :
          N[a].state = "closed" /\ Live(N, d) => KeyOf(N, d) >= KeyOf(N, a) \/ N[a].cost <= N[p].cost
    /\ \A z \in State : \A a \in Upto(A, p) :
          Live(N, z) => KeyOf(N, z) >= KeyOf(N, a) \/ N[z].cost >= N[a].cost
Improving(N, A, p) ==
    /\ Rooted(N) /\ ExactBut(N, p) /\ Ancestry(N, A) /\ NoDeadEnds(N, A)
    /\ Overtaken(N, A) /\ GoesFirst(N, A) /\ OvertakenBy(N, A, p)
    /\ \A a \in Upto(A, p) : N[a].state = "closed" /\ N[a].h # DeadEnd

\* The node that p improves.
OpenBy(N, n, o) == /\ NodeBy(N, n, o) /\ n.state = "open"
                   /\ Reached(N, To(o)) => n.h = N[To(o)].h

LEMMA ImprovesOne ==
    ASSUME task \in Problems, NEW N \in [State -> NodeType], NEW A, NEW p,
           Improving(N, A, p), NEW o, Better(N, o), From(o) = p, NEW n, OpenBy(N, n, o)
    PROVE  LET t == To(o)  M == [N EXCEPT ![t] = n]  B == Regrown(A, p, t)
           IN Improving(M, B, p) /\ M[p] = N[p] /\ B[p] = A[p]
<1> DEFINE t == To(o)
           M == [N EXCEPT ![t] = n]
           B == Regrown(A, p, t)
           P == Upto(A, p)
<1>0. /\ Rooted(N) /\ ExactBut(N, p) /\ Ancestry(N, A) /\ NoDeadEnds(N, A)
      /\ Overtaken(N, A) /\ GoesFirst(N, A) /\ OvertakenBy(N, A, p)
      /\ \A a \in P : N[a].state = "closed" /\ N[a].h # DeadEnd
      /\ NodeBy(N, n, o) /\ n.state = "open" /\ (Reached(N, t) => n.h = N[t].h)
  BY DEF Improving, OpenBy
<1>1. /\ p \in State /\ t \in State /\ M \in [State -> NodeType]
      /\ M[t] = n /\ \A d \in State : d # t => M[d] = N[d]
      /\ M[t].cost >= N[p].cost /\ (Reached(N, t) => M[t].cost < N[t].cost)
      /\ P \subseteq State /\ t \notin P
      /\ \A a \in P : B[a] = A[a] /\ N[a].cost <= N[p].cost
      /\ \A d \in State : \A a \in B[d] : a \in P \/ (d # t /\ a \in A[d])
      /\ N[p].cost \in Int
      /\ \A d \in State : N[d].cost \in Int /\ N[d].h \in Int /\ M[d].cost \in Int /\ M[d].h \in Int
  BY <1>0, BetterWay
<1>2. Rooted(M) /\ Ancestry(M, B)
  BY <1>0, TreeGrows
<1>3. p \in P /\ p # t
  BY <1>1 DEF Upto
<1>4. \A a \in P : a # t /\ a \in State /\ M[a] = N[a]
  BY <1>1
<1>5. M[p] = N[p] /\ B[p] = A[p] /\ Upto(B, p) = P
  BY <1>1, <1>3 DEF Upto
<1>6. \A d \in State : \A a \in A[d] : a \in State /\ Reached(N, a)
  BY <1>0 DEF Ancestry
<1>7. M[t].state = "open" /\ (Reached(N, t) => M[t].h = N[t].h)
  BY <1>0, <1>1
<1>8. ExactBut(M, p)
  <2>1. ASSUME NEW d \in State, Reached(M, d), M[d].op # None, From(M[d].op) # p,
               M[From(M[d].op)].state = "closed"
        PROVE  M[d].cost = M[From(M[d].op)].cost + Cost(M[d].op)
    <3>1. d # t
      BY <1>0, <1>1, <2>1 DEF NodeBy
    <3>2. M[d] = N[d] /\ Reached(N, d)
      BY <1>1, <2>1, <3>1 DEF Reached
    <3>3. From(N[d].op) \in State
      BY <1>0, <2>1, <3>2, Operators DEF Rooted
    <3>4. From(N[d].op) # t
      BY <1>7, <2>1, <3>2
    <3>5. M[From(N[d].op)] = N[From(N[d].op)]
      BY <1>1, <3>3, <3>4
    <3> QED BY <1>0, <2>1, <3>2, <3>5 DEF ExactBut
  <2> QED BY <2>1 DEF ExactBut
<1> HIDE DEF M, B, P, t
<1>9. NoDeadEnds(M, B)
  <2>1. ASSUME NEW d \in State, NEW a \in B[d]
        PROVE  M[a].h # DeadEnd
    <3>1. CASE a \in P
      BY <1>0, <1>4, <3>1
    <3>2. CASE a \in A[d]
      <4>1. N[a].h # DeadEnd /\ Reached(N, a) /\ a \in State
        BY <1>0, <1>6, <3>2 DEF NoDeadEnds
      <4> QED BY <1>1, <1>7, <4>1
    <3> QED BY <1>1, <2>1, <3>1, <3>2
  <2> QED BY <2>1 DEF NoDeadEnds
<1>10. ASSUME NEW d \in State, NEW z \in State, NEW a \in B[d],
              M[a].state = "closed", Live(M, d), Live(M, z)
       PROVE  KeyOf(M, z) >= KeyOf(M, a) \/ KeyOf(M, d) >= KeyOf(M, a) \/ M[z].cost >= M[a].cost
  <2>1. CASE a \in P
    <3>1. M[a] = N[a] /\ N[a].cost <= N[p].cost /\ a \in State
      BY <1>1, <1>4, <2>1
    <3>2. CASE z = t
      <4>1. M[z].cost >= N[p].cost
        BY <1>1, <3>2
      <4> QED BY <1>1, <3>1, <4>1
    <3>3. CASE z # t
      <4>1. M[z] = N[z] /\ Live(N, z)
        BY <1>1, <1>10, <3>3 DEF Live
      <4>2. KeyOf(N, z) >= KeyOf(N, a) \/ N[z].cost >= N[a].cost
        BY <1>0, <2>1, <4>1 DEF OvertakenBy, P
      <4> QED BY <3>1, <4>1, <4>2 DEF KeyOf
    <3> QED BY <3>2, <3>3
  <2>2. CASE a \notin P
    <3>1. d # t /\ a \in A[d] /\ a \in State /\ a # t
      BY <1>1, <1>6, <1>7, <1>10, <2>2
    <3>2. M[a] = N[a] /\ M[d] = N[d] /\ Live(N, d)
      BY <1>1, <1>10, <3>1 DEF Live
    <3>3. CASE z = t
      <4>1. KeyOf(N, d) >= KeyOf(N, a) \/ N[a].cost <= N[p].cost
        BY <1>0, <1>10, <3>1, <3>2 DEF OvertakenBy
      <4>2. M[z].cost >= N[p].cost
        BY <1>1, <3>3
      <4>3. CASE KeyOf(N, d) >= KeyOf(N, a)
        BY <3>2, <4>3 DEF KeyOf
      <4>4. CASE N[a].cost <= N[p].cost
        BY <1>1, <3>1, <3>2, <4>2, <4>4
      <4> QED BY <4>1, <4>3, <4>4
    <3>4. CASE z # t
      <4>1. M[z] = N[z] /\ Live(N, z)
        BY <1>1, <1>10, <3>4 DEF Live
      <4>2. KeyOf(N, z) >= KeyOf(N, a) \/ KeyOf(N, d) >= KeyOf(N, a) \/ N[z].cost >= N[a].cost
        BY <1>0, <1>10, <3>1, <3>2, <4>1 DEF Overtaken
      <4> QED BY <3>2, <4>1, <4>2 DEF KeyOf
    <3> QED BY <3>3, <3>4
  <2> QED BY <2>1, <2>2
<1>11. Overtaken(M, B)
  BY <1>10 DEF Overtaken
<1>12. ASSUME NEW d \in State, NEW a \in B[d], M[a].state = "open", Live(M, d)
       PROVE  KeyOf(M, a) < KeyOf(M, d)
  <2>1. a \notin P
    BY <1>0, <1>4, <1>12
  <2>2. d # t /\ a \in A[d] /\ a \in State /\ Reached(N, a)
    BY <1>1, <1>6, <1>12, <2>1
  <2>3. M[d] = N[d] /\ Live(N, d)
    BY <1>1, <1>12, <2>2 DEF Live
  <2>4. CASE a # t
    <3>1. M[a] = N[a]
      BY <1>1, <2>2, <2>4
    <3>2. KeyOf(N, a) < KeyOf(N, d)
      BY <1>0, <1>12, <2>2, <2>3, <3>1 DEF GoesFirst
    <3> QED BY <2>3, <3>1, <3>2 DEF KeyOf
  <2>5. CASE a = t
    <3>1. M[t].cost < N[t].cost /\ M[t].h = N[t].h /\ M[t].cost >= N[p].cost /\ t \in State
      BY <1>1, <1>7, <2>2, <2>5
    <3>2. KeyOf(M, t) < KeyOf(N, t) /\ KeyOf(N, t) \in Int /\ KeyOf(M, t) \in Int
      BY <1>1, <3>1 DEF KeyOf
    <3>3. KeyOf(N, d) \in Int
      BY <1>1 DEF KeyOf
    <3>4. CASE N[t].state = "closed"
      <4>1. KeyOf(N, d) >= KeyOf(N, t) \/ N[t].cost <= N[p].cost
        BY <1>0, <2>2, <2>3, <2>5, <3>4 DEF OvertakenBy
      <4>2. ~(N[t].cost <= N[p].cost)
        BY <1>1, <3>1
      <4>3. KeyOf(M, t) < KeyOf(N, d)
        BY <3>2, <3>3, <4>1, <4>2
      <4> QED BY <2>3, <2>5, <4>3 DEF KeyOf
    <3>5. CASE N[t].state = "open"
      <4>1. KeyOf(N, t) < KeyOf(N, d)
        BY <1>0, <2>2, <2>3, <2>5, <3>5 DEF GoesFirst
      <4>2. KeyOf(M, t) < KeyOf(N, d)
        BY <3>2, <3>3, <4>1
      <4> QED BY <2>3, <2>5, <4>2 DEF KeyOf
    <3>6. N[t].state \in {"new", "open", "closed"}
      BY <1>1 DEF NodeType
    <3> QED BY <2>2, <2>5, <3>4, <3>5, <3>6 DEF Reached
  <2> QED BY <2>4, <2>5
<1>13. GoesFirst(M, B)
  BY <1>12 DEF GoesFirst
<1>14. ASSUME NEW d \in State, NEW a \in B[d], M[a].state = "closed", Live(M, d)
       PROVE  KeyOf(M, d) >= KeyOf(M, a) \/ M[a].cost <= M[p].cost
  <2>1. CASE a \in P
    BY <1>1, <1>4, <1>5, <2>1
  <2>2. CASE a \notin P
    <3>1. d # t /\ a \in A[d] /\ a \in State /\ a # t
      BY <1>1, <1>6, <1>7, <1>14, <2>2
    <3>2. M[a] = N[a] /\ M[d] = N[d] /\ Live(N, d)
      BY <1>1, <1>14, <3>1 DEF Live
    <3>3. KeyOf(N, d) >= KeyOf(N, a) \/ N[a].cost <= N[p].cost
      BY <1>0, <1>14, <3>1, <3>2 DEF OvertakenBy
    <3> QED BY <1>5, <3>2, <3>3 DEF KeyOf
  <2> QED BY <2>1, <2>2
<1>15. ASSUME NEW z \in State, NEW a \in Upto(B, p), Live(M, z)
       PROVE  KeyOf(M, z) >= KeyOf(M, a) \/ M[z].cost >= M[a].cost
  <2>1. a \in P /\ M[a] = N[a] /\ N[a].cost <= N[p].cost /\ a \in State
    BY <1>1, <1>4, <1>5, <1>15
  <2>2. CASE z = t
    <3>1. M[z].cost >= N[p].cost
      BY <1>1, <2>2
    <3> QED BY <1>1, <2>1, <3>1
  <2>3. CASE z # t
    <3>1. M[z] = N[z] /\ Live(N, z)
      BY <1>1, <1>15, <2>3 DEF Live
    <3>2. KeyOf(N, z) >= KeyOf(N, a) \/ N[z].cost >= N[a].cost
      BY <1>0, <2>1, <3>1 DEF OvertakenBy, P
    <3> QED BY <2>1, <3>1, <3>2 DEF KeyOf
  <2> QED BY <2>2, <2>3
<1>16. OvertakenBy(M, B, p)
  BY <1>14, <1>15 DEF OvertakenBy
<1>17. \A a \in Upto(B, p) : M[a].state = "closed" /\ M[a].h # DeadEnd
  BY <1>0, <1>4, <1>5
<1>18. Improving(M, B, p)
  BY <1>2, <1>8, <1>9, <1>11, <1>13, <1>16, <1>17 DEF Improving
<1> QED BY <1>5, <1>18 DEF M, B, t

-----------------------------------------------------------------------------
(* What A* knows of its nodes                                              *)

\* The open list has the nodes that are to be expanded, under their keys, and
\* maybe under keys that were too high.
Listed(N, E) ==
    /\ \A s \in State : Live(N, s) =>
          \E e \in E : e.state = s /\ e.key = <<KeyOf(N, s), N[s].h>>
    /\ \A e \in E : /\ e.state \in State /\ Reached(N, e.state) /\ N[e.state].h # DeadEnd
                    /\ e.key[1] \in Int /\ e.key[1] >= KeyOf(N, e.state)

\* All operators of closed nodes but p were used.
Done(N, u) == \A o \in Op : From(o) = u =>
                 Reached(N, To(o)) /\ N[To(o)].cost <= N[u].cost + Cost(o)
DoneBut(N, p) == \A u \in State : N[u].state = "closed" /\ u # p => ~IsGoal(u) /\ Done(N, u)

\* The estimates of the nodes; H is the true cost.
Estimated(N) == \A u \in State : Reached(N, u) =>
                   /\ N[u].h \in 0 .. DeadEnd
                   /\ N[u].h = DeadEnd => task.h[u] = DeadEnd
BoundedBy(N, H) ==
    (\A s \in State : task.h[s] <= H[s]) =>
        \A u \in State : Reached(N, u) =>
            /\ H[0] <= N[u].cost + H[u] /\ N[u].h <= H[u]
            /\ H[u] < DeadEnd => H[0] < DeadEnd

\* The heuristic of a new node.
HeurBy(N, n, o) ==
    LET t == To(o)  p == From(o)
    IN ~Reached(N, t) =>
         \/ n.h = task.h[t]
         \/ n.h \in Int /\ n.h >= task.h[t] /\ n.h = N[p].h - Cost(o)

\* What Generate does with an operator that leads to a better way.
LEMMA GenerateBetter ==
    ASSUME task \in Problems, nodes \in [State -> NodeType], NEW acc \in AccType,
           NEW o \in Op, Improves(acc.after, o), Reached(acc.after, From(o)),
           acc.after[From(o)].cost = nodes[From(o)].cost,
           acc.after[From(o)].h = nodes[From(o)].h, Estimated(acc.after)
    PROVE  /\ Better(acc.after, o)
           /\ \E n : /\ OpenBy(acc.after, n, o) /\ HeurBy(acc.after, n, o)
                     /\ Generate(acc, o) =
                          [after |-> [acc.after EXCEPT ![To(o)] = n],
                           openList |-> IF n.h = DeadEnd THEN acc.openList
                                        ELSE Append(acc.openList, Entry(n.cost + n.h, n.h, To(o), None))]
<1> DEFINE N == acc.after
           t == To(o)
           p == From(o)
           h == HeurOf(N, t, o)
           g == nodes[p].cost + Cost(o)
           n == [state |-> "open", parent |-> p, op |-> o, cost |-> g, h |-> h]
<1>1. /\ p \in State /\ t \in State /\ Cost(o) \in Nat /\ o # None
      /\ task.h[t] \in 0 .. DeadEnd /\ DeadEnd \in Nat
  BY Operators, States
<1>2. N \in [State -> NodeType] /\ N[t] \in NodeType /\ N[p] \in NodeType
  BY <1>1 DEF AccType
<1>3. N[p].cost \in Int /\ N[p].h \in Int /\ N[t].h \in Int
  BY <1>2 DEF NodeType
<1>4. Better(N, o)
  BY DEF Better, Improves, IsNew, Reached
<1>5. Reached(N, t) => h = N[t].h
  BY DEF HeurOf, IsNew, Reached
<1>6. ~Reached(N, t) => \/ h = task.h[t]
                        \/ h \in Int /\ h >= task.h[t] /\ h = N[p].h - Cost(o)
  BY <1>1, <1>3 DEF HeurOf, IsNew, Reached, Pathmax, Larger
<1>7. h \in Int /\ h >= 0
  <2>1. Reached(N, t) => N[t].h >= 0
    BY <1>1 DEF Estimated
  <2> QED BY <1>1, <1>3, <1>5, <1>6, <2>1
<1>8. n \in NodeType
  BY <1>1, <1>3, <1>7 DEF NodeType
<1>9. Larger(h, 0) = h
  BY <1>7 DEF Larger
<1>10. InsertState(acc, t, o) =
        [after |-> [N EXCEPT ![t] = n],
         openList |-> IF h = DeadEnd THEN acc.openList
                      ELSE Append(acc.openList, Entry(g + h, h, t, None))]
  BY <1>1, <1>9 DEF InsertState, Opened
<1>11. n.h = h /\ n.cost = g /\ n.op = o /\ n.parent = p /\ n.state = "open"
  OBVIOUS
<1> HIDE DEF n, h
<1>12. OpenBy(N, n, o)
  BY <1>5, <1>8, <1>11 DEF OpenBy, NodeBy
<1>13. HeurBy(N, n, o)
  BY <1>6, <1>11 DEF HeurBy
<1>14. Generate(acc, o) =
         [after |-> [acc.after EXCEPT ![To(o)] = n],
          openList |-> IF n.h = DeadEnd THEN acc.openList
                       ELSE Append(acc.openList, Entry(n.cost + n.h, n.h, To(o), None))]
  BY <1>10, <1>11 DEF Generate
<1> QED BY <1>4, <1>12, <1>13, <1>14

\* The parts of the invariant one by one.
LEMMA ListedStays ==
    ASSUME task \in Problems, NEW N \in [State -> NodeType], NEW A, Ancestry(N, A),
           NEW o, Better(N, o), NEW n, OpenBy(N, n, o), NEW E, Listed(N, E)
    PROVE  Listed([N EXCEPT ![To(o)] = n],
                  IF n.h = DeadEnd THEN E
                  ELSE E \cup {Entry(n.cost + n.h, n.h, To(o), None)})
<1> DEFINE t == To(o)
           M == [N EXCEPT ![t] = n]
           e == Entry(n.cost + n.h, n.h, t, None)
           D == IF n.h = DeadEnd THEN E ELSE E \cup {e}
<1>1. /\ t \in State /\ M[t] = n /\ \A d \in State : d # t => M[d] = N[d]
      /\ (Reached(N, t) => M[t].cost < N[t].cost)
      /\ \A d \in State : N[d].cost \in Int /\ N[d].h \in Int /\ M[d].cost \in Int /\ M[d].h \in Int
  BY BetterWay DEF OpenBy
<1>2. n.state = "open" /\ (Reached(N, t) => n.h = N[t].h)
  BY DEF OpenBy
<1>3. e.state = t /\ e.key = <<n.cost + n.h, n.h>> /\ e.key[1] = n.cost + n.h
  BY DEF Entry
<1> HIDE DEF M, e, t
<1>4. ASSUME NEW s \in State, Live(M, s)
      PROVE  \E d \in D : d.state = s /\ d.key = <<KeyOf(M, s), M[s].h>>
  <2>1. CASE s = t
    <3>1. e \in D /\ e.state = s
      BY <1>1, <1>3, <1>4, <2>1 DEF Live
    <3>2. e.key = <<KeyOf(M, s), M[s].h>>
      BY <1>1, <1>3, <2>1 DEF KeyOf
    <3> QED BY <3>1, <3>2
  <2>2. CASE s # t
    <3>1. M[s] = N[s] /\ Live(N, s)
      BY <1>1, <1>4, <2>2 DEF Live
    <3>2. PICK d \in E : d.state = s /\ d.key = <<KeyOf(N, s), N[s].h>>
      BY <3>1 DEF Listed
    <3> QED BY <3>1, <3>2 DEF KeyOf
  <2> QED BY <2>1, <2>2
<1>5. ASSUME NEW d \in D
      PROVE  /\ d.state \in State /\ Reached(M, d.state) /\ M[d.state].h # DeadEnd
             /\ d.key[1] \in Int /\ d.key[1] >= KeyOf(M, d.state)
  <2>1. CASE d \in E
    <3> DEFINE s == d.state
    <3>1. s \in State /\ Reached(N, s) /\ N[s].h # DeadEnd /\ d.key[1] \in Int /\ d.key[1] >= KeyOf(N, s)
      BY <2>1 DEF Listed
    <3> HIDE DEF s
    <3>2. CASE s = t
      <4>1. Reached(M, s) /\ M[s].h # DeadEnd
        BY <1>1, <1>2, <3>1, <3>2 DEF Reached
      <4>2. M[s].cost < N[s].cost /\ M[s].h = N[s].h
        BY <1>1, <1>2, <3>1, <3>2
      <4>3. d.key[1] >= KeyOf(M, s)
        BY <1>1, <2>1, <3>1, <4>2 DEF KeyOf
      <4> QED BY <3>1, <4>1, <4>3 DEF s
    <3>3. CASE s # t
      BY <1>1, <3>1, <3>3 DEF s, Reached, KeyOf
    <3> QED BY <3>2, <3>3
  <2>2. CASE d \notin E
    <3>1. d = e /\ n.h # DeadEnd
      BY <1>5, <2>2
    <3> QED BY <1>1, <1>2, <1>3, <3>1 DEF Reached, KeyOf
  <2> QED BY <2>1, <2>2
<1> QED BY <1>4, <1>5 DEF Listed, M, D, e, t

LEMMA DoneStays ==
    ASSUME task \in Problems, NEW N \in [State -> NodeType], NEW A, Ancestry(N, A),
           NEW o, Better(N, o), NEW n, OpenBy(N, n, o)
    PROVE  LET t == To(o)  M == [N EXCEPT ![t] = n]
           IN /\ \A u \in State : u # t /\ Done(N, u) => Done(M, u)
              /\ DoneBut(N, From(o)) => DoneBut(M, From(o))
              /\ Reached(M, t) /\ M[t].cost <= N[From(o)].cost + Cost(o)
              /\ \A u \in State : Reached(N, u) => Reached(M, u) /\ M[u].cost <= N[u].cost
<1> DEFINE t == To(o)
           M == [N EXCEPT ![t] = n]
<1>1. /\ t \in State /\ M[t] = n /\ \A d \in State : d # t => M[d] = N[d]
      /\ (Reached(N, t) => M[t].cost < N[t].cost)
      /\ \A d \in State : N[d].cost \in Int /\ N[d].h \in Int /\ M[d].cost \in Int /\ M[d].h \in Int
  BY BetterWay DEF OpenBy
<1>2. n.state = "open" /\ n.cost = N[From(o)].cost + Cost(o)
  BY DEF OpenBy, NodeBy
<1> HIDE DEF M, t
<1>3. \A u \in State : Reached(N, u) => Reached(M, u) /\ M[u].cost <= N[u].cost
  BY <1>1, <1>2 DEF Reached
<1>4. ASSUME NEW u \in State, u # t, Done(N, u)
      PROVE  Done(M, u)
  <2>1. ASSUME NEW q \in Op, From(q) = u
        PROVE  Reached(M, To(q)) /\ M[To(q)].cost <= M[u].cost + Cost(q)
    <3>1. To(q) \in State /\ Cost(q) \in Nat
      BY Operators
    <3>2. Reached(N, To(q)) /\ N[To(q)].cost <= N[u].cost + Cost(q) /\ M[u] = N[u]
      BY <1>1, <1>4, <2>1 DEF Done
    <3>3. Reached(M, To(q)) /\ M[To(q)].cost <= N[To(q)].cost
      BY <1>3, <3>1, <3>2
    <3> QED BY <1>1, <3>1, <3>2, <3>3
  <2> QED BY <2>1 DEF Done
<1>5. ASSUME DoneBut(N, From(o))
      PROVE  DoneBut(M, From(o))
  <2>1. ASSUME NEW u \in State, M[u].state = "closed", u # From(o)
        PROVE  ~IsGoal(u) /\ Done(M, u)
    <3>1. u # t /\ M[u] = N[u]
      BY <1>1, <1>2, <2>1
    <3> QED BY <1>4, <1>5, <2>1, <3>1 DEF DoneBut
  <2> QED BY <2>1 DEF DoneBut
<1>6. M[t].cost <= N[From(o)].cost + Cost(o) /\ Reached(M, t)
  BY <1>1, <1>2 DEF Reached
<1> QED BY <1>3, <1>4, <1>5, <1>6 DEF M, t

LEMMA EstimatedStays ==
    ASSUME task \in Problems, NEW N \in [State -> NodeType], NEW A, Ancestry(N, A),
           NEW o, Better(N, o), NEW n, OpenBy(N, n, o), HeurBy(N, n, o),
           Estimated(N), N[From(o)].h # DeadEnd
    PROVE  Estimated([N EXCEPT ![To(o)] = n])
<1> DEFINE t == To(o)
           p == From(o)
           M == [N EXCEPT ![t] = n]
<1>1. /\ p \in State /\ t \in State /\ M[t] = n /\ \A d \in State : d # t => M[d] = N[d]
      /\ \A d \in State : N[d].cost \in Int /\ N[d].h \in Int /\ M[d].cost \in Int /\ M[d].h \in Int
  BY BetterWay DEF OpenBy
<1>2. /\ Reached(N, p) /\ (Reached(N, t) => n.h = N[t].h)
      /\ Cost(o) \in Nat /\ task.h[t] \in 0 .. DeadEnd /\ DeadEnd \in Nat
  BY <1>1, Operators, States DEF OpenBy, Better
<1>3. N[p].h \in 0 .. DeadEnd /\ N[p].h # DeadEnd
  BY <1>1, <1>2 DEF Estimated
<1> HIDE DEF M
<1>4. ASSUME NEW u \in State, Reached(M, u)
      PROVE  M[u].h \in 0 .. DeadEnd /\ (M[u].h = DeadEnd => task.h[u] = DeadEnd)
  <2>1. CASE Reached(N, u)
    <3>1. M[u].h = N[u].h
      BY <1>1, <1>2, <2>1
    <3> QED BY <2>1, <3>1 DEF Estimated
  <2>2. CASE ~Reached(N, u)
    <3>1. u = t
      BY <1>1, <1>4, <2>2 DEF Reached
    <3>2. \/ n.h = task.h[t]
          \/ n.h \in Int /\ n.h >= task.h[t] /\ n.h = N[p].h - Cost(o)
      BY <2>2, <3>1 DEF HeurBy
    <3> QED BY <1>1, <1>2, <1>3, <3>1, <3>2
  <2> QED BY <2>1, <2>2
<1> QED BY <1>4 DEF Estimated, M

\* No operator costs as much as a dead end.
LEMMA CostsLittle ==
    ASSUME task \in Problems, NEW o \in Op
    PROVE  Cost(o) < DeadEnd
<1> DEFINE K == Cardinality(State)
<1>1. PICK most \in 0 .. DeadEnd : /\ \A i \in DOMAIN task.op : task.op[i].cost <= most
                                   /\ K * most < DeadEnd
  BY ProblemAssumption
<1>2. most \in Nat /\ Cost(o) <= most /\ Cost(o) \in Nat /\ K \in Nat \ {0} /\ DeadEnd \in Nat
  BY <1>1, Operators, States DEF Op, Cost
<1>3. K * most >= most
  BY <1>2
<1> QED BY <1>1, <1>2, <1>3

LEMMA BoundedStays ==
    ASSUME task \in Problems, NEW N \in [State -> NodeType], NEW A, Ancestry(N, A),
           NEW o, Better(N, o), NEW n, OpenBy(N, n, o), HeurBy(N, n, o),
           BoundedBy(N, Cheapest[Cardinality(State)])
    PROVE  BoundedBy([N EXCEPT ![To(o)] = n], Cheapest[Cardinality(State)])
<1> DEFINE t == To(o)
           p == From(o)
           M == [N EXCEPT ![t] = n]
           H == Cheapest[Cardinality(State)]
<1>1. /\ p \in State /\ t \in State /\ M[t] = n /\ \A d \in State : d # t => M[d] = N[d]
      /\ \A d \in State : N[d].cost \in Int /\ N[d].h \in Int /\ M[d].cost \in Int /\ M[d].h \in Int
  BY BetterWay DEF OpenBy
<1>2. /\ o \in Op /\ Reached(N, p) /\ (Reached(N, t) => n.h = N[t].h)
      /\ n.cost = N[p].cost + Cost(o)
      /\ Cost(o) \in Nat /\ DeadEnd \in Nat /\ 0 \in State
  BY <1>1, Operators, States DEF OpenBy, NodeBy, Better
<1>3. \A s \in State : H[s] \in Nat /\ (H[s] = Infinite \/ H[s] < DeadEnd)
  BY TrueCostIs
<1>4. H[p] <= Cost(o) + H[t]
  BY <1>1, <1>2, TrueCostIs
<1>5. ASSUME \A s \in State : task.h[s] <= H[s], NEW u \in State, Reached(M, u)
      PROVE  /\ H[0] <= M[u].cost + H[u] /\ M[u].h <= H[u]
             /\ H[u] < DeadEnd => H[0] < DeadEnd
  <2>1. H[0] <= N[p].cost + H[p] /\ N[p].h <= H[p] /\ (H[p] < DeadEnd => H[0] < DeadEnd)
    BY <1>1, <1>2, <1>5 DEF BoundedBy
  <2>2. CASE u # t
    <3>1. M[u] = N[u] /\ Reached(N, u)
      BY <1>1, <1>5, <2>2 DEF Reached
    <3> QED BY <1>5, <3>1 DEF BoundedBy
  <2>3. CASE u = t
    <3>1. M[t].cost = N[p].cost + Cost(o)
      BY <1>1, <1>2
    <3> HIDE DEF H, M
    <3>2. H[0] <= M[t].cost + H[t]
      BY <1>1, <1>2, <1>3, <1>4, <2>1, <3>1
    <3>3. M[t].h <= H[t]
      <4>1. CASE Reached(N, t)
        <5>1. N[t].h <= H[t] /\ M[t].h = N[t].h
          BY <1>1, <1>2, <1>5, <4>1 DEF BoundedBy, H
        <5> QED BY <5>1
      <4>2. CASE ~Reached(N, t)
        <5>1. \/ M[t].h = task.h[t]
              \/ M[t].h = N[p].h - Cost(o)
          BY <1>1, <4>2 DEF HeurBy
        <5>2. task.h[t] <= H[t]
          BY <1>1, <1>5
        <5>3. N[p].h - Cost(o) <= H[t]
          BY <1>1, <1>2, <1>3, <1>4, <2>1
        <5> QED BY <5>1, <5>2, <5>3
      <4> QED BY <4>1, <4>2
    <3>4. H[t] < DeadEnd => H[0] < DeadEnd
      <4>1. ASSUME H[t] < DeadEnd
            PROVE  H[0] < DeadEnd
        <5>1. Cost(o) < DeadEnd
          BY <1>2, CostsLittle
        <5>2. H[p] < 2 * DeadEnd
          BY <1>1, <1>2, <1>3, <1>4, <4>1, <5>1
        <5>3. H[p] < DeadEnd
          BY <1>1, <1>3, <5>2 DEF Infinite
        <5> QED BY <2>1, <5>3
      <4> QED BY <4>1
    <3> QED BY <2>3, <3>2, <3>3, <3>4
  <2> QED BY <2>2, <2>3
<1> QED BY <1>5 DEF BoundedBy, M

-----------------------------------------------------------------------------
(* The expansion of a state by A* *)

\* Between two steps, with the open list L.
Ordered(N) == \E A : Ancestry(N, A) /\ NoDeadEnds(N, A) /\ Overtaken(N, A) /\ GoesFirst(N, A)
Known(N, L) ==
    /\ Reached(N, 0) /\ N[0].cost <= 0 /\ Listed(N, Elements(L))
    /\ Estimated(N) /\ BoundedBy(N, Cheapest[Cardinality(State)])
AStarInv(N, L) ==
    /\ Rooted(N) /\ Exact(N) /\ Ordered(N) /\ Known(N, L)
    /\ \A u \in State : N[u].state = "closed" => ~IsGoal(u) /\ Done(N, u)

\* While p is being expanded.
During(acc, p) ==
    /\ \E A : Improving(acc.after, A, p)
    /\ acc.after[p].cost = nodes[p].cost /\ acc.after[p].h = nodes[p].h
    /\ Known(acc.after, acc.openList) /\ DoneBut(acc.after, p)
Used(N, o) == Reached(N, To(o)) /\ N[To(o)].cost <= N[From(o)].cost + Cost(o)

\* One operator of p.
LEMMA ExpandOne ==
    ASSUME task \in Problems, nodes \in [State -> NodeType], NEW acc \in AccType,
           NEW p \in State, During(acc, p), NEW o \in Op, From(o) = p
    PROVE  LET next == Generate(acc, o)
           IN /\ next \in AccType /\ During(next, p) /\ Used(next.after, o)
              /\ \A q \in Op : From(q) = p /\ Used(acc.after, q) => Used(next.after, q)
<1> DEFINE N == acc.after
           L == acc.openList
           H == Cheapest[Cardinality(State)]
           next == Generate(acc, o)
<1>1. N \in [State -> NodeType] /\ L \in Seq(EntryType) /\ next \in AccType
  BY GenerateType DEF AccType
<1>2. PICK A : Improving(N, A, p)
  BY DEF During
<1>3. /\ N[p].cost = nodes[p].cost /\ N[p].h = nodes[p].h
      /\ Reached(N, 0) /\ N[0].cost <= 0 /\ Listed(N, Elements(L))
      /\ Estimated(N) /\ BoundedBy(N, H) /\ DoneBut(N, p)
  BY DEF During, Known
<1>4. Ancestry(N, A) /\ N[p].state = "closed" /\ N[p].h # DeadEnd /\ Reached(N, p)
  BY <1>2 DEF Improving, Upto, Reached
<1>5. CASE ~Improves(N, o)
  <2>1. next = acc
    BY <1>5 DEF Generate
  <2>2. Reached(N, To(o)) /\ ~(N[To(o)].cost > N[p].cost + Cost(o))
    BY <1>3, <1>5 DEF Improves, IsNew, Reached
  <2>3. N[To(o)].cost \in Int /\ N[p].cost \in Int /\ Cost(o) \in Nat
    BY <1>1, Operators DEF NodeType
  <2>4. Used(N, o)
    BY <2>2, <2>3 DEF Used
  <2> QED BY <1>1, <2>1, <2>4
<1>6. CASE Improves(N, o)
  <2>1. /\ Better(N, o)
        /\ \E n : /\ OpenBy(N, n, o) /\ HeurBy(N, n, o)
                  /\ next = [after |-> [N EXCEPT ![To(o)] = n],
                             openList |-> IF n.h = DeadEnd THEN L
                                          ELSE Append(L, Entry(n.cost + n.h, n.h, To(o), None))]
    BY <1>3, <1>4, <1>6, GenerateBetter
  <2> HIDE DEF next
  <2>2. PICK n : /\ OpenBy(N, n, o) /\ HeurBy(N, n, o)
                 /\ next = [after |-> [N EXCEPT ![To(o)] = n],
                            openList |-> IF n.h = DeadEnd THEN L
                                         ELSE Append(L, Entry(n.cost + n.h, n.h, To(o), None))]
    BY <2>1
  <2> DEFINE t == To(o)
             M == [N EXCEPT ![t] = n]
             e == Entry(n.cost + n.h, n.h, t, None)
  <2>3. next.after = M /\ next.openList = IF n.h = DeadEnd THEN L ELSE Append(L, e)
    BY <2>2
  <2>4. Improving(M, Regrown(A, p, t), p) /\ M[p] = N[p]
    BY <1>1, <1>2, <2>1, <2>2, ImprovesOne
  <2>5. /\ Reached(M, t) /\ M[t].cost <= N[p].cost + Cost(o)
        /\ \A u \in State : Reached(N, u) => Reached(M, u) /\ M[u].cost <= N[u].cost
        /\ DoneBut(N, p) => DoneBut(M, p)
    BY <1>1, <1>4, <2>1, <2>2, DoneStays
  <2>6. Estimated(M)
    BY <1>1, <1>3, <1>4, <2>1, <2>2, EstimatedStays
  <2>7. BoundedBy(M, H)
    BY <1>1, <1>3, <1>4, <2>1, <2>2, BoundedStays
  <2>8. Listed(M, IF n.h = DeadEnd THEN Elements(L) ELSE Elements(L) \cup {e})
    BY <1>1, <1>3, <1>4, <2>1, <2>2, ListedStays
  <2>9. t \in State /\ n \in NodeType /\ \A q \in Op : To(q) \in State /\ Cost(q) \in Nat
    BY <2>2, Operators DEF OpenBy, NodeBy
  <2>10. e \in EntryType
    BY <2>9 DEF EntryType, NodeType, Entry
  <2>11. \A d \in State : N[d].cost \in Int /\ M[d].cost \in Int
    BY <1>1, <1>4, <2>1, <2>2, BetterWay DEF OpenBy
  <2> HIDE DEF M, e
  <2>12. Elements(next.openList) = IF n.h = DeadEnd THEN Elements(L) ELSE Elements(L) \cup {e}
    <3> HIDE DEF L
    <3>1. Elements(Append(L, e)) = Elements(L) \cup {e}
      BY <1>1, <2>10, ElementsAppend
    <3> QED BY <2>3, <3>1
  <2>13. Listed(M, Elements(next.openList))
    BY <2>8, <2>12
  <2>14. Known(M, next.openList)
    <3>1. Reached(M, 0) /\ M[0].cost <= 0
      BY <1>3, <2>5, <2>11, States
    <3> QED BY <2>6, <2>7, <2>13, <3>1 DEF Known
  <2>15. During(next, p)
    BY <1>3, <2>3, <2>4, <2>5, <2>14 DEF During
  <2>16. Used(M, o)
    BY <2>4, <2>5 DEF Used
  <2>17. ASSUME NEW q \in Op, From(q) = p, Used(N, q)
         PROVE  Used(M, q)
    <3>1. /\ Reached(M, To(q)) /\ M[To(q)].cost <= N[To(q)].cost
          /\ N[To(q)].cost <= N[p].cost + Cost(q) /\ M[p].cost = N[p].cost
      BY <2>4, <2>5, <2>9, <2>17 DEF Used
    <3>2. M[To(q)].cost <= M[p].cost + Cost(q)
      BY <2>9, <2>11, <3>1
    <3> QED BY <2>17, <3>1, <3>2 DEF Used
  <2> QED BY <1>1, <2>3, <2>15, <2>16, <2>17 DEF next
<1> QED BY <1>5, <1>6

\* All of them.
LEMMA ExpandAll ==
    ASSUME task \in Problems, nodes \in [State -> NodeType], NEW first \in AccType,
           NEW p \in State, During(first, p)
    PROVE  LET acc == GenerateAll(first, Found(p))
           IN acc \in AccType /\ During(acc, p) /\ Done(acc.after, p)
<1> DEFINE ops == Found(p)
           n == Len(ops)
<1>1. ops \in Seq(Op) /\ Elements(ops) = {o \in Op : From(o) = p}
  BY FoundAll
<1> HIDE DEF ops
<1>2. PICK c \in [0 .. n -> AccType] :
         /\ c[0] = first
         /\ \A i \in 1 .. n : c[i] = Generate(c[i - 1], ops[i])
         /\ GenerateAll(first, ops) = c[n]
  BY <1>1, GenerateAllUnfolds
<1>3. n \in Nat /\ DOMAIN ops = 1 .. n
  BY <1>1
<1>4. \A i \in 1 .. n : ops[i] \in Op /\ From(ops[i]) = p
  BY <1>1, <1>3 DEF Elements
<1> DEFINE Good(i) == During(c[i], p) /\ \A j \in 1 .. i : Used(c[i].after, ops[j])
           T == {i \in 0 .. n : Good(i)}
<1>5. 0 \in T
  BY <1>2, <1>3
<1>6. ASSUME NEW i \in 1 .. n, i - 1 \in T
      PROVE  i \in T
  <2>1. i - 1 \in 0 .. n /\ i \in 0 .. n /\ c[i - 1] \in AccType /\ Good(i - 1)
    BY <1>3, <1>6
  <2>2. c[i] = Generate(c[i - 1], ops[i])
    BY <1>2
  <2>3. /\ During(c[i], p) /\ Used(c[i].after, ops[i])
        /\ \A q \in Op : From(q) = p /\ Used(c[i - 1].after, q) => Used(c[i].after, q)
    BY <1>4, <2>1, <2>2, ExpandOne
  <2>4. ASSUME NEW j \in 1 .. i
        PROVE  Used(c[i].after, ops[j])
    <3>1. CASE j = i
      BY <2>3, <3>1
    <3>2. CASE j # i
      <4>1. j \in 1 .. i - 1 /\ j \in 1 .. n
        BY <1>3, <3>2
      <4> QED BY <1>4, <2>1, <2>3, <4>1
    <3> QED BY <3>1, <3>2
  <2> QED BY <2>1, <2>3, <2>4
<1>7. n \in T
  <2> HIDE DEF T
  <2> QED BY <1>3, <1>5, <1>6, Counting
<1>8. c[n] \in AccType /\ Good(n)
  BY <1>2, <1>3, <1>7
<1>9. Done(c[n].after, p)
  <2>1. ASSUME NEW o \in Op, From(o) = p
        PROVE  Used(c[n].after, o)
    <3>1. o \in Elements(ops)
      BY <1>1, <2>1
    <3>2. PICK j \in 1 .. n : o = ops[j]
      BY <1>3, <3>1 DEF Elements
    <3> QED BY <1>8, <3>2
  <2> QED BY <2>1 DEF Done, Used
<1> QED BY <1>2, <1>8, <1>9 DEF ops

\* Then A* may go on with the next one.
LEMMA ExpansionEnds ==
    ASSUME task \in Problems, NEW acc \in AccType, NEW p \in State,
           During(acc, p), Done(acc.after, p), ~IsGoal(p)
    PROVE  AStarInv(acc.after, acc.openList)
<1> DEFINE N == acc.after
<1>1. N \in [State -> NodeType]
  BY DEF AccType
<1>2. PICK A : Improving(N, A, p)
  BY DEF During
<1>3. Rooted(N) /\ Ordered(N) /\ ExactBut(N, p)
  BY <1>2 DEF Improving, Ordered
<1>4. ASSUME NEW d \in State, Reached(N, d), N[d].op # None, N[From(N[d].op)].state = "closed"
      PROVE  N[d].cost = N[From(N[d].op)].cost + Cost(N[d].op)
  <2>1. CASE From(N[d].op) # p
    BY <1>3, <1>4, <2>1 DEF ExactBut
  <2>2. CASE From(N[d].op) = p
    <3> DEFINE o == N[d].op
    <3>1. o \in Op /\ To(o) = d /\ N[d].cost >= N[p].cost + Cost(o)
      BY <1>3, <1>4, <2>2 DEF Rooted
    <3>2. N[d].cost <= N[p].cost + Cost(o)
      BY <2>2, <3>1 DEF Done
    <3>3. N[d].cost \in Int /\ N[p].cost \in Int /\ Cost(o) \in Nat
      BY <1>1, <3>1, Operators DEF NodeType
    <3> HIDE DEF o
    <3>4. N[d].cost = N[p].cost + Cost(o)
      BY <3>1, <3>2, <3>3
    <3> QED BY <2>2, <3>4 DEF o
  <2> QED BY <2>1, <2>2
<1>5. Exact(N)
  BY <1>4 DEF Exact
<1>6. Known(N, acc.openList) /\ DoneBut(N, p)
  BY DEF During
<1>7. \A u \in State : N[u].state = "closed" => ~IsGoal(u) /\ Done(N, u)
  BY <1>6 DEF DoneBut
<1> QED BY <1>3, <1>5, <1>6, <1>7 DEF AStarInv

-----------------------------------------------------------------------------
(* The state that A* takes from its open list *)

\* N is what becomes of the nodes when p is closed, or was no longer open.
ClosedNow(N, p) ==
    /\ N \in [State -> NodeType]
    /\ N[p].state = "closed"
    /\ \A d \in State : /\ Reached(N, d) <=> Reached(nodes, d)
                        /\ d # p => N[d].state = nodes[d].state
                        /\ N[d].cost = nodes[d].cost /\ N[d].h = nodes[d].h
                        /\ N[d].op = nodes[d].op /\ N[d].parent = nodes[d].parent

\* Its key is the least one; the other states stay in the list.
LEMMA PopLeast ==
    ASSUME task \in Problems, nodes \in [State -> NodeType], openList \in Seq(EntryType),
           Known(nodes, openList), NEW i \in Least
    PROVE  LET p == openList[i].state  rest == RemoveAt(openList, i)
           IN /\ p \in State /\ rest \in Seq(EntryType)
              /\ Reached(nodes, p) /\ nodes[p].h # DeadEnd
              /\ \A z \in State : Live(nodes, z) => KeyOf(nodes, z) >= KeyOf(nodes, p)
              /\ \A N : ClosedNow(N, p) => Known(N, rest)
<1> DEFINE p == openList[i].state
           rest == RemoveAt(openList, i)
           q == openList
           E == Elements(q)
           H == Cheapest[Cardinality(State)]
<1>1. i \in DOMAIN q /\ \A j \in DOMAIN q : ~Before(q[j].key, q[i].key)
  BY DEF Least
<1>2. rest \in Seq(EntryType) /\ Elements(rest) \subseteq E
      /\ \A e \in E : e # q[i] => e \in Elements(rest)
  BY <1>1, ElementsRemove
<1>3. q[i] \in E /\ \A e \in E : \E j \in DOMAIN q : e = q[j]
  BY <1>1 DEF Elements
<1>4. /\ Reached(nodes, 0) /\ nodes[0].cost <= 0 /\ Listed(nodes, E)
      /\ Estimated(nodes) /\ BoundedBy(nodes, H)
  BY DEF Known
<1>5. \A d \in State : nodes[d].cost \in Int /\ nodes[d].h \in Int
  BY DEF NodeType
<1> HIDE DEF rest, q, E
<1>6. /\ p \in State /\ Reached(nodes, p) /\ nodes[p].h # DeadEnd
      /\ q[i].key[1] \in Int /\ q[i].key[1] >= KeyOf(nodes, p)
  BY <1>3, <1>4 DEF Listed, q
<1>7. ASSUME NEW z \in State, Live(nodes, z)
      PROVE  KeyOf(nodes, z) >= KeyOf(nodes, p)
  <2>1. PICK e \in E : e.state = z /\ e.key = <<KeyOf(nodes, z), nodes[z].h>>
    BY <1>4, <1>7 DEF Listed
  <2>2. ~Before(e.key, q[i].key) /\ e.key[1] = KeyOf(nodes, z)
    BY <1>1, <1>3, <2>1
  <2>3. ~(KeyOf(nodes, z) < q[i].key[1])
    BY <2>2 DEF Before
  <2>4. KeyOf(nodes, z) \in Int /\ KeyOf(nodes, p) \in Int
    BY <1>5, <1>6 DEF KeyOf
  <2> HIDE DEF p
  <2> QED BY <1>6, <2>3, <2>4
<1>8. ASSUME NEW N, ClosedNow(N, p)
      PROVE  Known(N, rest)
  <2> HIDE DEF p
  <2>1. \A d \in State : /\ Reached(N, d) <=> Reached(nodes, d)
                         /\ d # p => N[d].state = nodes[d].state
                         /\ N[d].cost = nodes[d].cost /\ N[d].h = nodes[d].h
                         /\ KeyOf(N, d) = KeyOf(nodes, d)
    BY <1>8 DEF ClosedNow, KeyOf
  <2>2. ASSUME NEW s \in State, Live(N, s)
        PROVE  \E e \in Elements(rest) : e.state = s /\ e.key = <<KeyOf(N, s), N[s].h>>
    <3>1. s # p /\ Live(nodes, s)
      BY <1>8, <2>1, <2>2 DEF ClosedNow, Live
    <3>2. PICK e \in E : e.state = s /\ e.key = <<KeyOf(nodes, s), nodes[s].h>>
      BY <1>4, <3>1 DEF Listed
    <3>3. e # q[i]
      BY <3>1, <3>2 DEF p, q
    <3> QED BY <1>2, <2>1, <3>2, <3>3
  <2>3. ASSUME NEW e \in Elements(rest)
        PROVE  /\ e.state \in State /\ Reached(N, e.state) /\ N[e.state].h # DeadEnd
               /\ e.key[1] \in Int /\ e.key[1] >= KeyOf(N, e.state)
    <3>1. /\ e.state \in State /\ Reached(nodes, e.state) /\ nodes[e.state].h # DeadEnd
          /\ e.key[1] \in Int /\ e.key[1] >= KeyOf(nodes, e.state)
      BY <1>2, <1>4, <2>3 DEF Listed
    <3> QED BY <2>1, <3>1
  <2>4. Listed(N, Elements(rest))
    BY <2>2, <2>3 DEF Listed
  <2>5. Estimated(N)
    BY <1>4, <2>1 DEF Estimated
  <2>6. BoundedBy(N, H)
    BY <1>4, <2>1 DEF BoundedBy
  <2>7. Reached(N, 0) /\ N[0].cost <= 0
    BY <1>4, <2>1, States
  <2> QED BY <2>4, <2>5, <2>6, <2>7 DEF Known
<1> QED BY <1>2, <1>6, <1>7, <1>8 DEF p, rest

\* An entry of a state that is no longer open.
LEMMA PopStale ==
    ASSUME task \in Problems, nodes \in [State -> NodeType], openList \in Seq(EntryType),
           AStarInv(nodes, openList), NEW i \in Least,
           nodes[openList[i].state].state # "open"
    PROVE  RemoveAt(openList, i) \in Seq(EntryType) /\ AStarInv(nodes, RemoveAt(openList, i))
<1> DEFINE p == openList[i].state
           rest == RemoveAt(openList, i)
<1>1. Known(nodes, openList)
  BY DEF AStarInv
<1>2. /\ p \in State /\ rest \in Seq(EntryType) /\ Reached(nodes, p)
      /\ ClosedNow(nodes, p) => Known(nodes, rest)
  BY <1>1, PopLeast
<1>3. nodes[p].state = "closed"
  BY <1>2 DEF NodeType, Reached
<1>4. ClosedNow(nodes, p)
  BY <1>3 DEF ClosedNow
<1> QED BY <1>2, <1>4 DEF AStarInv

\* The state is closed: all those on the way to it were.
LEMMA PopOpen ==
    ASSUME task \in Problems, nodes \in [State -> NodeType], openList \in Seq(EntryType),
           AStarInv(nodes, openList), NEW i \in Least,
           nodes[openList[i].state].state = "open"
    PROVE  LET p == openList[i].state
               N == [nodes EXCEPT ![p].state = "closed"]
           IN /\ p \in State /\ [after |-> N, openList |-> RemoveAt(openList, i)] \in AccType
              /\ During([after |-> N, openList |-> RemoveAt(openList, i)], p)
<1> DEFINE p == openList[i].state
           rest == RemoveAt(openList, i)
           N == [nodes EXCEPT ![p].state = "closed"]
<1>0. Rooted(nodes) /\ Exact(nodes) /\ Ordered(nodes) /\ Known(nodes, openList)
      /\ \A u \in State : nodes[u].state = "closed" => ~IsGoal(u) /\ Done(nodes, u)
  BY DEF AStarInv
<1>1. /\ p \in State /\ rest \in Seq(EntryType)
      /\ Reached(nodes, p) /\ nodes[p].h # DeadEnd
      /\ \A z \in State : Live(nodes, z) => KeyOf(nodes, z) >= KeyOf(nodes, p)
      /\ ClosedNow(N, p) => Known(N, rest)
  BY <1>0, PopLeast
<1>2. nodes[p].state = "open"
  OBVIOUS
<1> HIDE DEF rest
<1>3. ClosedNow(N, p) /\ \A d \in State : d # p => N[d] = nodes[d]
  <2>1. N[p] = [nodes[p] EXCEPT !.state = "closed"] /\ \A d \in State : d # p => N[d] = nodes[d]
    BY <1>1
  <2>2. nodes[p] \in NodeType
    BY <1>1
  <2>3. N[p] \in NodeType
    BY <2>1, <2>2 DEF NodeType
  <2>4. N \in [State -> NodeType]
    <3>1. N = [d \in State |-> N[d]]
      BY <1>1
    <3>2. \A d \in State : N[d] \in NodeType
      BY <2>1, <2>3
    <3> HIDE DEF N
    <3> QED BY <3>1, <3>2
  <2>5. /\ N[p].state = "closed" /\ N[p].cost = nodes[p].cost /\ N[p].h = nodes[p].h
        /\ N[p].op = nodes[p].op /\ N[p].parent = nodes[p].parent
    BY <2>1, <2>2 DEF NodeType
  <2>6. Reached(N, p)
    BY <2>5 DEF Reached
  <2> HIDE DEF N
  <2> QED BY <1>1, <2>1, <2>4, <2>5, <2>6 DEF ClosedNow, Reached
<1> HIDE DEF N, p
<1>4. PICK A : /\ Ancestry(nodes, A) /\ NoDeadEnds(nodes, A)
               /\ Overtaken(nodes, A) /\ GoesFirst(nodes, A)
  BY <1>0 DEF Ordered
<1>5. /\ N \in [State -> NodeType] /\ N[p].state = "closed"
      /\ \A d \in State : /\ Reached(N, d) <=> Reached(nodes, d)
                          /\ d # p => N[d].state = nodes[d].state
                          /\ N[d].cost = nodes[d].cost /\ N[d].h = nodes[d].h
                          /\ N[d].op = nodes[d].op /\ N[d].parent = nodes[d].parent
                          /\ KeyOf(N, d) = KeyOf(nodes, d)
                          /\ nodes[d].cost \in Int /\ nodes[d].h \in Int
                          /\ KeyOf(nodes, d) \in Int
                          /\ Live(N, d) => d # p /\ Live(nodes, d)
  <2>1. /\ N \in [State -> NodeType] /\ N[p].state = "closed"
        /\ \A d \in State : /\ Reached(N, d) <=> Reached(nodes, d)
                            /\ d # p => N[d].state = nodes[d].state
                            /\ N[d].cost = nodes[d].cost /\ N[d].h = nodes[d].h
                            /\ N[d].op = nodes[d].op /\ N[d].parent = nodes[d].parent
    BY <1>3 DEF ClosedNow
  <2>2. \A d \in State : nodes[d].cost \in Int /\ nodes[d].h \in Int
    BY DEF NodeType
  <2>3. \A d \in State : KeyOf(N, d) = KeyOf(nodes, d) /\ KeyOf(nodes, d) \in Int
    BY <2>1, <2>2 DEF KeyOf
  <2>4. \A d \in State : Live(N, d) => d # p /\ Live(nodes, d)
    BY <2>1 DEF Live
  <2> QED BY <2>1, <2>2, <2>3, <2>4
<1>6. Live(nodes, p)
  BY <1>1, <1>2 DEF Live
<1>7. \A d \in State : \A a \in A[d] : a \in State /\ Reached(nodes, a) /\ nodes[a].h # DeadEnd
  BY <1>4 DEF Ancestry, NoDeadEnds
<1>8. Rooted(N)
  <2>1. \A o \in Op : From(o) \in State
    BY Operators
  <2> SUFFICES ASSUME NEW d \in State, Reached(N, d)
               PROVE  IF N[d].op = None THEN d = 0 /\ N[d].cost = 0
                      ELSE /\ N[d].op \in Op /\ To(N[d].op) = d /\ N[d].parent = From(N[d].op)
                           /\ Reached(N, From(N[d].op))
                           /\ N[d].cost >= N[From(N[d].op)].cost + Cost(N[d].op)
    BY DEF Rooted
  <2>2. /\ Reached(nodes, d) /\ N[d].cost = nodes[d].cost
        /\ N[d].op = nodes[d].op /\ N[d].parent = nodes[d].parent
    BY <1>5
  <2>3. CASE nodes[d].op = None
    BY <1>0, <2>2, <2>3 DEF Rooted
  <2>4. CASE nodes[d].op # None
    <3> DEFINE o == nodes[d].op
    <3>1. /\ o \in Op /\ To(o) = d /\ nodes[d].parent = From(o) /\ Reached(nodes, From(o))
          /\ nodes[d].cost >= nodes[From(o)].cost + Cost(o)
      BY <1>0, <2>2, <2>4 DEF Rooted
    <3>2. Reached(N, From(o)) /\ N[From(o)].cost = nodes[From(o)].cost
      BY <1>5, <2>1, <3>1
    <3> QED BY <2>2, <2>4, <3>1, <3>2
  <2> QED BY <2>3, <2>4
<1>9. Ancestry(N, A)
  BY <1>4, <1>5, <1>7 DEF Ancestry
<1>10. NoDeadEnds(N, A)
  BY <1>4, <1>5, <1>7 DEF NoDeadEnds
<1>11. ExactBut(N, p)
  <2>1. ASSUME NEW d \in State, Reached(N, d), N[d].op # None, From(N[d].op) # p,
               N[From(N[d].op)].state = "closed"
        PROVE  N[d].cost = N[From(N[d].op)].cost + Cost(N[d].op)
    <3> DEFINE u == From(N[d].op)
    <3>1. N[d].op \in Op
      BY <1>8, <2>1 DEF Rooted
    <3>2. u \in State
      BY <3>1, Operators
    <3>3. nodes[d].op = N[d].op /\ nodes[d].cost = N[d].cost /\ Reached(nodes, d)
      BY <1>5, <2>1
    <3>4. nodes[u].state = "closed" /\ nodes[u].cost = N[u].cost
      BY <1>5, <2>1, <3>2
    <3>5. nodes[d].cost = nodes[u].cost + Cost(N[d].op)
      BY <1>0, <2>1, <3>3, <3>4 DEF Exact
    <3> QED BY <3>3, <3>4, <3>5
  <2> QED BY <2>1 DEF ExactBut
<1>12. ASSUME NEW a \in A[p]
       PROVE  nodes[a].state = "closed" /\ a # p
  <2>1. a \in State /\ Reached(nodes, a) /\ nodes[a].h # DeadEnd /\ a # p
    BY <1>1, <1>4, <1>7 DEF Ancestry
  <2>2. ASSUME nodes[a].state = "open"
        PROVE  FALSE
    <3>1. KeyOf(nodes, a) < KeyOf(nodes, p)
      BY <1>1, <1>4, <1>6, <2>2 DEF GoesFirst
    <3>2. KeyOf(nodes, a) >= KeyOf(nodes, p)
      BY <1>1, <2>1, <2>2 DEF Live
    <3> QED BY <1>1, <1>5, <2>1, <3>1, <3>2
  <2> QED BY <2>1, <2>2 DEF NodeType, Reached
<1>13. \A a \in Upto(A, p) : N[a].state = "closed" /\ N[a].h # DeadEnd /\ a \in State
  BY <1>1, <1>5, <1>7, <1>12 DEF Upto
<1>14. ASSUME NEW d \in State, NEW z \in State, NEW a \in A[d],
              N[a].state = "closed", Live(N, d), Live(N, z)
       PROVE  KeyOf(N, z) >= KeyOf(N, a) \/ KeyOf(N, d) >= KeyOf(N, a) \/ N[z].cost >= N[a].cost
  <2>1. a \in State /\ Live(nodes, d) /\ Live(nodes, z)
    BY <1>5, <1>7, <1>14
  <2>2. CASE a = p
    BY <1>1, <1>5, <2>1, <2>2
  <2>3. CASE a # p
    <3>1. nodes[a].state = "closed"
      BY <1>5, <1>14, <2>1, <2>3
    <3> QED BY <1>4, <1>5, <1>14, <2>1, <3>1 DEF Overtaken
  <2> QED BY <2>2, <2>3
<1>15. ASSUME NEW d \in State, NEW a \in A[d], N[a].state = "open", Live(N, d)
       PROVE  KeyOf(N, a) < KeyOf(N, d)
  <2>1. a \in State /\ a # p /\ nodes[a].state = "open" /\ Live(nodes, d)
    BY <1>5, <1>7, <1>15
  <2> QED BY <1>4, <1>5, <1>15, <2>1 DEF GoesFirst
<1>16. ASSUME NEW d \in State, NEW a \in A[d], N[a].state = "closed", Live(N, d)
       PROVE  KeyOf(N, d) >= KeyOf(N, a) \/ N[a].cost <= N[p].cost
  <2>1. a \in State /\ Live(nodes, d) /\ KeyOf(nodes, d) >= KeyOf(nodes, p)
    BY <1>1, <1>5, <1>7, <1>16
  <2>2. CASE a = p
    BY <1>5, <2>1, <2>2
  <2>3. CASE a # p
    <3>1. nodes[a].state = "closed"
      BY <1>5, <1>16, <2>1, <2>3
    <3>2. \/ KeyOf(nodes, p) >= KeyOf(nodes, a) \/ KeyOf(nodes, d) >= KeyOf(nodes, a)
          \/ nodes[p].cost >= nodes[a].cost
      BY <1>1, <1>4, <1>6, <1>16, <2>1, <3>1 DEF Overtaken
    <3> QED BY <1>1, <1>5, <2>1, <3>2
  <2> QED BY <2>2, <2>3
<1>17. ASSUME NEW z \in State, NEW a \in Upto(A, p), Live(N, z)
       PROVE  KeyOf(N, z) >= KeyOf(N, a) \/ N[z].cost >= N[a].cost
  <2>1. a \in State /\ Live(nodes, z) /\ KeyOf(nodes, z) >= KeyOf(nodes, p)
    BY <1>1, <1>5, <1>13, <1>17
  <2>2. CASE a = p
    BY <1>5, <2>1, <2>2
  <2>3. CASE a # p
    <3>1. a \in A[p] /\ nodes[a].state = "closed"
      BY <1>12, <2>3 DEF Upto
    <3>2. \/ KeyOf(nodes, z) >= KeyOf(nodes, a) \/ KeyOf(nodes, p) >= KeyOf(nodes, a)
          \/ nodes[z].cost >= nodes[a].cost
      BY <1>1, <1>4, <1>6, <1>17, <2>1, <3>1 DEF Overtaken
    <3> QED BY <1>1, <1>5, <2>1, <3>2
  <2> QED BY <2>2, <2>3
<1>18. Improving(N, A, p)
  <2>1. Overtaken(N, A)
    BY <1>14 DEF Overtaken
  <2>2. GoesFirst(N, A)
    BY <1>15 DEF GoesFirst
  <2>3. OvertakenBy(N, A, p)
    BY <1>16, <1>17 DEF OvertakenBy
  <2> QED BY <1>8, <1>9, <1>10, <1>11, <1>13, <2>1, <2>2, <2>3 DEF Improving
<1>19. DoneBut(N, p)
  <2>1. ASSUME NEW u \in State, N[u].state = "closed", u # p
        PROVE  ~IsGoal(u) /\ Done(N, u)
    <3>1. ~IsGoal(u) /\ Done(nodes, u)
      BY <1>0, <1>5, <2>1
    <3>2. \A o \in Op : To(o) \in State
      BY Operators
    <3> QED BY <1>5, <3>1, <3>2 DEF Done
  <2> QED BY <2>1 DEF DoneBut
<1>20. Known(N, rest)
  BY <1>1, <1>3
<1>21. [after |-> N, openList |-> rest] \in AccType
  BY <1>1, <1>5 DEF AccType
<1>22. During([after |-> N, openList |-> rest], p)
  BY <1>1, <1>5, <1>18, <1>19, <1>20 DEF During
<1> QED BY <1>1, <1>21, <1>22 DEF N, p, rest

\* The first step.
LEMMA AStarStarts ==
    ASSUME task \in Problems, nodes = [s \in State |-> NewNode]
    PROVE  LET first == InsertState([after |-> nodes, openList |-> <<>>], 0, None)
           IN first \in AccType /\ AStarInv(first.after, first.openList)
<1> DEFINE h == task.h[0]
           n == [state |-> "open", parent |-> None, op |-> None, cost |-> 0, h |-> h]
           M == [nodes EXCEPT ![0] = n]
           e == Entry(h, h, 0, None)
           L == IF h = DeadEnd THEN <<>> ELSE Append(<<>>, e)
           first == InsertState([after |-> nodes, openList |-> <<>>], 0, None)
           H == Cheapest[Cardinality(State)]
           A == [s \in State |-> {}]
<1>1. 0 \in State /\ task.h \in [State -> 0 .. DeadEnd] /\ DeadEnd \in Nat /\ None \notin Op
  BY States, Operators
<1>2. h \in Nat /\ h <= DeadEnd
  BY <1>1
<1>3. IsNew(nodes, 0)
  BY <1>1 DEF IsNew, NewNode
<1>4. first = [after |-> M, openList |-> L]
  <2>1. HeurOf(nodes, 0, None) = h
    BY <1>3 DEF HeurOf
  <2>2. Larger(h, 0) = h /\ 0 + h = h
    BY <1>2 DEF Larger
  <2> HIDE DEF h
  <2> QED BY <2>1, <2>2 DEF InsertState, Opened
<1> HIDE DEF first
<1>5. n \in NodeType /\ NewNode \in NodeType /\ e \in EntryType
  BY <1>1, <1>2 DEF NodeType, NewNode, EntryType, Entry, None
<1>6. M \in [State -> NodeType] /\ M[0] = n /\ \A d \in State : d # 0 => M[d] = NewNode
  BY <1>1, <1>5
<1>7. L \in Seq(EntryType) /\ Elements(L) = IF h = DeadEnd THEN {} ELSE {e}
  <2>1. <<>> \in Seq(EntryType) /\ Elements(<<>>) = {}
    BY DEF Elements
  <2> DEFINE q == <<>>
  <2> HIDE DEF e, q
  <2>2. q \in Seq(EntryType) /\ Elements(q) = {}
    BY <2>1 DEF q
  <2>3. Append(q, e) \in Seq(EntryType)
    BY <1>5, <2>2, AppendProperties
  <2>4. Elements(Append(q, e)) = {e}
    BY <1>5, <2>2, ElementsAppend
  <2>5. L = IF h = DeadEnd THEN q ELSE Append(q, e)
    BY DEF q
  <2> HIDE DEF L
  <2> QED BY <2>2, <2>3, <2>4, <2>5
<1>8. /\ n.state = "open" /\ n.op = None /\ n.cost = 0 /\ n.h = h /\ NewNode.state = "new"
      /\ e.state = 0 /\ e.key = <<h, h>> /\ e.key[1] = h
  BY DEF NewNode, Entry
<1> HIDE DEF M, L, n, e
<1>9. /\ Reached(M, 0) /\ \A d \in State : Reached(M, d) => d = 0
      /\ \A d \in State : M[d].state # "closed"
  BY <1>6, <1>8 DEF Reached
<1>10. Rooted(M) /\ Exact(M)
  BY <1>6, <1>8, <1>9 DEF Rooted, Exact
<1>11. Ordered(M)
  <2>1. Ancestry(M, A)
    BY <1>6, <1>8, <1>9 DEF Ancestry
  <2>2. NoDeadEnds(M, A) /\ Overtaken(M, A) /\ GoesFirst(M, A)
    BY DEF NoDeadEnds, Overtaken, GoesFirst
  <2> HIDE DEF A
  <2> QED BY <2>1, <2>2 DEF Ordered
<1>12. Listed(M, Elements(L))
  <2>1. KeyOf(M, 0) = h
    BY <1>2, <1>6, <1>8 DEF KeyOf
  <2>2. \A s \in State : Live(M, s) => s = 0 /\ h # DeadEnd
    BY <1>6, <1>8, <1>9 DEF Live, Reached
  <2> HIDE DEF h
  <2> QED BY <1>1, <1>2, <1>6, <1>7, <1>8, <1>9, <2>1, <2>2 DEF Listed
<1>13. Estimated(M)
  BY <1>2, <1>6, <1>8, <1>9 DEF Estimated
<1>14. BoundedBy(M, H)
  <2>1. H[0] \in Nat
    BY <1>1, TrueCostIs
  <2> HIDE DEF H
  <2> QED BY <1>6, <1>8, <1>9, <2>1 DEF BoundedBy
<1>15. Known(M, L)
  BY <1>6, <1>8, <1>9, <1>12, <1>13, <1>14 DEF Known
<1>16. AStarInv(M, L)
  BY <1>9, <1>10, <1>11, <1>15 DEF AStarInv
<1>17. first \in AccType
  BY <1>4, <1>6, <1>7 DEF AccType
<1> QED BY <1>4, <1>16, <1>17 DEF first

-----------------------------------------------------------------------------
(* What A* has found *)

AdmissibleBy(H) == \A s \in State : task.h[s] <= H[s]

\* There is a node that is still to be expanded on every way to a goal.
LEMMA OnTheWay ==
    ASSUME task \in Problems, nodes \in [State -> NodeType], AStarInv(nodes, openList),
           AdmissibleBy(Cheapest[Cardinality(State)]),
           Cheapest[Cardinality(State)][0] < DeadEnd
    PROVE  \E z \in State :
              /\ Live(nodes, z)
              /\ KeyOf(nodes, z) <= Cheapest[Cardinality(State)][0]
<1> DEFINE K == Cardinality(State)
           H == Cheapest[K]
           There == \E z \in State : Live(nodes, z) /\ KeyOf(nodes, z) <= H[0]
           P(n) == \A u \in State :
                     (/\ Reached(nodes, u) /\ Cheapest[n][u] < DeadEnd
                      /\ nodes[u].cost + Cheapest[n][u] <= H[0])
                       => There
           T == {n \in 0 .. K : P(n)}
<1>1. K \in Nat /\ DeadEnd \in Nat \ {0} /\ 0 \in State
  BY States
<1>2. \A u \in State : /\ H[u] \in Nat /\ nodes[u].cost \in Int /\ nodes[u].h \in Int
                       /\ nodes[u].state \in {"new", "open", "closed"}
  BY TrueCostIs DEF NodeType
<1>3. /\ Reached(nodes, 0) /\ nodes[0].cost <= 0
      /\ \A u \in State : Reached(nodes, u) => nodes[u].h <= H[u]
      /\ \A u \in State : nodes[u].state = "closed" => ~IsGoal(u) /\ Done(nodes, u)
  BY DEF AStarInv, Known, BoundedBy, AdmissibleBy
<1>4. ASSUME NEW n \in 0 .. K, NEW u \in State, nodes[u].state = "open",
             Cheapest[n][u] < DeadEnd, nodes[u].cost + Cheapest[n][u] <= H[0]
      PROVE  There
  <2>1. H[u] <= Cheapest[n][u] /\ Cheapest[n][u] \in Nat
    BY CheapestLast, CheapestStep
  <2>2. nodes[u].h <= H[u]
    BY <1>3, <1>4 DEF Reached
  <2> HIDE DEF H
  <2>3. Live(nodes, u)
    BY <1>1, <1>2, <1>4, <2>1, <2>2 DEF Live
  <2>4. KeyOf(nodes, u) <= H[0]
    BY <1>1, <1>2, <1>4, <2>1, <2>2 DEF KeyOf
  <2> QED BY <2>3, <2>4
<1>5. 0 \in T
  <2>1. ASSUME NEW u \in State, Reached(nodes, u), Cheapest[0][u] < DeadEnd,
               nodes[u].cost + Cheapest[0][u] <= H[0]
        PROVE  There
    <3>1. IsGoal(u)
      <4>1. ~IsGoal(u) => Cheapest[0][u] = Infinite
        BY CheapestStep
      <4> QED BY <1>1, <2>1, <4>1 DEF Infinite
    <3>2. nodes[u].state = "open"
      BY <1>2, <1>3, <2>1, <3>1 DEF Reached
    <3> HIDE DEF There, H
    <3> QED BY <1>1, <1>4, <2>1, <3>2
  <2>2. P(0)
    <3> HIDE DEF There, H
    <3> QED BY <2>1
  <2> HIDE DEF P
  <2> QED BY <1>1, <2>2
<1>6. ASSUME NEW n \in 1 .. K, n - 1 \in T
      PROVE  n \in T
  <2>0. n \in 0 .. K /\ n - 1 \in 0 .. K
    BY <1>1
  <2>1. ASSUME NEW u \in State, Reached(nodes, u), Cheapest[n][u] < DeadEnd,
               nodes[u].cost + Cheapest[n][u] <= H[0]
        PROVE  There
    <3>1. CASE nodes[u].state = "open"
      <4> HIDE DEF There, H
      <4> QED BY <1>4, <2>0, <2>1, <3>1
    <3>2. CASE nodes[u].state # "open"
      <4>1. ~IsGoal(u) /\ Done(nodes, u)
        BY <1>2, <1>3, <2>1, <3>2 DEF Reached
      <4>2. Cheapest[n][u] # Infinite
        BY <1>1, <2>1 DEF Infinite
      <4>3. PICK o \in Op : From(o) = u /\ Cheapest[n][u] = Cost(o) + Cheapest[n - 1][To(o)]
        BY <4>1, <4>2, CheapestStep
      <4>4. To(o) \in State /\ Cost(o) \in Nat
        BY Operators
      <4>5. Reached(nodes, To(o)) /\ nodes[To(o)].cost <= nodes[u].cost + Cost(o)
        BY <4>1, <4>3 DEF Done
      <4>6. Cheapest[n - 1][To(o)] \in Nat
        BY <2>0, <4>4, CheapestStep
      <4> HIDE DEF There, H
      <4>7. /\ Cheapest[n - 1][To(o)] < DeadEnd
            /\ nodes[To(o)].cost + Cheapest[n - 1][To(o)] <= H[0]
        BY <1>1, <1>2, <2>1, <4>3, <4>4, <4>5, <4>6
      <4> QED BY <1>6, <4>4, <4>5, <4>7
    <3> QED BY <3>1, <3>2
  <2>2. P(n)
    <3> HIDE DEF There, H
    <3> QED BY <2>1
  <2> HIDE DEF P
  <2> QED BY <2>0, <2>2
<1>7. K \in T
  <2> HIDE DEF T
  <2> QED BY <1>1, <1>5, <1>6, Counting
<1>8. Reached(nodes, 0) /\ Cheapest[K][0] < DeadEnd /\ nodes[0].cost + Cheapest[K][0] <= H[0]
  BY <1>1, <1>2, <1>3
<1> HIDE DEF There
<1>9. There
  BY <1>1, <1>7, <1>8
<1> QED BY <1>9 DEF There

\* What the way back to goal g is, and costs.
GoalPath(N, g) == IsPath(Way(N, g), g) /\ CostOf(task, Way(N, g)) = N[g].cost
Optimal(c) == AdmissibleBy(Cheapest[Cardinality(State)]) => c = Cheapest[Cardinality(State)][0]

\* The goal that is taken from the open list.
LEMMA PopGoal ==
    ASSUME task \in Problems, nodes \in [State -> NodeType], openList \in Seq(EntryType),
           AStarInv(nodes, openList), NEW i \in Least,
           nodes[openList[i].state].state = "open", IsGoal(openList[i].state)
    PROVE  LET p == openList[i].state
               N == [nodes EXCEPT ![p].state = "closed"]
           IN GoalPath(N, p) /\ Optimal(N[p].cost)
<1> DEFINE p == openList[i].state
           N == [nodes EXCEPT ![p].state = "closed"]
           H == Cheapest[Cardinality(State)]
<1>1. /\ p \in State /\ [after |-> N, openList |-> RemoveAt(openList, i)] \in AccType
      /\ During([after |-> N, openList |-> RemoveAt(openList, i)], p)
  BY PopOpen
<1>2. /\ Reached(nodes, p) /\ nodes[p].h # DeadEnd
      /\ \A z \in State : Live(nodes, z) => KeyOf(nodes, z) >= KeyOf(nodes, p)
  BY PopLeast DEF AStarInv
<1> HIDE DEF N, p
<1>3. /\ N \in [State -> NodeType] /\ \E A : Improving(N, A, p)
      /\ N[p].cost = nodes[p].cost /\ Known(N, RemoveAt(openList, i))
  BY <1>1 DEF During, AccType
<1>4. PICK A : Improving(N, A, p)
  BY <1>3
<1>5. /\ Rooted(N) /\ ExactBut(N, p) /\ Ancestry(N, A)
      /\ N[p].state = "closed" /\ \A a \in A[p] : N[a].state = "closed"
  BY <1>4 DEF Improving, Upto
<1>6. GoalPath(N, p)
  <2>1. Reached(N, p)
    BY <1>5 DEF Reached
  <2> QED BY <1>1, <1>3, <1>5, <2>1, WayIsPath DEF GoalPath
<1>7. ASSUME AdmissibleBy(H)
      PROVE  N[p].cost = H[0]
  <2>1. H[p] = 0 /\ H[0] \in Nat /\ DeadEnd \in Nat \ {0} /\ 0 \in State
    BY <1>1, TrueCostIs, States DEF p
  <2>2. H[0] <= N[p].cost + H[p] /\ (H[p] < DeadEnd => H[0] < DeadEnd)
    BY <1>1, <1>3, <1>5, <1>7 DEF Known, BoundedBy, AdmissibleBy, Reached
  <2>3. H[0] < DeadEnd
    BY <2>1, <2>2
  <2>4. PICK z \in State : Live(nodes, z) /\ KeyOf(nodes, z) <= H[0]
    BY <1>7, <2>3, OnTheWay
  <2>5. KeyOf(nodes, z) >= KeyOf(nodes, p)
    BY <1>2, <2>4
  <2>6. nodes[p].h \in Nat
    BY <1>1, <1>2 DEF AStarInv, Known, Estimated
  <2>7. \A u \in State : nodes[u].cost \in Int /\ nodes[u].h \in Int
    BY DEF NodeType
  <2> HIDE DEF H
  <2> QED BY <1>1, <1>3, <2>1, <2>2, <2>4, <2>5, <2>6, <2>7 DEF KeyOf
<1> QED BY <1>6, <1>7 DEF Optimal, N, p

\* A step of A*.
LEMMA AStarTaken ==
    ASSUME task \in Problems, nodes \in [State -> NodeType], openList \in Seq(EntryType),
           AStarInv(nodes, openList), NEW i \in Least,
           AStarStep(openList[i], RemoveAt(openList, i))
    PROVE  /\ nodes' \in [State -> NodeType] /\ openList' \in Seq(EntryType)
           /\ \/ res' = "cont" /\ AStarInv(nodes', openList')
              \/ /\ res' = "found" /\ goalState' \in State /\ IsGoal(goalState')
                 /\ GoalPath(nodes', goalState') /\ Optimal(nodes'[goalState'].cost)
<1> DEFINE p == openList[i].state
           rest == RemoveAt(openList, i)
           closed == [nodes EXCEPT ![p].state = "closed"]
           first == [after |-> closed, openList |-> rest]
           acc == GenerateAll(first, Found(p))
<1>1. CASE /\ nodes[p].state # "open"
           /\ res' = "cont" /\ openList' = rest
           /\ UNCHANGED <<nodes, goalState>>
  BY <1>1, PopStale
<1>2. ASSUME nodes[p].state = "open"
      PROVE  p \in State /\ first \in AccType /\ During(first, p)
  BY <1>2, PopOpen
<1>3. CASE /\ nodes[p].state = "open" /\ IsGoal(p)
           /\ nodes' = closed
           /\ res' = "found" /\ openList' = rest
           /\ goalState' = p
  <2>1. GoalPath(closed, p) /\ Optimal(closed[p].cost)
    BY <1>3, PopGoal
  <2> HIDE DEF closed, rest, p
  <2>2. closed \in [State -> NodeType] /\ rest \in Seq(EntryType)
    BY <1>2, <1>3 DEF AccType
  <2> QED BY <1>2, <1>3, <2>1, <2>2
<1>4. CASE /\ nodes[p].state = "open" /\ ~IsGoal(p)
           /\ nodes' = acc.after
           /\ res' = "cont" /\ openList' = acc.openList
           /\ UNCHANGED goalState
  <2> HIDE DEF first, p
  <2>1. acc \in AccType /\ During(acc, p) /\ Done(acc.after, p)
    BY <1>2, <1>4, ExpandAll
  <2> HIDE DEF acc
  <2>2. AStarInv(acc.after, acc.openList)
    BY <1>2, <1>4, <2>1, ExpansionEnds
  <2> QED BY <1>4, <2>1, <2>2 DEF AccType
<1> QED BY <1>1, <1>3, <1>4 DEF AStarStep

-----------------------------------------------------------------------------
(* Lazy search and enforced hill climbing *)

\* The nodes: each one that was reached is closed, and has the estimate of its
\* state.
LazyTree(N) ==
    /\ Rooted(N) /\ Exact(N) /\ \E A : Ancestry(N, A)
    /\ Reached(N, 0)
    /\ \A u \in State : Reached(N, u) => N[u].state = "closed" /\ N[u].h = task.h[u]

\* The entries: the root, or an operator of a state that was reached.
LazyList(N, L) ==
    \A e \in Elements(L) :
        IF e.op = None THEN e.state = 0 ELSE e.op \in Op /\ Reached(N, From(e.op))

\* When all operators are used, a state that is no dead end was expanded, but
\* for the root at the beginning; what its operators lead to was reached, is a
\* dead end, or waits in the list.
AllOperators == alg.kind # "ehc" /\ alg.pref # "only"
Waits(N, L, u) ==
    \/ u = 0 /\ \E e \in Elements(L) : e.op = None
    \/ /\ ~IsGoal(u)
       /\ \A o \in Op : From(o) = u =>
             \/ Reached(N, To(o)) \/ task.h[To(o)] = DeadEnd
             \/ \E e \in Elements(L) : e.op = o
LazyDoneBut(N, L, s) ==
    AllOperators => \A u \in State : Reached(N, u) /\ task.h[u] # DeadEnd /\ u # s => Waits(N, L, u)

LazyInv(N, L) == LazyTree(N) /\ LazyList(N, L) /\ LazyDoneBut(N, L, None)

\* A state is reached for the first time.
LEMMA LazyReaches ==
    ASSUME task \in Problems, nodes \in [State -> NodeType], LazyTree(nodes),
           NEW o \in Op, Reached(nodes, From(o)), ~Reached(nodes, To(o))
    PROVE  LET t == To(o)
               M == [nodes EXCEPT ![t] = Created(o, task.h[t])]
           IN /\ M \in [State -> NodeType] /\ LazyTree(M)
              /\ \A d \in State : Reached(M, d) <=> d = t \/ Reached(nodes, d)
<1> DEFINE t == To(o)
           p == From(o)
           n == Created(o, task.h[t])
           M == [nodes EXCEPT ![t] = n]
<1>1. /\ p \in State /\ t \in State /\ Cost(o) \in Nat /\ o # None /\ task.h[t] \in Int
      /\ \A q \in Op : From(q) \in State
  BY Operators
<1>2. nodes[p].cost \in Int
  BY <1>1 DEF NodeType
<1>3. /\ n \in NodeType /\ n.state = "closed" /\ n.op = o /\ n.parent = p
      /\ n.cost = nodes[p].cost + Cost(o) /\ n.h = task.h[t]
  BY <1>1, <1>2 DEF Created, NodeType
<1>4. M \in [State -> NodeType] /\ M[t] = n /\ \A d \in State : d # t => M[d] = nodes[d]
  BY <1>1, <1>3
<1>5. /\ Rooted(nodes) /\ Exact(nodes) /\ Reached(nodes, 0) /\ 0 \in State
      /\ \A u \in State : Reached(nodes, u) =>
            nodes[u].state = "closed" /\ nodes[u].h = task.h[u]
  BY States DEF LazyTree
<1>6. PICK A : Ancestry(nodes, A)
  BY DEF LazyTree
<1>7. Better(nodes, o)
  BY DEF Better
<1>8. NodeBy(nodes, n, o)
  BY <1>3 DEF NodeBy
<1>9. Rooted(M) /\ Ancestry(M, Regrown(A, p, t))
  BY <1>5, <1>6, <1>7, <1>8, TreeGrows
<1>10. ~Reached(nodes, t) /\ Reached(nodes, p)
  OBVIOUS
<1> HIDE DEF M, n, t, p
<1>11. \A d \in State : Reached(M, d) <=> d = t \/ Reached(nodes, d)
  BY <1>3, <1>4 DEF Reached
<1>12. ASSUME NEW d \in State, Reached(M, d), M[d].op # None, M[From(M[d].op)].state = "closed"
       PROVE  M[d].cost = M[From(M[d].op)].cost + Cost(M[d].op)
  <2>1. CASE d = t
    <3>1. p # t
      BY <1>10
    <3> QED BY <1>1, <1>3, <1>4, <2>1, <3>1 DEF p
  <2>2. CASE d # t
    <3>1. M[d] = nodes[d] /\ Reached(nodes, d)
      BY <1>4, <1>11, <1>12, <2>2
    <3>2. From(nodes[d].op) \in State /\ Reached(nodes, From(nodes[d].op))
      BY <1>1, <1>5, <1>12, <3>1 DEF Rooted
    <3>3. From(nodes[d].op) # t
      BY <1>10, <3>2
    <3> QED BY <1>4, <1>5, <1>12, <3>1, <3>2, <3>3 DEF Exact
  <2> QED BY <2>1, <2>2
<1>13. Exact(M)
  BY <1>12 DEF Exact
<1>14. \A u \in State : Reached(M, u) => M[u].state = "closed" /\ M[u].h = task.h[u]
  BY <1>3, <1>4, <1>5, <1>11
<1>15. LazyTree(M)
  BY <1>5, <1>9, <1>11, <1>13, <1>14 DEF LazyTree
<1> QED BY <1>4, <1>11, <1>15 DEF M, n, t

\* A state that is a dead end stays new.
LEMMA LazyDeadEnd ==
    ASSUME task \in Problems, nodes \in [State -> NodeType], LazyTree(nodes),
           NEW o \in Op, ~Reached(nodes, To(o))
    PROVE  LET t == To(o)
               M == [nodes EXCEPT ![t].parent = From(o), ![t].op = o, ![t].h = task.h[t]]
           IN /\ M \in [State -> NodeType] /\ LazyTree(M)
              /\ \A d \in State : Reached(M, d) <=> Reached(nodes, d)
<1> DEFINE t == To(o)
           M == [nodes EXCEPT ![t].parent = From(o), ![t].op = o, ![t].h = task.h[t]]
           n == [nodes[t] EXCEPT !.parent = From(o), !.op = o, !.h = task.h[t]]
<1>1. /\ From(o) \in State /\ t \in State /\ o # None /\ task.h[t] \in Int
      /\ \A q \in Op : From(q) \in State
  BY Operators
<1>2. M[t] = n /\ \A d \in State : d # t => M[d] = nodes[d]
  BY <1>1
<1>3. nodes[t] \in NodeType
  BY <1>1
<1>4. n \in NodeType /\ n.state = nodes[t].state /\ n.cost = nodes[t].cost
  BY <1>1, <1>3 DEF NodeType
<1>5. M \in [State -> NodeType]
  <2>1. M = [d \in State |-> M[d]] /\ \A d \in State : M[d] \in NodeType
    BY <1>1, <1>2, <1>4
  <2> HIDE DEF M
  <2> QED BY <2>1
<1>6. ~Reached(nodes, t)
  OBVIOUS
<1> HIDE DEF M, n, t
<1>7. \A d \in State : (Reached(M, d) <=> Reached(nodes, d)) /\ M[d].cost = nodes[d].cost
  BY <1>2, <1>4 DEF Reached
<1>8. \A d \in State : Reached(nodes, d) => M[d] = nodes[d]
  BY <1>2, <1>6
<1>9. /\ Rooted(nodes) /\ Exact(nodes) /\ Reached(nodes, 0) /\ 0 \in State
      /\ \A u \in State : Reached(nodes, u) =>
            nodes[u].state = "closed" /\ nodes[u].h = task.h[u]
  BY States DEF LazyTree
<1>10. PICK A : Ancestry(nodes, A)
  BY DEF LazyTree
<1>11. Rooted(M)
  BY <1>1, <1>7, <1>8, <1>9 DEF Rooted
<1>12. Exact(M)
  <2>1. ASSUME NEW d \in State, Reached(M, d), M[d].op # None, M[From(M[d].op)].state = "closed"
        PROVE  M[d].cost = M[From(M[d].op)].cost + Cost(M[d].op)
    <3>1. M[d] = nodes[d] /\ Reached(nodes, d)
      BY <1>7, <1>8, <2>1
    <3>2. From(nodes[d].op) \in State /\ Reached(nodes, From(nodes[d].op))
      BY <1>1, <1>9, <2>1, <3>1 DEF Rooted
    <3>3. M[From(nodes[d].op)] = nodes[From(nodes[d].op)]
      BY <1>8, <3>2
    <3> QED BY <1>9, <2>1, <3>1, <3>3 DEF Exact
  <2> QED BY <2>1 DEF Exact
<1>13. Ancestry(M, A)
  <2>1. \A d \in State : \A a \in A[d] : a \in State
    BY <1>10 DEF Ancestry
  <2> QED BY <1>7, <1>8, <1>10, <2>1 DEF Ancestry
<1>14. LazyTree(M)
  BY <1>7, <1>8, <1>9, <1>11, <1>12, <1>13 DEF LazyTree
<1> QED BY <1>5, <1>7, <1>14 DEF M, t

\* What is pushed for a state.
LEMMA PushedAll ==
    ASSUME task \in Problems, alg \in Algorithms, NEW s \in State, NEW h \in Int
    PROVE  LET pushed == Pushed(s, h, Expanding(s))
           IN /\ pushed \in Seq(EntryType)
              /\ \A e \in Elements(pushed) : e.op \in Op /\ From(e.op) = s
              /\ AllOperators => \A o \in Op : From(o) = s => \E e \in Elements(pushed) : e.op = o
<1> DEFINE ops == Expanding(s)
           k == IF alg.kind = "ehc" THEN 0 ELSE h
           pushed == Pushed(s, h, ops)
<1>1. /\ ops \in Seq(Op)
      /\ \A o \in Elements(ops) : o \in Op /\ From(o) = s
      /\ alg.pref # "only" => \A o \in Op : From(o) = s => o \in Elements(ops)
  BY ExpandingAll
<1> HIDE DEF ops
<1>2. Len(ops) \in Nat /\ DOMAIN ops = 1 .. Len(ops) /\ \A i \in 1 .. Len(ops) : ops[i] \in Op
  BY <1>1
<1>3. \A i \in 1 .. Len(ops) : Entry(k, 0, s, ops[i]) \in EntryType
  BY <1>2 DEF Entry, EntryType
<1>4. pushed = [i \in 1 .. Len(ops) |-> Entry(k, 0, s, ops[i])]
  BY <1>2 DEF Pushed
<1> HIDE DEF pushed, k
<1>5. pushed \in Seq(EntryType)
  <2>1. pushed \in [1 .. Len(ops) -> EntryType]
    BY <1>3, <1>4
  <2> QED BY <1>2, <2>1
<1>6. DOMAIN pushed = 1 .. Len(ops) /\ \A i \in 1 .. Len(ops) : pushed[i].op = ops[i]
  BY <1>4 DEF Entry
<1>7. \A e \in Elements(pushed) : e.op \in Elements(ops)
  BY <1>2, <1>6 DEF Elements
<1>8. \A o \in Elements(ops) : \E e \in Elements(pushed) : e.op = o
  BY <1>2, <1>6 DEF Elements
<1> QED BY <1>1, <1>5, <1>7, <1>8 DEF AllOperators, pushed, ops

\* The state s is visited; N has its node, rest the other entries.
LEMMA VisitKeeps ==
    ASSUME task \in Problems, alg \in Algorithms, NEW N \in [State -> NodeType],
           NEW rest \in Seq(EntryType), NEW s \in State, Reached(N, s),
           LazyTree(N), LazyList(N, rest), LazyDoneBut(N, rest, s), Visit(s, N, rest)
    PROVE  /\ nodes' = N /\ openList' \in Seq(EntryType)
           /\ \/ res' = "cont" /\ LazyInv(N, openList')
              \/ /\ res' = "found" /\ goalState' = s /\ IsGoal(s)
                 /\ GoalPath(N, s)
<1> DEFINE h == N[s].h
           pushed == Pushed(s, h, Expanding(s))
<1>0. nodes' = N
  BY DEF Visit
<1>1. CASE IsGoal(s)
  <2>1. res' = "found" /\ goalState' = s /\ openList' = rest
    BY <1>1 DEF Visit
  <2>2. PICK A : Ancestry(N, A)
    BY DEF LazyTree
  <2>3. Rooted(N) /\ ExactBut(N, s)
    BY DEF LazyTree, Exact, ExactBut
  <2>4. \A a \in A[s] : N[a].state = "closed"
    BY <2>2 DEF LazyTree, Ancestry
  <2>5. GoalPath(N, s)
    BY <2>2, <2>3, <2>4, WayIsPath DEF GoalPath
  <2> QED BY <1>0, <1>1, <2>1, <2>5
<1>2. CASE ~IsGoal(s) /\ h = DeadEnd
  <2>1. res' = "cont" /\ openList' = rest
    BY <1>2 DEF Visit
  <2>2. task.h[s] = DeadEnd /\ s # None
    BY <1>2, States DEF LazyTree
  <2>3. LazyDoneBut(N, rest, None)
    BY <2>2 DEF LazyDoneBut
  <2> QED BY <1>0, <2>1, <2>3 DEF LazyInv
<1>3. CASE ~IsGoal(s) /\ h # DeadEnd
  <2> DEFINE first == IF Clears(h) THEN <<>> ELSE rest
  <2>1. res' = "cont" /\ openList' = first \o pushed
    BY <1>3 DEF Visit
  <2>2. h \in Int
    BY DEF NodeType
  <2>3. /\ pushed \in Seq(EntryType)
        /\ \A e \in Elements(pushed) : e.op \in Op /\ From(e.op) = s
        /\ AllOperators => \A o \in Op : From(o) = s => \E e \in Elements(pushed) : e.op = o
    BY <2>2, PushedAll
  <2> HIDE DEF pushed
  <2>4. first \in Seq(EntryType) /\ Elements(first) \subseteq Elements(rest)
    <3>1. <<>> \in Seq(EntryType) /\ Elements(<<>>) = {}
      BY DEF Elements
    <3> QED BY <3>1
  <2>5. AllOperators => first = rest
    BY DEF AllOperators, Clears
  <2> HIDE DEF first
  <2>6. first \o pushed \in Seq(EntryType)
    BY <2>3, <2>4, ConcatProperties
  <2>7. Elements(first \o pushed) = Elements(first) \cup Elements(pushed)
    BY <2>3, <2>4, ElementsConcat
  <2>8. LazyList(N, first \o pushed)
    <3>1. None \notin Op
      BY Operators
    <3> QED BY <2>3, <2>4, <2>7, <3>1 DEF LazyList
  <2>9. ASSUME AllOperators, NEW u \in State, Reached(N, u), task.h[u] # DeadEnd
        PROVE  Waits(N, first \o pushed, u)
    <3>1. CASE u = s
      BY <1>3, <2>3, <2>7, <2>9, <3>1 DEF Waits
    <3>2. CASE u # s
      <4>1. Waits(N, rest, u)
        BY <2>9, <3>2 DEF LazyDoneBut
      <4>2. Elements(rest) \subseteq Elements(first \o pushed)
        BY <2>5, <2>7, <2>9
      <4> QED BY <4>1, <4>2 DEF Waits
    <3> QED BY <3>1, <3>2
  <2>10. LazyDoneBut(N, first \o pushed, None)
    BY <2>9 DEF LazyDoneBut
  <2>11. LazyInv(N, first \o pushed)
    BY <2>8, <2>10 DEF LazyInv
  <2> QED BY <1>0, <2>1, <2>6, <2>11
<1> QED BY <1>1, <1>2, <1>3

\* An entry was taken from the list; s is the state that is to be visited.
LEMMA LazyPops ==
    ASSUME task \in Problems, openList \in Seq(EntryType), LazyInv(nodes, openList),
           NEW i \in DOMAIN openList, NEW N, NEW s,
           \A d \in State : Reached(nodes, d) => Reached(N, d),
           \A d \in State : Reached(N, d) => d = s \/ Reached(nodes, d),
           IF openList[i].op = None THEN s = 0
           ELSE Reached(N, To(openList[i].op)) \/ task.h[To(openList[i].op)] = DeadEnd
    PROVE  LET rest == RemoveAt(openList, i)
           IN rest \in Seq(EntryType) /\ LazyList(N, rest) /\ LazyDoneBut(N, rest, s)
<1> DEFINE rest == RemoveAt(openList, i)
           q == openList
           e == q[i]
<1>1. /\ rest \in Seq(EntryType) /\ Elements(rest) \subseteq Elements(q)
      /\ \A x \in Elements(q) : x # e => x \in Elements(rest)
  BY ElementsRemove
<1>2. /\ LazyList(nodes, q) /\ LazyDoneBut(nodes, q, None)
      /\ None \notin State /\ None \notin Op /\ \A o \in Op : From(o) \in State /\ To(o) \in State
  BY States, Operators DEF LazyInv
<1>3. IF e.op = None THEN s = 0 ELSE Reached(N, To(e.op)) \/ task.h[To(e.op)] = DeadEnd
  OBVIOUS
<1> HIDE DEF rest, e, q
<1>4. LazyList(N, rest)
  BY <1>1, <1>2 DEF LazyList
<1>5. ASSUME AllOperators, NEW u \in State, Reached(N, u), task.h[u] # DeadEnd, u # s
      PROVE  Waits(N, rest, u)
  <2>1. Reached(nodes, u) /\ u # None
    BY <1>2, <1>5
  <2>2. Waits(nodes, q, u)
    BY <1>2, <1>5, <2>1 DEF LazyDoneBut
  <2>3. CASE u = 0 /\ \E x \in Elements(q) : x.op = None
    <3>1. PICK x \in Elements(q) : x.op = None
      BY <2>3
    <3>2. x # e
      BY <1>3, <1>5, <2>3, <3>1
    <3> QED BY <1>1, <2>3, <3>1, <3>2 DEF Waits
  <2>4. CASE /\ ~IsGoal(u)
             /\ \A o \in Op : From(o) = u =>
                   \/ Reached(nodes, To(o)) \/ task.h[To(o)] = DeadEnd
                   \/ \E x \in Elements(q) : x.op = o
    <3>1. ASSUME NEW o \in Op, From(o) = u
          PROVE  \/ Reached(N, To(o)) \/ task.h[To(o)] = DeadEnd
                 \/ \E x \in Elements(rest) : x.op = o
      <4>1. CASE Reached(nodes, To(o)) \/ task.h[To(o)] = DeadEnd
        BY <1>2, <4>1
      <4>2. CASE \E x \in Elements(q) : x.op = o
        <5>1. PICK x \in Elements(q) : x.op = o
          BY <4>2
        <5>2. CASE x = e
          BY <1>2, <1>3, <5>1, <5>2
        <5>3. CASE x # e
          BY <1>1, <5>1, <5>3
        <5> QED BY <5>2, <5>3
      <4> QED BY <2>4, <3>1, <4>1, <4>2
    <3> QED BY <2>4, <3>1 DEF Waits
  <2> QED BY <2>2, <2>3, <2>4 DEF Waits
<1>6. LazyDoneBut(N, rest, s)
  BY <1>5 DEF LazyDoneBut
<1> QED BY <1>1, <1>4, <1>6 DEF rest

\* A step of lazy search or of enforced hill climbing.
LEMMA LazyTaken ==
    ASSUME task \in Problems, alg \in Algorithms, nodes \in [State -> NodeType],
           openList \in Seq(EntryType), LazyInv(nodes, openList), NEW i \in DOMAIN openList,
           LazyStep(openList[i], RemoveAt(openList, i))
    PROVE  /\ nodes' \in [State -> NodeType] /\ openList' \in Seq(EntryType)
           /\ \/ res' = "cont" /\ LazyInv(nodes', openList')
              \/ /\ res' = "found" /\ goalState' \in State /\ IsGoal(goalState')
                 /\ GoalPath(nodes', goalState')
<1> DEFINE e == openList[i]
           rest == RemoveAt(openList, i)
           o == e.op
           t == To(o)
           h == task.h[t]
<1>1. LazyTree(nodes) /\ LazyList(nodes, openList) /\ None \notin State /\ 0 \in State
  BY States DEF LazyInv
<1>2. e \in Elements(openList)
  BY DEF Elements
<1>3. LazyStep(e, rest)
  OBVIOUS
<1> HIDE DEF e, rest
<1>4. CASE o = None
  <2>1. Visit(e.state, nodes, rest) /\ e.state = 0 /\ Reached(nodes, 0)
    BY <1>1, <1>2, <1>3, <1>4 DEF LazyStep, LazyList, LazyTree
  <2>2. rest \in Seq(EntryType) /\ LazyList(nodes, rest) /\ LazyDoneBut(nodes, rest, 0)
    BY <1>4, LazyPops DEF e, rest
  <2> QED BY <1>1, <2>1, <2>2, VisitKeeps
<1>5. CASE o # None
  <2>1. o \in Op /\ Reached(nodes, From(o)) /\ t \in State /\ From(o) \in State
    BY <1>1, <1>2, <1>5, Operators DEF LazyList
  <2> HIDE DEF o
  <2>2. CASE ~FirstTime(t)
    <3>1. res' = "cont" /\ openList' = rest /\ nodes' = nodes
      BY <1>3, <1>5, <2>2 DEF LazyStep, o
    <3>2. Reached(nodes, t)
      BY <2>2 DEF FirstTime, IsNew, Reached
    <3>3. rest \in Seq(EntryType) /\ LazyList(nodes, rest) /\ LazyDoneBut(nodes, rest, None)
      BY <1>5, <3>2, LazyPops DEF e, rest, o
    <3> QED BY <1>1, <3>1, <3>3 DEF LazyInv
  <2>3. ASSUME FirstTime(t)
        PROVE  ~Reached(nodes, t)
    BY <2>3 DEF FirstTime, IsNew, Reached
  <2>4. CASE FirstTime(t) /\ h = DeadEnd
    <3> DEFINE M == [nodes EXCEPT ![t].parent = From(o), ![t].op = o, ![t].h = h]
    <3>1. res' = "cont" /\ openList' = rest /\ nodes' = M
      BY <1>3, <1>5, <2>4 DEF LazyStep, o
    <3>2. /\ M \in [State -> NodeType] /\ LazyTree(M)
          /\ \A d \in State : Reached(M, d) <=> Reached(nodes, d)
      BY <1>1, <2>1, <2>3, <2>4, LazyDeadEnd
    <3> HIDE DEF M
    <3>3. rest \in Seq(EntryType) /\ LazyList(M, rest) /\ LazyDoneBut(M, rest, None)
      BY <1>5, <2>4, <3>2, LazyPops DEF e, rest, o
    <3> QED BY <3>1, <3>2, <3>3 DEF LazyInv
  <2>5. CASE FirstTime(t) /\ h # DeadEnd
    <3> DEFINE M == [nodes EXCEPT ![t] = Created(o, h)]
    <3>1. Visit(t, M, rest)
      BY <1>3, <1>5, <2>5 DEF LazyStep, o
    <3>2. /\ M \in [State -> NodeType] /\ LazyTree(M)
          /\ \A d \in State : Reached(M, d) <=> d = t \/ Reached(nodes, d)
      BY <1>1, <2>1, <2>3, <2>5, LazyReaches
    <3> HIDE DEF M
    <3>3. rest \in Seq(EntryType) /\ LazyList(M, rest) /\ LazyDoneBut(M, rest, t)
      BY <1>5, <2>1, <3>2, LazyPops DEF e, rest, o
    <3> QED BY <2>1, <3>1, <3>2, <3>3, VisitKeeps
  <2> QED BY <2>2, <2>4, <2>5
<1> QED BY <1>4, <1>5

\* The first step.
LEMMA LazyStarts ==
    ASSUME task \in Problems, nodes = [s \in State |-> NewNode]
    PROVE  LET M == [nodes EXCEPT ![0] = Root(task.h[0])]
               L == <<Entry(task.h[0], 0, 0, None)>>
           IN M \in [State -> NodeType] /\ L \in Seq(EntryType) /\ LazyInv(M, L)
<1> DEFINE h == task.h[0]
           n == Root(h)
           M == [nodes EXCEPT ![0] = n]
           e == Entry(h, 0, 0, None)
           A == [s \in State |-> {}]
<1>1. 0 \in State /\ h \in Int
  BY States, Operators
<1>2. n \in NodeType /\ NewNode \in NodeType /\ e \in EntryType
  BY <1>1 DEF NodeType, NewNode, Root, EntryType, Entry, None
<1>3. M \in [State -> NodeType] /\ M[0] = n /\ \A d \in State : d # 0 => M[d] = NewNode
  BY <1>1, <1>2
<1>4. /\ n.state = "closed" /\ n.op = None /\ n.cost = 0 /\ n.h = h /\ NewNode.state = "new"
      /\ e.state = 0 /\ e.op = None
  BY DEF NewNode, Entry, Root
<1> HIDE DEF e, n, M
<1>5. <<e>> \in Seq(EntryType) /\ Elements(<<e>>) = {e}
  BY <1>2 DEF Elements
<1>6. \A d \in State : Reached(M, d) <=> d = 0
  BY <1>3, <1>4 DEF Reached
<1>7. Rooted(M) /\ Exact(M) /\ Reached(M, 0)
  BY <1>1, <1>3, <1>4, <1>6 DEF Rooted, Exact
<1>8. Ancestry(M, A)
  BY <1>3, <1>4, <1>6 DEF Ancestry
<1>9. LazyTree(M)
  <2>1. \E B : Ancestry(M, B)
    BY <1>8
  <2>2. \A u \in State : Reached(M, u) => M[u].state = "closed" /\ M[u].h = task.h[u]
    BY <1>3, <1>4, <1>6
  <2> QED BY <1>7, <2>1, <2>2 DEF LazyTree
<1>10. LazyList(M, <<e>>) /\ LazyDoneBut(M, <<e>>, None)
  BY <1>4, <1>5, <1>6 DEF LazyList, LazyDoneBut, Waits
<1> QED BY <1>3, <1>5, <1>9, <1>10 DEF LazyInv, M, n, e

-----------------------------------------------------------------------------
(* No plan *)

\* When a set of states that has the initial one is never left but for states
\* from which there is no plan, and has no goal, there is none.
LEMMA NeverLeft ==
    ASSUME task \in Problems, NEW U, 0 \in U, U \subseteq State,
           \A u \in U : \/ Cheapest[Cardinality(State)][u] = Infinite
                        \/ ~IsGoal(u) /\ \A o \in Op : From(o) = u => To(o) \in U
    PROVE  TrueCost[0] = Infinite
<1> DEFINE K == Cardinality(State)
           H == Cheapest[K]
           P(n) == \A u \in U : Cheapest[n][u] >= DeadEnd
           T == {n \in 0 .. K : P(n)}
<1>1. K \in Nat /\ DeadEnd \in Nat \ {0} /\ 0 \in State /\ Infinite >= DeadEnd /\ Infinite \in Nat
  BY States DEF Infinite
<1>2. ASSUME NEW n \in 0 .. K, NEW u \in U, H[u] = Infinite
      PROVE  Cheapest[n][u] >= DeadEnd
  <2>1. H[u] <= Cheapest[n][u] /\ Cheapest[n][u] \in Nat
    BY CheapestLast, CheapestStep
  <2> HIDE DEF H
  <2> QED BY <1>1, <1>2, <2>1
<1>3. P(0)
  <2>1. ASSUME NEW u \in U
        PROVE  Cheapest[0][u] >= DeadEnd
    <3>1. CASE H[u] = Infinite
      <4> HIDE DEF H
      <4> QED BY <1>1, <1>2, <3>1
    <3>2. CASE ~IsGoal(u)
      <4>1. Cheapest[0][u] = Infinite
        BY <3>2, CheapestStep
      <4> QED BY <1>1, <4>1
    <3> QED BY <3>1, <3>2
  <2> QED BY <2>1
<1>4. ASSUME NEW n \in 1 .. K, P(n - 1)
      PROVE  P(n)
  <2>0. n \in 0 .. K /\ n - 1 \in 0 .. K
    BY <1>1
  <2>1. ASSUME NEW u \in U
        PROVE  Cheapest[n][u] >= DeadEnd
    <3>1. CASE H[u] = Infinite
      <4> HIDE DEF H
      <4> QED BY <1>1, <1>2, <2>0, <3>1
    <3>2. CASE ~IsGoal(u) /\ \A o \in Op : From(o) = u => To(o) \in U
      <4>1. CASE Cheapest[n][u] = Infinite
        BY <1>1, <4>1
      <4>2. CASE Cheapest[n][u] # Infinite
        <5>1. PICK o \in Op : From(o) = u /\ Cheapest[n][u] = Cost(o) + Cheapest[n - 1][To(o)]
          BY <3>2, <4>2, CheapestStep
        <5>2. To(o) \in U /\ Cost(o) \in Nat
          BY <3>2, <5>1, Operators
        <5>3. Cheapest[n - 1][To(o)] \in Nat
          BY <2>0, <5>2, CheapestStep
        <5>4. Cheapest[n - 1][To(o)] >= DeadEnd
          BY <1>4, <5>2
        <5> QED BY <1>1, <5>1, <5>2, <5>3, <5>4
      <4> QED BY <4>1, <4>2
    <3> QED BY <3>1, <3>2
  <2> QED BY <2>1
<1>5. K \in T
  <2>1. 0 \in T
    <3> HIDE DEF P
    <3> QED BY <1>1, <1>3
  <2>2. ASSUME NEW n \in 1 .. K, n - 1 \in T
        PROVE  n \in T
    <3> HIDE DEF P
    <3> QED BY <1>1, <1>4, <2>2
  <2> HIDE DEF T
  <2> QED BY <1>1, <2>1, <2>2, Counting
<1>6. H[0] >= DeadEnd
  BY <1>5
<1>7. H[0] \in Nat /\ TrueCost[0] = H[0] /\ (H[0] = Infinite \/ H[0] < DeadEnd)
  BY <1>1, TrueCostIs
<1> HIDE DEF H
<1> QED BY <1>1, <1>6, <1>7

-----------------------------------------------------------------------------
(* The invariant of the search *)

Kept(N, L) == IF IsLazy THEN LazyInv(N, L) ELSE AStarInv(N, L)
TypesOk == /\ task \in Problems /\ alg \in Algorithms
           /\ nodes \in [State -> NodeType] /\ openList \in Seq(EntryType)
PlanOk == /\ goalState \in State /\ IsGoal(goalState)
          /\ IsPath(path, goalState) /\ CostOf(task, path) = nodes[goalState].cost
          /\ ~IsLazy => Optimal(nodes[goalState].cost)
SearchInv ==
    /\ TypesOk
    /\ res = "start" => nodes = [s \in State |-> NewNode]
    /\ res \in {"cont", "not_found", "abort"} => Kept(nodes, openList)
    /\ res = "not_found" => openList = <<>>
    /\ res = "found" => PlanOk

\* Steps leave the problem and the algorithm alone, and so what depends on them.
LEMMA SameTypes ==
    ASSUME task \in Problems, alg \in Algorithms, task' = task, alg' = alg,
           nodes' \in [State -> NodeType], openList' \in Seq(EntryType)
    PROVE  TypesOk'
<1>1. (task \in Problems)' /\ (alg \in Algorithms)'
  OBVIOUS
<1>2. (NodeType)' = NodeType /\ (EntryType)' = EntryType
  BY DEF NodeType, EntryType, Op
<1>3. (nodes \in [State -> NodeType])'
  BY <1>2
<1>4. (openList \in Seq(EntryType))'
  BY <1>2
<1> QED BY <1>1, <1>3, <1>4 DEF TypesOk

LEMMA SameKept ==
    ASSUME task' = task, alg' = alg, Kept(nodes', openList')
    PROVE  Kept(nodes, openList)'
<1>1. (IsLazy)' <=> IsLazy
  BY DEF IsLazy
<1>2. Rooted(nodes') => Rooted(nodes)'
  BY DEF Rooted, Reached, Op, From, To, Cost
<1>3. Exact(nodes') => Exact(nodes)'
  BY DEF Exact, Reached, From, Cost
<1>4. CASE IsLazy
  <2>1. LazyInv(nodes', openList')
    BY <1>4 DEF Kept
  <2>2. LazyTree(nodes') => LazyTree(nodes)'
    BY <1>2, <1>3 DEF LazyTree, Ancestry, Reached, From
  <2>3. LazyList(nodes', openList') => LazyList(nodes, openList)'
    BY DEF LazyList, Elements, Reached, Op, From
  <2>4. LazyDoneBut(nodes', openList', None) => LazyDoneBut(nodes, openList, None)'
    BY DEF LazyDoneBut, AllOperators, Waits, Elements, Reached, Op, From, To, IsGoal
  <2> QED BY <1>1, <1>4, <2>1, <2>2, <2>3, <2>4 DEF Kept, LazyInv
<1>5. CASE ~IsLazy
  <2>1. AStarInv(nodes', openList')
    BY <1>5 DEF Kept
  <2>2. Ordered(nodes') => Ordered(nodes)'
    BY DEF Ordered, Ancestry, NoDeadEnds, Overtaken, GoesFirst, Reached, Live, KeyOf, From
  <2>3. (Cheapest)' = Cheapest
    BY DEF Cheapest
  <2>4. Known(nodes', openList') => Known(nodes, openList)'
    BY <2>3 DEF Known, Listed, Elements, Estimated, BoundedBy, Reached, Live, KeyOf
  <2>5. (\A u \in State : nodes'[u].state = "closed" => ~IsGoal(u) /\ Done(nodes', u))
          => (\A u \in State : nodes[u].state = "closed" => ~IsGoal(u) /\ Done(nodes, u))'
    BY DEF IsGoal, Done, Reached, Op, From, To, Cost
  <2> QED BY <1>1, <1>2, <1>3, <1>5, <2>1, <2>2, <2>4, <2>5 DEF Kept, AStarInv
<1> QED BY <1>4, <1>5

LEMMA SamePlan ==
    ASSUME task' = task, alg' = alg,
           goalState' \in State, IsGoal(goalState'), IsPath(path', goalState'),
           CostOf(task, path') = nodes'[goalState'].cost,
           ~IsLazy => Optimal(nodes'[goalState'].cost)
    PROVE  PlanOk'
<1>1. (IsLazy)' <=> IsLazy
  BY DEF IsLazy
<1>2. IsGoal(goalState)'
  BY DEF IsGoal
<1>3. IsPath(path, goalState)'
  BY DEF IsPath, Op, From, To
<1>4. (CostOf(task, path) = nodes[goalState].cost)'
  OBVIOUS
<1>5. (Cheapest)' = Cheapest
  BY DEF Cheapest
<1>6. Optimal(nodes'[goalState'].cost) => Optimal(nodes[goalState].cost)'
  BY <1>5 DEF Optimal, AdmissibleBy
<1> QED BY <1>1, <1>2, <1>3, <1>4, <1>6 DEF PlanOk

LEMMA SearchInit == Init => SearchInv
<1> SUFFICES ASSUME Init
             PROVE  SearchInv
  OBVIOUS
<1>1. /\ task \in Problems /\ alg \in Algorithms /\ nodes = [s \in State |-> NewNode]
      /\ openList = <<>> /\ res = "start"
  BY DEF Init
<1>2. NewNode \in NodeType
  BY DEF NewNode, NodeType, None
<1>3. nodes \in [State -> NodeType]
  BY <1>1, <1>2
<1>4. openList \in Seq(EntryType)
  BY <1>1
<1> QED BY <1>1, <1>3, <1>4 DEF SearchInv, TypesOk

LEMMA SearchStarts ==
    ASSUME SearchInv, InitStep
    PROVE  SearchInv'
<1> DEFINE first == InsertState([after |-> nodes, openList |-> <<>>], 0, None)
<1>1. /\ task \in Problems /\ alg \in Algorithms /\ nodes = [s \in State |-> NewNode]
      /\ res' = "cont" /\ task' = task /\ alg' = alg
  BY DEF SearchInv, TypesOk, InitStep
<1>2. /\ nodes' \in [State -> NodeType] /\ openList' \in Seq(EntryType)
      /\ Kept(nodes', openList')
  <2>1. CASE IsLazy
    <3> DEFINE M == [nodes EXCEPT ![0] = Root(task.h[0])]
               L == <<Entry(task.h[0], 0, 0, None)>>
    <3>1. nodes' = M /\ openList' = L
      BY <2>1 DEF InitStep
    <3>2. M \in [State -> NodeType] /\ L \in Seq(EntryType) /\ LazyInv(M, L)
      BY <1>1, LazyStarts
    <3> HIDE DEF M, L
    <3> QED BY <2>1, <3>1, <3>2 DEF Kept
  <2>2. CASE ~IsLazy
    <3>1. nodes' = first.after /\ openList' = first.openList
      BY <2>2 DEF InitStep
    <3>2. first \in AccType /\ AStarInv(first.after, first.openList)
      BY <1>1, AStarStarts
    <3> HIDE DEF first
    <3> QED BY <2>2, <3>1, <3>2 DEF Kept, AccType
  <2> QED BY <2>1, <2>2
<1>3. TypesOk'
  BY <1>1, <1>2, SameTypes
<1>4. Kept(nodes, openList)'
  BY <1>1, <1>2, SameKept
<1> QED BY <1>1, <1>3, <1>4 DEF SearchInv

LEMMA SearchGoesOn ==
    ASSUME SearchInv, Step
    PROVE  SearchInv'
<1>1. PICK i \in Least : MayPop(i) /\ TakeStep(i)
  BY DEF Step
<1>2. /\ task \in Problems /\ alg \in Algorithms /\ nodes \in [State -> NodeType]
      /\ openList \in Seq(EntryType) /\ Kept(nodes, openList)
      /\ task' = task /\ alg' = alg
      /\ path' = IF res' = "found" THEN Way(nodes', goalState') ELSE path
  BY DEF SearchInv, TypesOk, Step
<1>3. i \in DOMAIN openList
  BY DEF Least
<1>4. /\ nodes' \in [State -> NodeType] /\ openList' \in Seq(EntryType)
      /\ \/ res' = "cont" /\ Kept(nodes', openList')
         \/ /\ res' = "found" /\ goalState' \in State /\ IsGoal(goalState')
            /\ GoalPath(nodes', goalState')
            /\ ~IsLazy => Optimal(nodes'[goalState'].cost)
  <2>1. CASE IsLazy
    <3>1. LazyStep(openList[i], RemoveAt(openList, i)) /\ LazyInv(nodes, openList)
      BY <1>1, <1>2, <2>1 DEF TakeStep, Kept
    <3> QED BY <1>2, <1>3, <2>1, <3>1, LazyTaken DEF Kept
  <2>2. CASE ~IsLazy
    <3>1. AStarStep(openList[i], RemoveAt(openList, i)) /\ AStarInv(nodes, openList)
      BY <1>1, <1>2, <2>2 DEF TakeStep, Kept
    <3> QED BY <1>2, <2>2, <3>1, AStarTaken DEF Kept
  <2> QED BY <2>1, <2>2
<1>5. TypesOk'
  BY <1>2, <1>4, SameTypes
<1>6. CASE res' = "cont" /\ Kept(nodes', openList')
  <2>1. Kept(nodes, openList)'
    BY <1>2, <1>6, SameKept
  <2> QED BY <1>5, <1>6, <2>1 DEF SearchInv
<1>7. CASE /\ res' = "found" /\ goalState' \in State /\ IsGoal(goalState')
           /\ GoalPath(nodes', goalState')
           /\ ~IsLazy => Optimal(nodes'[goalState'].cost)
  <2>1. path' = Way(nodes', goalState')
    BY <1>2, <1>7
  <2>2. IsPath(path', goalState') /\ CostOf(task, path') = nodes'[goalState'].cost
    BY <1>7, <2>1 DEF GoalPath
  <2>3. PlanOk'
    BY <1>2, <1>7, <2>2, SamePlan
  <2> QED BY <1>5, <1>7, <2>3 DEF SearchInv
<1> QED BY <1>4, <1>6, <1>7

\* The steps that only end the search, and those of others.
LEMMA SearchStays ==
    ASSUME SearchInv, task' = task, alg' = alg, nodes' = nodes, openList' = openList,
           goalState' = goalState, path' = path,
           \/ res' = res
           \/ res = "cont" /\ (res' = "abort" \/ (res' = "not_found" /\ openList = <<>>))
    PROVE  SearchInv'
<1>1. TypesOk'
  BY SameTypes DEF SearchInv, TypesOk
<1>2. ASSUME res' \in {"cont", "not_found", "abort"}
      PROVE  Kept(nodes, openList)'
  <2>1. Kept(nodes, openList)
    BY <1>2 DEF SearchInv
  <2>2. Kept(nodes', openList')
    BY <2>1
  <2> QED BY <2>2, SameKept
<1>3. ASSUME res' = "found"
      PROVE  PlanOk'
  <2>1. PlanOk
    BY <1>3 DEF SearchInv
  <2>2. /\ goalState' \in State /\ IsGoal(goalState') /\ IsPath(path', goalState')
        /\ CostOf(task, path') = nodes'[goalState'].cost
        /\ ~IsLazy => Optimal(nodes'[goalState'].cost)
    BY <2>1 DEF PlanOk
  <2> QED BY <2>2, SamePlan
<1>4. (res = "start" => nodes = [s \in State |-> NewNode])'
  BY DEF SearchInv
<1>5. (res = "not_found" => openList = <<>>)'
  BY DEF SearchInv
<1> QED BY <1>1, <1>2, <1>3, <1>4, <1>5 DEF SearchInv

\* The search keeps its invariant.
THEOREM SearchInvariant == Spec => []SearchInv
<1>1. ASSUME SearchInv, [Next]_vars
      PROVE  SearchInv'
  <2>1. CASE InitStep
    BY <1>1, <2>1, SearchStarts
  <2>2. CASE Step
    BY <1>1, <2>2, SearchGoesOn
  <2>3. CASE StepExhausted
    BY <1>1, <2>3, SearchStays DEF StepExhausted
  <2>4. CASE StepAborted
    BY <1>1, <2>4, SearchStays DEF StepAborted
  <2>5. CASE Abort
    BY <1>1, <2>5, SearchStays DEF Abort
  <2>6. CASE UNCHANGED vars
    BY <1>1, <2>6, SearchStays DEF vars
  <2> QED BY <1>1, <2>1, <2>2, <2>3, <2>4, <2>5, <2>6 DEF Next
<1> QED BY <1>1, SearchInit, PTL DEF Spec

-----------------------------------------------------------------------------
(* The properties *)

\* The plan that is printed can be executed, ends in a goal, and costs what its
\* last node says, whichever algorithm found it and however often its nodes got
\* other parents.
THEOREM PlansAreValid == Spec => []PlanIsValid
<1>1. SearchInv => PlanIsValid
  <2> SUFFICES ASSUME SearchInv, res = "found"
               PROVE  /\ \A i \in DOMAIN path : From(path[i]) = IF i = 1 THEN 0 ELSE To(path[i - 1])
                      /\ IsGoal(IF path = <<>> THEN 0 ELSE To(Last(path)))
                      /\ PathCost = nodes[goalState].cost
    BY DEF PlanIsValid
  <2>1. /\ IsGoal(goalState) /\ IsPath(path, goalState)
        /\ CostOf(task, path) = nodes[goalState].cost
    BY DEF SearchInv, PlanOk
  <2>2. /\ path \in Seq(Op)
        /\ \A i \in 1 .. Len(path) : From(path[i]) = IF i = 1 THEN 0 ELSE To(path[i - 1])
        /\ goalState = IF path = <<>> THEN 0 ELSE To(path[Len(path)])
    BY <2>1 DEF IsPath
  <2>3. DOMAIN path = 1 .. Len(path) /\ Last(path) = path[Len(path)]
    BY <2>2 DEF Last
  <2> QED BY <2>1, <2>2, <2>3 DEF PathCost
<1> QED BY <1>1, SearchInvariant, PTL

\* A* with an admissible heuristic, be it consistent or not, and with pathmax or
\* without, finds a plan that costs as little as any.
THEOREM AStarIsOptimal == Spec => []CheapestPlan
<1>1. SearchInv => CheapestPlan
  <2> SUFFICES ASSUME SearchInv, res = "found", alg.kind = "astar", Admissible
               PROVE  PathCost = TrueCost[0]
    BY DEF CheapestPlan
  <2> DEFINE H == Cheapest[Cardinality(State)]
  <2>1. task \in Problems /\ PlanOk
    BY DEF SearchInv, TypesOk
  <2>2. \A s \in State : TrueCost[s] = H[s]
    BY <2>1, TrueCostIs
  <2>3. AdmissibleBy(H)
    BY <2>2 DEF Admissible, AdmissibleBy
  <2>4. ~IsLazy
    BY DEF IsLazy
  <2>5. nodes[goalState].cost = H[0] /\ CostOf(task, path) = nodes[goalState].cost
    BY <2>1, <2>3, <2>4 DEF PlanOk, Optimal
  <2> QED BY <2>2, <2>5, States DEF PathCost
<1> QED BY <1>1, SearchInvariant, PTL

\* A search that used all operators and has nothing left to expand has shown
\* that there is no plan, if the heuristic calls nothing a dead end that is none.
THEOREM ExhaustedIsUnsolvable == Spec => []ExhaustedMeansUnsolvable
<1>1. SearchInv => ExhaustedMeansUnsolvable
  <2> SUFFICES ASSUME SearchInv, res = "not_found", SafeHeur, alg.kind # "ehc", alg.pref # "only"
               PROVE  TrueCost[0] = Infinite
    BY DEF ExhaustedMeansUnsolvable
  <2> DEFINE H == Cheapest[Cardinality(State)]
  <2>1. /\ task \in Problems /\ nodes \in [State -> NodeType]
        /\ Kept(nodes, openList) /\ openList = <<>>
    BY DEF SearchInv, TypesOk
  <2>2. Elements(openList) = {} /\ 0 \in State /\ None \notin State
    BY <2>1, States DEF Elements
  <2>3. \A s \in State : task.h[s] = DeadEnd => H[s] = Infinite
    BY <2>1, TrueCostIs DEF SafeHeur
  <2>4. \A o \in Op : To(o) \in State
    BY <2>1, Operators
  <2>5. CASE IsLazy
    <3> DEFINE U == {u \in State : Reached(nodes, u) \/ task.h[u] = DeadEnd}
    <3>1. 0 \in U
      BY <2>1, <2>2, <2>5 DEF Kept, LazyInv, LazyTree
    <3>2. ASSUME NEW u \in U
          PROVE  \/ H[u] = Infinite
                 \/ ~IsGoal(u) /\ \A o \in Op : From(o) = u => To(o) \in U
      <4>1. CASE task.h[u] = DeadEnd
        BY <2>3, <4>1
      <4>2. CASE task.h[u] # DeadEnd
        <5>1. Waits(nodes, openList, u)
          BY <2>1, <2>2, <2>5, <3>2, <4>2 DEF Kept, LazyInv, LazyDoneBut, AllOperators
        <5> QED BY <2>2, <2>4, <5>1 DEF Waits
      <4> QED BY <4>1, <4>2
    <3>3. U \subseteq State
      OBVIOUS
    <3> HIDE DEF U
    <3> QED BY <2>1, <3>1, <3>2, <3>3, NeverLeft
  <2>6. CASE ~IsLazy
    <3> DEFINE U == {u \in State : Reached(nodes, u)}
    <3>1. AStarInv(nodes, openList)
      BY <2>1, <2>6 DEF Kept
    <3>2. 0 \in U
      BY <2>2, <3>1 DEF AStarInv, Known
    <3>3. ASSUME NEW u \in U
          PROVE  \/ H[u] = Infinite
                 \/ ~IsGoal(u) /\ \A o \in Op : From(o) = u => To(o) \in U
      <4>1. nodes[u].state \in {"open", "closed"}
        BY <2>1 DEF NodeType, Reached
      <4>2. CASE nodes[u].state = "open"
        <5>1. ~Live(nodes, u)
          BY <2>2, <3>1 DEF AStarInv, Known, Listed
        <5>2. nodes[u].h = DeadEnd
          BY <4>2, <5>1 DEF Live
        <5>3. task.h[u] = DeadEnd
          BY <3>1, <5>2 DEF AStarInv, Known, Estimated
        <5> QED BY <2>3, <5>3
      <4>3. CASE nodes[u].state = "closed"
        <5>1. ~IsGoal(u) /\ Done(nodes, u)
          BY <3>1, <4>3 DEF AStarInv
        <5> QED BY <2>4, <5>1 DEF Done
      <4> QED BY <4>1, <4>2, <4>3
    <3>4. U \subseteq State
      OBVIOUS
    <3> HIDE DEF U
    <3> QED BY <2>1, <3>2, <3>3, <3>4, NeverLeft
  <2> QED BY <2>5, <2>6
<1> QED BY <1>1, SearchInvariant, PTL
=============================================================================
