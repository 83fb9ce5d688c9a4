--------------------------- MODULE MATraceProofs ---------------------------
(***************************************************************************)
(* Tracing a plan in the distributed search (MASearch) comes to an end and  *)
(* never fails, for any number of agents, any planning problems and any     *)
(* interleaving (TraceComplete: ReferencesEnd and TraceNeverFails).         *)
(*                                                                         *)
(* On top of SearchInv (MASearchProofs) the inductive invariant says that   *)
(* the nodes of all agents can be ranked (Ranked): what a node refers to is *)
(* cheaper, or costs the same and has a smaller rank.  A node that is       *)
(* replaced gets a rank above all others; since it is replaced by a cheaper *)
(* one only, whatever refers to it has become more expensive than it.  So   *)
(* there are no circles, and a path that is followed as often as there are  *)
(* nodes has ended (Descent).  A message of a trace names a state that its  *)
(* receiver has reached (TracesOK), because nodes never get lost.           *)
(***************************************************************************)
EXTENDS MASearchProofs

-----------------------------------------------------------------------------
(* Following a path that goes down *)

\* <<x, i>> is below <<y, j>>, lexicographically.
Below(x, i, y, j) == x < y \/ (x = y /\ i < j)

\* It is a strict order.
LEMMA BelowOrder ==
    ASSUME NEW x \in Int, NEW y \in Int, NEW z \in Int,
           NEW i \in Int, NEW j \in Int, NEW k \in Int
    PROVE  /\ ~Below(x, i, x, i)
           /\ Below(x, i, y, j) /\ Below(y, j, z, k) => Below(x, i, z, k)
BY DEF Below

\* A path through a finite set that goes down, except in E where it ends, has
\* ended after as many steps as the set has elements.
LEMMA Descent ==
    ASSUME NEW S, IsFiniteSet(S), NEW x \in [S -> Int], NEW y \in [S -> Int], NEW E,
           NEW f \in [0 .. Cardinality(S) -> S],
           \A k \in 1 .. Cardinality(S) :
              IF f[k - 1] \in E THEN f[k] \in E
              ELSE Below(x[f[k]], y[f[k]], x[f[k - 1]], y[f[k - 1]])
    PROVE  f[Cardinality(S)] \in E
<1> DEFINE n == Cardinality(S)
           Low(b) == {c \in S : Below(x[c], y[c], x[b], y[b])}
           T == {k \in 0 .. n : f[k] \in E \/ Cardinality(Low(f[k])) < n - k}
<1>1. n \in Nat
    BY FS_CardinalityType
<1>2. ASSUME NEW b \in S
      PROVE  /\ IsFiniteSet(Low(b)) /\ Cardinality(Low(b)) \in Nat
             /\ b \notin Low(b)
  <2>1. Low(b) \in SUBSET S
    OBVIOUS
  <2>2. b \notin Low(b)
    <3>1. x[b] \in Int /\ y[b] \in Int
      OBVIOUS
    <3> QED BY <3>1, BelowOrder
  <2> HIDE DEF Low
  <2> QED BY <2>1, <2>2, FS_Subset, FS_CardinalityType
<1>3. ASSUME NEW A \in SUBSET S, NEW b \in S, NEW c \in A, c \notin Low(b), Low(b) \subseteq A
      PROVE  Cardinality(Low(b)) < Cardinality(A) /\ Cardinality(A) \in Nat
  <2> HIDE DEF Low
  <2>1. IsFiniteSet(A) /\ Cardinality(A) \in Nat
    BY FS_Subset, FS_CardinalityType
  <2>2. IsFiniteSet(A \ {c}) /\ Cardinality(A \ {c}) = Cardinality(A) - 1
    BY <2>1, FS_RemoveElement
  <2>3. Low(b) \in SUBSET (A \ {c})
    BY <1>3
  <2>4. Cardinality(Low(b)) <= Cardinality(A \ {c})
    BY <2>2, <2>3, FS_Subset
  <2> QED BY <1>2, <2>1, <2>2, <2>4
<1>4. 0 \in T
  <2>1. f[0] \in S
    BY <1>1
  <2>2. f[0] \notin Low(f[0]) /\ Low(f[0]) \subseteq S
    BY <1>2, <2>1
  <2> HIDE DEF Low
  <2>3. Cardinality(Low(f[0])) < n
    BY <1>3, <2>1, <2>2
  <2> QED BY <1>1, <2>3
<1>5. ASSUME NEW k \in 1 .. n, k - 1 \in T
      PROVE  k \in T
  <2> DEFINE b == f[k - 1]
             c == f[k]
  <2>0. k \in 0 .. n /\ k - 1 \in 0 .. n /\ k \in Int
    BY <1>1
  <2>1. b \in S /\ c \in S /\ k \in 0 .. n /\ n - (k - 1) \in Int
    <3>1. b \in S
      BY <2>0
    <3>2. c \in S
      BY <2>0
    <3>3. n - (k - 1) \in Int
      BY <1>1, <2>0
    <3> QED BY <2>0, <3>1, <3>2, <3>3
  <2>2. CASE b \in E
    BY <2>1, <2>2
  <2>3. CASE b \notin E
    <3>1. Below(x[c], y[c], x[b], y[b])
      BY <2>3
    <3>2. c \in Low(b)
      BY <2>1, <3>1
    <3>3. Low(c) \subseteq Low(b)
      <4>1. ASSUME NEW d \in Low(c)
            PROVE  Below(x[d], y[d], x[b], y[b])
        <5>1. /\ d \in S /\ Below(x[d], y[d], x[c], y[c])
              /\ x[b] \in Int /\ y[b] \in Int /\ x[c] \in Int /\ y[c] \in Int
          BY <2>1
        <5>2. x[d] \in Int /\ y[d] \in Int
          BY <5>1
        <5> HIDE DEF b, c
        <5> QED BY <3>1, <5>1, <5>2, BelowOrder
      <4> QED BY <4>1
    <3>4. c \notin Low(c) /\ Low(b) \in SUBSET S
      BY <1>2, <2>1
    <3>5. Cardinality(Low(b)) < n - (k - 1)
      BY <1>5, <2>3
    <3> HIDE DEF Low, b, c
    <3>6. /\ Cardinality(Low(c)) < Cardinality(Low(b))
          /\ Cardinality(Low(b)) \in Nat
      BY <1>3, <2>1, <3>2, <3>3, <3>4
    <3>7. Cardinality(Low(c)) < n - k
      BY <1>1, <1>2, <2>1, <3>5, <3>6
    <3> QED BY <2>1, <3>7 DEF c
  <2> QED BY <2>2, <2>3
<1>6. n \in T
  <2> HIDE DEF T
  <2>1. \A k \in 0 .. n : k \in T
    BY <1>1, <1>4, <1>5, UpTo
  <2> QED BY <1>1, <2>1
<1>7. f[n] \in E \/ Cardinality(Low(f[n])) < n - n
    BY <1>6
<1>8. f[n] \in S /\ n - n = 0
    BY <1>1
<1> HIDE DEF Low, n
<1>9. Cardinality(Low(f[n])) \in Nat
    BY <1>2, <1>8
<1>10. f[n] \in E
    BY <1>7, <1>8, <1>9
<1> QED BY <1>10 DEF n

-----------------------------------------------------------------------------
(* Ranks *)

\* The nodes of all agents; whether b was reached.
Pairs(p) == Agent \X p.states
At(nd, b) == nd[b[1]][b[2]]
Reached(nd, b) == At(nd, b).st # "NEW"

\* What a node refers to is below it.
RefOK(nd, rk, b) ==
    Reached(nd, b) /\ Refers(At(nd, b)) =>
       LET c == Reference(nd, b)
       IN Reached(nd, c) /\ Below(At(nd, c).cost, rk[c], At(nd, b).cost, rk[b])

RankedBy(p, nd, rk, top) ==
    /\ rk \in [Pairs(p) -> Int] /\ top \in Int
    /\ \A b \in Pairs(p) : rk[b] < top /\ RefOK(nd, rk, b)

Ranked(p, nd) == \E rk, top : RankedBy(p, nd, rk, top)

\* A step of the agents takes nodes nd to nd2.  A node either refers to what it
\* referred to, at the same cost;
SameReference(o, n) == /\ n.op = o.op /\ n.pub = o.pub /\ n.cost = o.cost
                       /\ n.st = o.st \/ (o.st # "NEW" /\ n.st # "NEW")

\* or it is renewed: it was not reached before, or became cheaper.
Renewed(nd, nd2, b) == /\ Reached(nd2, b)
                       /\ ~Reached(nd, b) \/ At(nd2, b).cost < At(nd, b).cost

\* A node that is renewed refers to one that is there already.
Redirected(p, nd, nd2) ==
    \A b \in Pairs(p) :
       \/ SameReference(At(nd, b), At(nd2, b))
       \/ /\ Renewed(nd, nd2, b)
          /\ LET c == Reference(nd2, b)
             IN Reached(nd, c) /\ ~Renewed(nd, nd2, c) /\ At(nd, c).cost <= At(nd2, b).cost

\* The types of a node and of what it refers to.
LEMMA NodeTypes ==
    ASSUME NEW p, NEW nd \in [Agent -> [p.states -> Nodes(p)]], NEW b \in Pairs(p)
    PROVE  /\ At(nd, b) \in Nodes(p) /\ At(nd, b).cost \in Int
           /\ b[1] \in Agent /\ b[2] \in p.states /\ b = <<b[1], b[2]>>
           /\ At(nd, b).op # NoOp => At(nd, b).op \in Ops(p)
           /\ Reference(nd, b) \in Pairs(p)
<1>1. b[1] \in Agent /\ b[2] \in p.states /\ b = <<b[1], b[2]>>
    BY DEF Pairs
<1>2. At(nd, b) \in Nodes(p)
    BY <1>1 DEF At
<1>3. /\ At(nd, b).cost \in Int /\ At(nd, b).op \in Ops(p) \cup {NoOp}
      /\ At(nd, b).pub \in Agent \cup {NoAgent}
    BY <1>2 DEF Nodes
<1>4. At(nd, b).op # NoOp => At(nd, b).op \in Ops(p) /\ At(nd, b).op.from \in p.states
    BY <1>3 DEF Ops
<1>5. Reference(nd, b) \in Pairs(p)
    BY <1>1, <1>3, <1>4 DEF Reference, Pairs, At
<1> QED BY <1>1, <1>2, <1>3, <1>4, <1>5

\* Such a step keeps the nodes ranked: what is renewed gets a rank above all
\* others.
LEMMA Reranked ==
    ASSUME NEW p, NEW nd \in [Agent -> [p.states -> Nodes(p)]],
           NEW nd2 \in [Agent -> [p.states -> Nodes(p)]],
           Redirected(p, nd, nd2), Ranked(p, nd)
    PROVE  Ranked(p, nd2)
<1> DEFINE Z == {b \in Pairs(p) : Renewed(nd, nd2, b)}
<1>1. PICK rk, top : RankedBy(p, nd, rk, top)
    BY DEF Ranked
<1>2. /\ rk \in [Pairs(p) -> Int] /\ top \in Int
      /\ \A b \in Pairs(p) : rk[b] < top /\ RefOK(nd, rk, b)
    BY <1>1 DEF RankedBy
<1>3. \A b \in Pairs(p) : At(nd, b).cost \in Int /\ At(nd2, b).cost \in Int
    BY NodeTypes
<1>4. ASSUME NEW b \in Pairs(p), b \notin Z
      PROVE  /\ Reference(nd2, b) = Reference(nd, b)
             /\ At(nd2, b).cost = At(nd, b).cost
             /\ (Refers(At(nd2, b)) <=> Refers(At(nd, b)))
             /\ (Reached(nd2, b) <=> Reached(nd, b))
  <2>1. SameReference(At(nd, b), At(nd2, b))
    BY <1>4 DEF Redirected
  <2>2. Reference(nd2, b) = Reference(nd, b)
    BY <2>1 DEF SameReference, Reference, At
  <2> QED BY <2>1, <2>2 DEF SameReference, Refers, Reached
<1>5. ASSUME NEW b \in Z
      PROVE  LET c == Reference(nd2, b)
             IN /\ c \in Pairs(p) /\ c \notin Z
                /\ Reached(nd, c) /\ At(nd, c).cost <= At(nd2, b).cost
  <2>1. ~SameReference(At(nd, b), At(nd2, b))
    BY <1>3 DEF SameReference, Renewed, Reached
  <2>2. Reference(nd2, b) \in Pairs(p)
    BY NodeTypes
  <2> QED BY <2>1, <2>2 DEF Redirected
<1> DEFINE rk2 == [b \in Pairs(p) |-> IF b \in Z THEN top ELSE rk[b]]
<1>6. /\ rk2 \in [Pairs(p) -> Int]
      /\ \A b \in Pairs(p) : IF b \in Z THEN rk2[b] = top ELSE rk2[b] = rk[b]
    BY <1>2
<1>7. \A b \in Z : b \in Pairs(p) /\ Renewed(nd, nd2, b)
    OBVIOUS
<1> HIDE DEF Z, rk2
<1>8. ASSUME NEW b \in Pairs(p)
      PROVE  rk2[b] < top + 1
  <2>1. rk[b] < top /\ rk[b] \in Int
    BY <1>2
  <2> QED BY <1>2, <1>6, <2>1
<1>9. ASSUME NEW b \in Z
      PROVE  RefOK(nd2, rk2, b)
  <2> DEFINE c == Reference(nd2, b)
  <2>1. /\ c \in Pairs(p) /\ c \notin Z /\ Reached(nd, c)
        /\ At(nd, c).cost <= At(nd2, b).cost
    BY <1>5
  <2>2. b \in Pairs(p)
    BY <1>7
  <2> HIDE DEF c
  <2>3. /\ Reached(nd2, c) /\ At(nd2, c).cost = At(nd, c).cost
        /\ rk2[c] = rk[c] /\ rk[c] < top /\ rk2[b] = top
    BY <1>2, <1>4, <1>6, <2>1, <2>2
  <2>4. At(nd2, c).cost \in Int /\ At(nd2, b).cost \in Int /\ rk2[c] \in Int /\ rk2[b] \in Int
    BY <1>3, <1>6, <2>1, <2>2
  <2>5. Below(At(nd2, c).cost, rk2[c], At(nd2, b).cost, rk2[b])
    <3>1. At(nd2, c).cost <= At(nd2, b).cost /\ rk2[c] < rk2[b]
      BY <2>1, <2>3
    <3> QED BY ONLY <2>4, <3>1 DEF Below
  <2> QED BY <2>3, <2>5 DEF RefOK, c
<1>10. ASSUME NEW b \in Pairs(p), b \notin Z
       PROVE  RefOK(nd2, rk2, b)
  <2> DEFINE c == Reference(nd, b)
  <2>1. /\ c = Reference(nd2, b) /\ c \in Pairs(p)
        /\ At(nd2, b).cost = At(nd, b).cost
        /\ (Refers(At(nd2, b)) <=> Refers(At(nd, b)))
        /\ (Reached(nd2, b) <=> Reached(nd, b))
    BY <1>4, <1>10, NodeTypes
  <2>2. Reached(nd, b) /\ Refers(At(nd, b)) =>
           Reached(nd, c) /\ Below(At(nd, c).cost, rk[c], At(nd, b).cost, rk[b])
    BY <1>2 DEF RefOK
  <2> HIDE DEF c
  <2>3. ASSUME Reached(nd, c), Below(At(nd, c).cost, rk[c], At(nd, b).cost, rk[b])
        PROVE  Reached(nd2, c) /\ Below(At(nd2, c).cost, rk2[c], At(nd2, b).cost, rk2[b])
    <3>1. CASE c \in Z
      <4>1. Reached(nd2, c) /\ At(nd2, c).cost < At(nd, c).cost
        BY <1>7, <2>3, <3>1 DEF Renewed
      <4>2. At(nd, c).cost <= At(nd, b).cost
        BY <1>3, <2>1, <2>3 DEF Below
      <4>3. At(nd2, c).cost < At(nd2, b).cost
        BY <1>3, <2>1, <4>1, <4>2
      <4> QED BY <4>1, <4>3 DEF Below
    <3>2. CASE c \notin Z
      <4>1. At(nd2, c).cost = At(nd, c).cost /\ (Reached(nd2, c) <=> Reached(nd, c))
        BY <1>4, <2>1, <3>2
      <4>2. rk2[c] = rk[c] /\ rk2[b] = rk[b]
        BY <1>6, <1>10, <2>1, <3>2
      <4> QED BY <2>1, <2>3, <4>1, <4>2
    <3> QED BY <3>1, <3>2
  <2> QED BY <2>1, <2>2, <2>3 DEF RefOK
<1>11. RankedBy(p, nd2, rk2, top + 1)
    BY <1>2, <1>6, <1>8, <1>9, <1>10 DEF RankedBy
<1> QED BY <1>11 DEF Ranked

\* and it forgets no node.
LEMMA NoneForgotten ==
    ASSUME NEW p, NEW nd, NEW nd2, Redirected(p, nd, nd2), NEW b \in Agent
    PROVE  StillReached(p, nd[b], nd2[b])
<1>1. ASSUME NEW s \in p.states, nd[b][s].st # "NEW"
      PROVE  nd2[b][s].st # "NEW"
  <2> DEFINE z == <<b, s>>
  <2>1. z \in Pairs(p) /\ At(nd, z) = nd[b][s] /\ At(nd2, z) = nd2[b][s]
    BY DEF Pairs, At
  <2> HIDE DEF z
  <2> QED BY <1>1, <2>1 DEF Redirected, SameReference, Renewed, Reached
<1> QED BY <1>1 DEF StillReached


-----------------------------------------------------------------------------
(* Following references *)

\* The operators that lead to a state that was reached come from a state that
\* was reached without one.
LEMMA AncestorEnds ==
    ASSUME problem \in Problems, NEW nd \in [Agent -> [States -> Nodes(problem)]],
           Ranked(problem, nd), NEW a \in Agent, NEW s \in States, nd[a][s].st # "NEW"
    PROVE  LET r == Ancestor(nd[a], s).s
           IN r \in States /\ nd[a][r].st # "NEW" /\ nd[a][r].op = NoOp
<1> DEFINE n == Cardinality(States)
           x == [y \in States |-> nd[a][y].cost]
<1>1. IsFiniteSet(States) /\ n \in Nat /\ nd[a] \in [States -> Nodes(problem)]
    BY ProblemFacts, FS_CardinalityType
<1>2. PICK h \in LeadPaths : LeadPath(h, nd[a], s)
    BY <1>1, AncestorPath
<1>3. PICK rk, top : RankedBy(problem, nd, rk, top)
    BY DEF Ranked
<1> DEFINE y == [z \in States |-> rk[<<a, z>>]]
           f == [k \in 0 .. n |-> h[k].s]
           E == {z \in States : nd[a][z].op = NoOp}
<1>4. /\ h \in [0 .. n -> [s : States, cost : Int]]
      /\ h[0] = [s |-> s, cost |-> 0]
      /\ \A k \in 1 .. n : h[k] = Lead(nd[a], h[k - 1])
      /\ Ancestor(nd[a], s) = h[n]
    BY <1>2 DEF LeadPaths, LeadPath
<1>5. /\ f \in [0 .. n -> States] /\ f[0] = s /\ f[n] = Ancestor(nd[a], s).s
      /\ \A k \in 1 .. n : /\ f[k - 1] \in States
                           /\ f[k] = IF nd[a][f[k - 1]].op = NoOp THEN f[k - 1]
                                     ELSE nd[a][f[k - 1]].op.from
  <2> HIDE DEF n
  <2>1. \A k \in 0 .. n : h[k] \in [s : States, cost : Int] /\ f[k] = h[k].s
    BY <1>4
  <2>2. \A k \in 0 .. n : f[k] \in States
    BY <2>1
  <2>3. f \in [0 .. n -> States] /\ f[0] = s /\ f[n] = Ancestor(nd[a], s).s
    BY <1>1, <1>4, <2>2
  <2>4. ASSUME NEW k \in 1 .. n
        PROVE  /\ f[k - 1] \in States
               /\ f[k] = IF nd[a][f[k - 1]].op = NoOp THEN f[k - 1]
                         ELSE nd[a][f[k - 1]].op.from
    <3>1. k - 1 \in 0 .. n /\ k \in 0 .. n
      BY <1>1
    <3>2. f[k - 1] = h[k - 1].s /\ f[k] = h[k].s /\ f[k - 1] \in States
      BY <2>1, <2>2, <3>1
    <3>3. h[k] = Lead(nd[a], h[k - 1])
      BY <1>4
    <3> HIDE DEF f
    <3> QED BY <3>2, <3>3 DEF Lead
  <2> HIDE DEF f
  <2> QED BY <2>3, <2>4
<1> HIDE DEF f
<1>6. ASSUME NEW z \in States, nd[a][z].st # "NEW", nd[a][z].op # NoOp
      PROVE  /\ nd[a][nd[a][z].op.from].st # "NEW" /\ nd[a][z].op.from \in States
             /\ Below(x[nd[a][z].op.from], y[nd[a][z].op.from], x[z], y[z])
  <2> DEFINE b == <<a, z>>
             c == <<a, nd[a][z].op.from>>
  <2>1. b \in Pairs(problem) /\ At(nd, b) = nd[a][z] /\ Reached(nd, b) /\ Refers(At(nd, b))
    BY <1>6 DEF Pairs, At, States, Reached, Refers
  <2>2. c = Reference(nd, b)
    BY <1>6 DEF Reference
  <2>3. RefOK(nd, rk, b)
    BY <1>3, <2>1 DEF RankedBy
  <2>4. c \in Pairs(problem)
    BY <2>1, <2>2, NodeTypes DEF States
  <2>5. nd[a][z].op.from \in States /\ At(nd, c) = nd[a][nd[a][z].op.from]
    BY <2>4 DEF Pairs, At, States
  <2>6. Reached(nd, c) /\ Below(At(nd, c).cost, rk[c], At(nd, b).cost, rk[b])
    <3> HIDE DEF b, c
    <3> QED BY <2>1, <2>2, <2>3 DEF RefOK
  <2>7. /\ x[nd[a][z].op.from] = At(nd, c).cost /\ x[z] = At(nd, b).cost
        /\ y[nd[a][z].op.from] = rk[c] /\ y[z] = rk[b]
    BY <2>1, <2>5
  <2> HIDE DEF x, y, b, c
  <2> QED BY <2>5, <2>6, <2>7 DEF Reached
<1>7. x \in [States -> Int] /\ y \in [States -> Int]
  <2>1. \A z \in States : nd[a][z].cost \in Int
    BY <1>1 DEF Nodes
  <2>2. \A z \in States : rk[<<a, z>>] \in Int
    BY <1>3 DEF RankedBy, Pairs, States
  <2> QED BY <2>1, <2>2
<1> HIDE DEF x, y
<1>8. \A k \in 0 .. n : nd[a][f[k]].st # "NEW"
  <2> DEFINE T == {k \in 0 .. n : nd[a][f[k]].st # "NEW"}
  <2> HIDE DEF n
  <2>1. 0 \in T
    BY <1>1, <1>5
  <2>2. \A k \in 1 .. n : k - 1 \in T => k \in T
    BY <1>1, <1>5, <1>6
  <2>3. \A k \in 0 .. n : k \in T
    <3> HIDE DEF T
    <3> QED BY <1>1, <2>1, <2>2, UpTo
  <2> QED BY <2>3
<1>9. \A k \in 1 .. n : IF f[k - 1] \in E THEN f[k] \in E
                        ELSE Below(x[f[k]], y[f[k]], x[f[k - 1]], y[f[k - 1]])
  <2>1. ASSUME NEW k \in 1 .. n
        PROVE  IF f[k - 1] \in E THEN f[k] \in E
               ELSE Below(x[f[k]], y[f[k]], x[f[k - 1]], y[f[k - 1]])
    <3>1. k - 1 \in 0 .. n
      BY <1>1
    <3>2. f[k - 1] \in States /\ nd[a][f[k - 1]].st # "NEW"
      BY <1>5, <1>8, <3>1
    <3> QED BY <1>5, <1>6, <3>2
  <2> QED BY <2>1
<1>10. f[n] \in E
  <2> HIDE DEF E
  <2> QED BY <1>1, <1>5, <1>7, <1>9, Descent
<1>11. nd[a][f[n]].st # "NEW"
    BY <1>1, <1>8
<1> QED BY <1>5, <1>10, <1>11

\* Following every reference, until the initial state is reached.
Reach(nd, c) == IF c[2] = problem.init THEN c ELSE Reference(nd, c)
Refs(f, nd, b) == f = [k \in 0 .. N * Cardinality(States) |->
                         IF k = 0 THEN b ELSE Reach(nd, f[k - 1])]

\* The definition of Origin picks one of the solutions.
LEMMA OriginIs ==
    ASSUME NEW nd, NEW b, \E f : Refs(f, nd, b)
    PROVE  \E f : Refs(f, nd, b) /\ Origin(nd, b) = f[N * Cardinality(States)]
BY Zenon DEF Origin, Refs, Reach

\* The path of references from a node, as many steps as there are nodes.
RefPaths == [0 .. N * Cardinality(States) -> Pairs(problem)]
RefPath(f, nd, b) ==
    /\ f[0] = b
    /\ \A k \in 1 .. N * Cardinality(States) : f[k] = Reach(nd, f[k - 1])
    /\ Origin(nd, b) = f[N * Cardinality(States)]

\* There is one.
LEMMA OriginPath ==
    ASSUME problem \in Problems, NEW nd \in [Agent -> [problem.states -> Nodes(problem)]],
           NEW b \in Pairs(problem)
    PROVE  \E f \in RefPaths : RefPath(f, nd, b)
<1> DEFINE n == N * Cardinality(States)
           S == Pairs(problem)
           F == [k \in 1 .. n |-> [c \in S |-> Reach(nd, c)]]
<1>1. n \in Nat
    BY SizeAssumption, ProblemFacts, FS_CardinalityType
<1>2. ASSUME NEW c \in S
      PROVE  Reach(nd, c) \in S
    BY NodeTypes DEF Reach
<1>3. PICK f \in [0 .. n -> S] : f[0] = b /\ \A k \in 1 .. n : f[k] = F[k][f[k - 1]]
  <2>1. F \in [1 .. n -> [S -> S]]
    <3> HIDE DEF S, n
    <3> QED BY <1>2
  <2>2. \E f \in [0 .. n -> S] : Follows(f, b, n, F)
    <3>1. b \in S
      OBVIOUS
    <3> HIDE DEF F, S, n
    <3> QED BY ONLY <1>1, <2>1, <3>1, Recursion, Zenon
  <2> QED BY <2>2 DEF Follows
<1>4. \E h : Refs(h, nd, b)
  <2>1. \A k \in 1 .. n : f[k - 1] \in S /\ f[k] = Reach(nd, f[k - 1])
    <3> HIDE DEF S, n
    <3>1. \A k \in 1 .. n : f[k - 1] \in S
      BY <1>1
    <3> QED BY <1>3, <3>1
  <2>2. f = [k \in 0 .. n |-> IF k = 0 THEN b ELSE Reach(nd, f[k - 1])]
    <3> HIDE DEF S, n
    <3> QED BY <1>1, <1>3, <2>1
  <2>3. Refs(f, nd, b)
    BY <2>2 DEF Refs
  <2> QED BY <2>3
<1>5. PICK h : Refs(h, nd, b) /\ Origin(nd, b) = h[n]
    BY <1>4, OriginIs
<1>6. h \in [0 .. n -> S] /\ h[0] = b /\ \A k \in 1 .. n : h[k] = Reach(nd, h[k - 1])
  <2> DEFINE T == {k \in 0 .. n : h[k] \in S}
  <2>1. h = [k \in 0 .. n |-> IF k = 0 THEN b ELSE Reach(nd, h[k - 1])]
    BY <1>5 DEF Refs
  <2>0. b \in S
    OBVIOUS
  <2> HIDE DEF S, n
  <2>2. h[0] = b /\ \A k \in 1 .. n : h[k] = Reach(nd, h[k - 1])
    BY <1>1, <2>1
  <2>3. 0 \in T
    BY <1>1, <2>0, <2>2
  <2>4. \A k \in 1 .. n : k - 1 \in T => k \in T
    BY <1>1, <1>2, <2>2
  <2>5. \A k \in 0 .. n : k \in T
    <3> HIDE DEF T
    <3> QED BY <1>1, <2>3, <2>4, UpTo
  <2>6. \A k \in 0 .. n : h[k] \in S
    BY <2>5
  <2>7. h = [k \in 0 .. n |-> h[k]]
    BY <2>1
  <2>8. h \in [0 .. n -> S]
    BY ONLY <2>6, <2>7
  <2> QED BY <2>2, <2>8
<1>7. h \in RefPaths
    BY <1>6 DEF RefPaths
<1>8. RefPath(h, nd, b)
    BY <1>5, <1>6 DEF RefPath
<1> QED BY <1>7, <1>8

\* There are N times as many nodes as states.
LEMMA PairsAreFinite ==
    ASSUME problem \in Problems
    PROVE  /\ IsFiniteSet(Pairs(problem))
           /\ Cardinality(Pairs(problem)) = N * Cardinality(States)
<1>1. IsFiniteSet(States) /\ Cardinality(States) \in Nat
    BY ProblemFacts, FS_CardinalityType
<1>2. 0 \in Int /\ N - 1 \in Int /\ N - 1 >= 0 /\ N \in Nat /\ N - 1 - 0 + 1 = N
    BY SizeAssumption
<1>3. IsFiniteSet(Agent) /\ Cardinality(Agent) = N
    BY <1>2, FS_Interval DEF Agent
<1>4. IsFiniteSet(Agent \X States) /\ Cardinality(Agent \X States) = Cardinality(Agent) * Cardinality(States)
    BY <1>1, <1>3, FS_Product
<1> QED BY <1>3, <1>4 DEF Pairs, States

\* Every node that was reached leads to the initial state.
LEMMA OriginIsInit ==
    ASSUME problem \in Problems, NEW nd \in [Agent -> [problem.states -> Nodes(problem)]],
           Ranked(problem, nd), NEW b \in Pairs(problem), Reached(nd, b),
           \A c \in Pairs(problem) : Reached(nd, c) /\ c[2] # problem.init => Refers(At(nd, c))
    PROVE  Origin(nd, b)[2] = problem.init
<1> DEFINE S == Pairs(problem)
           n == Cardinality(S)
           x == [c \in S |-> At(nd, c).cost]
           E == {c \in S : c[2] = problem.init}
<1>1. IsFiniteSet(S) /\ n \in Nat /\ n = N * Cardinality(States)
    BY PairsAreFinite, FS_CardinalityType
<1>2. PICK f \in RefPaths : RefPath(f, nd, b)
    BY OriginPath
<1>3. /\ f \in [0 .. n -> S] /\ f[0] = b /\ Origin(nd, b) = f[n]
      /\ \A k \in 1 .. n : f[k] = Reach(nd, f[k - 1])
    BY <1>1, <1>2 DEF RefPaths, RefPath
<1>4. PICK rk, top : RankedBy(problem, nd, rk, top)
    BY DEF Ranked
<1>5. x \in [S -> Int] /\ rk \in [S -> Int]
  <2>1. \A c \in S : At(nd, c).cost \in Int
    BY NodeTypes
  <2> QED BY <1>4, <2>1 DEF RankedBy
<1>6. ASSUME NEW c \in S, Reached(nd, c), c \notin E
      PROVE  Reached(nd, Reach(nd, c)) /\ Below(x[Reach(nd, c)], rk[Reach(nd, c)], x[c], rk[c])
  <2> DEFINE d == Reference(nd, c)
  <2>1. Reach(nd, c) = d /\ Refers(At(nd, c)) /\ d \in S
    BY <1>6, NodeTypes DEF Reach
  <2>2. RefOK(nd, rk, c)
    BY <1>4 DEF RankedBy
  <2>3. Reached(nd, d) /\ Below(At(nd, d).cost, rk[d], At(nd, c).cost, rk[c])
    BY <1>6, <2>1, <2>2 DEF RefOK
  <2>4. x[d] = At(nd, d).cost /\ x[c] = At(nd, c).cost
    BY <2>1
  <2> HIDE DEF d, x
  <2> QED BY <2>1, <2>3, <2>4
<1>7. ASSUME NEW c \in E
      PROVE  Reach(nd, c) = c
    BY DEF Reach
<1>8. \A c \in S : c \notin E => c[2] # problem.init
    OBVIOUS
<1>9. \A c \in E : c[2] = problem.init
    OBVIOUS
<1> HIDE DEF x, E, S, n
<1>10. \A k \in 1 .. n : k - 1 \in 0 .. n /\ f[k - 1] \in S
  <2>1. \A k \in 1 .. n : k - 1 \in 0 .. n
    BY <1>1
  <2> QED BY <1>3, <2>1
<1>11. \A k \in 0 .. n : Reached(nd, f[k])
  <2> DEFINE T == {k \in 0 .. n : Reached(nd, f[k])}
  <2>1. 0 \in T
    BY <1>1, <1>3
  <2>2. \A k \in 1 .. n : k - 1 \in T => k \in T
    <3>1. ASSUME NEW k \in 1 .. n, Reached(nd, f[k - 1])
          PROVE  Reached(nd, f[k]) /\ k \in 0 .. n
      <4>1. f[k] = Reach(nd, f[k - 1]) /\ f[k - 1] \in S /\ k \in 0 .. n
        BY <1>1, <1>3, <1>10
      <4> QED BY <1>6, <1>7, <3>1, <4>1
    <3> QED BY <3>1
  <2>3. \A k \in 0 .. n : k \in T
    <3> HIDE DEF T
    <3> QED BY <1>1, <2>1, <2>2, UpTo
  <2> QED BY <2>3
<1>12. \A k \in 1 .. n : IF f[k - 1] \in E THEN f[k] \in E
                         ELSE Below(x[f[k]], rk[f[k]], x[f[k - 1]], rk[f[k - 1]])
  <2>1. ASSUME NEW k \in 1 .. n
        PROVE  IF f[k - 1] \in E THEN f[k] \in E
               ELSE Below(x[f[k]], rk[f[k]], x[f[k - 1]], rk[f[k - 1]])
    <3>1. f[k - 1] \in S /\ Reached(nd, f[k - 1]) /\ f[k] = Reach(nd, f[k - 1])
      BY <1>3, <1>10, <1>11
    <3> QED BY <1>6, <1>7, <3>1
  <2> QED BY <2>1
<1>13. f[n] \in E
    BY <1>1, <1>3, <1>5, <1>12, Descent DEF n
<1> QED BY <1>3, <1>9, <1>13

-----------------------------------------------------------------------------
(* How the search changes nodes *)

\* Only agent a's node of s changes, and becomes n.
OneNode(nd, nd2, a, s, n) ==
    /\ nd2[a] = [nd[a] EXCEPT ![s] = n]
    /\ \A b \in Agent \ {a} : nd2[b] = nd[b]

\* The node is new or cheaper than it was, and refers to something that exists.
NewReference(nd, a, s, o, n) ==
    n.st # "NEW" /\ (o.st = "NEW" \/ n.cost < o.cost) /\ Sound(nd, a, n, s)

\* A node is renewed, or only its state and its heuristic value change.
LEMMA OneRedirected ==
    ASSUME NEW p, NEW nd \in [Agent -> [p.states -> Nodes(p)]],
           NEW nd2 \in [Agent -> [p.states -> Nodes(p)]],
           NEW a \in Agent, NEW s \in p.states, NEW n \in Nodes(p), OneNode(nd, nd2, a, s, n),
           SameReference(nd[a][s], n) \/ NewReference(nd, a, s, nd[a][s], n)
    PROVE  Redirected(p, nd, nd2)
<1> DEFINE z == <<a, s>>
           o == At(nd, z)
<1>1. /\ z \in Pairs(p) /\ z[1] = a /\ z[2] = s
      /\ o = nd[a][s] /\ At(nd2, z) = n
      /\ \A b \in Pairs(p) \ {z} : At(nd2, b) = At(nd, b)
  <2>1. z \in Pairs(p) /\ z[1] = a /\ z[2] = s /\ o = nd[a][s]
    BY DEF Pairs, At
  <2>2. At(nd2, z) = n
    BY <2>1 DEF OneNode, At
  <2>3. ASSUME NEW b \in Pairs(p) \ {z}
        PROVE  At(nd2, b) = At(nd, b)
    <3>1. b[1] \in Agent /\ b[2] \in p.states /\ ~(b[1] = a /\ b[2] = s)
      BY DEF Pairs
    <3>2. CASE b[1] # a
      BY <3>1, <3>2 DEF OneNode, At
    <3>3. CASE b[1] = a
      BY <3>1, <3>3 DEF OneNode, At
    <3> QED BY <3>2, <3>3
  <2> QED BY <2>1, <2>2, <2>3
<1> HIDE DEF z, o
<1>2. \A b \in Pairs(p) \ {z} : SameReference(At(nd, b), At(nd2, b))
    BY <1>1 DEF SameReference
<1>3. o.cost \in Int /\ n.cost \in Int
    BY <1>1, NodeTypes DEF Nodes, o
<1>4. CASE SameReference(o, n)
    BY <1>1, <1>2, <1>4 DEF Redirected, o
<1>5. CASE NewReference(nd, a, s, o, n)
  <2>1. n.st # "NEW" /\ (o.st = "NEW" \/ n.cost < o.cost) /\ Sound(nd, a, n, s)
    BY <1>5 DEF NewReference
  <2>2. LET c == Reference(nd2, z)
        IN c \in Pairs(p) \ {z} /\ Reached(nd, c) /\ At(nd, c).cost <= n.cost
    <3>1. CASE n.op # NoOp
      <4>1. n.op \in Ops(p)
        BY <3>1 DEF Nodes
      <4>2. n.op.from \in p.states /\ n.op.cost \in Nat
        BY <4>1 DEF Ops
      <4> DEFINE c == <<a, n.op.from>>
      <4>3. c = Reference(nd2, z) /\ c \in Pairs(p) /\ At(nd, c) = nd[a][n.op.from]
        BY <1>1, <3>1, <4>2 DEF Reference, Pairs, At
      <4>4. Has(nd, a, n.op.from, n.cost - n.op.cost)
        BY <2>1, <3>1 DEF Sound
      <4> HIDE DEF c
      <4>5. At(nd, c).st # "NEW" /\ At(nd, c).cost <= n.cost - n.op.cost /\ At(nd, c).cost \in Int
        BY <4>3, <4>4, NodeTypes DEF Has
      <4>6. At(nd, c).cost <= n.cost
        BY <1>3, <4>2, <4>5
      <4>7. c # z
        BY <1>3, <2>1, <4>5, <4>6 DEF o
      <4> QED BY <4>3, <4>5, <4>6, <4>7 DEF Reached
    <3>2. CASE n.op = NoOp
      <4>1. n.pub \in Others(a) /\ Has(nd, n.pub, s, n.cost)
        BY <2>1, <3>2 DEF Sound
      <4> DEFINE c == <<n.pub, s>>
      <4>2. n.pub \in Agent /\ n.pub # a /\ n.pub # NoAgent
        BY <4>1, SizeAssumption DEF Others, Agent, NoAgent
      <4>3. c = Reference(nd2, z) /\ c \in Pairs(p) /\ At(nd, c) = nd[n.pub][s] /\ c # z
        BY <1>1, <3>2, <4>2 DEF Reference, Pairs, At
      <4> QED BY <4>1, <4>3 DEF Has, Reached
    <3> QED BY <3>1, <3>2
  <2>3. Renewed(nd, nd2, z)
    BY <1>1, <2>1 DEF Renewed, Reached, o
  <2> DEFINE c == Reference(nd2, z)
  <2>4. c \in Pairs(p) \ {z} /\ Reached(nd, c) /\ At(nd, c).cost <= At(nd2, z).cost
    BY <1>1, <2>2
  <2> HIDE DEF c
  <2>5. ~Renewed(nd, nd2, c)
    <3>1. At(nd2, c) = At(nd, c) /\ At(nd, c).cost \in Int
      BY <1>1, <2>4, NodeTypes
    <3> QED BY <2>4, <3>1 DEF Renewed
  <2> QED BY <1>2, <2>3, <2>4, <2>5 DEF Redirected, c
<1> QED BY <1>1, <1>4, <1>5

\* Agent a's nodes nd[a] become m in the expansion of s: its successors refer
\* to it.
Expanded(nd, a, s, m) ==
    \A x \in States :
       \/ SameReference(nd[a][x], m[x])
       \/ /\ x # s /\ m[x].st # "NEW" /\ (nd[a][x].st = "NEW" \/ m[x].cost < nd[a][x].cost)
          /\ m[x].op # NoOp /\ m[x].op.from = s /\ nd[a][s].cost <= m[x].cost

\* Then nothing else is renewed.
LEMMA ExpansionRedirects ==
    ASSUME node \in [Agent -> [States -> Nodes(problem)]],
           NEW a \in Agent, NEW s \in States, node[a][s].st # "NEW",
           NEW m \in [States -> Nodes(problem)], Expanded(node, a, s, m),
           NEW nd2, nd2 = [node EXCEPT ![a] = m]
    PROVE  Redirected(problem, node, nd2)
<1>1. \A b \in Pairs(problem) : /\ b[1] \in Agent /\ b[2] \in States
                               /\ At(nd2, b) = IF b[1] = a THEN m[b[2]] ELSE At(node, b)
    BY DEF Pairs, At, States
<1> DEFINE c == <<a, s>>
<1>2. c \in Pairs(problem) /\ At(node, c) = node[a][s] /\ At(nd2, c) = m[s]
    BY <1>1 DEF Pairs, At, States
<1>3. Reached(node, c) /\ ~Renewed(node, nd2, c)
  <2>1. SameReference(node[a][s], m[s])
    BY DEF Expanded
  <2>2. node[a][s].cost \in Int
    BY DEF Nodes
  <2> HIDE DEF c
  <2> QED BY <1>2, <2>1, <2>2 DEF SameReference, Renewed, Reached
<1>4. ASSUME NEW b \in Pairs(problem)
      PROVE  \/ SameReference(At(node, b), At(nd2, b))
             \/ /\ Renewed(node, nd2, b)
                /\ LET d == Reference(nd2, b)
                   IN Reached(node, d) /\ ~Renewed(node, nd2, d)
                      /\ At(node, d).cost <= At(nd2, b).cost
  <2>1. CASE b[1] # a
    BY <1>1, <2>1 DEF SameReference
  <2>2. CASE b[1] = a
    <3> DEFINE x == b[2]
    <3>1. /\ x \in States /\ At(nd2, b) = m[x] /\ At(node, b) = node[a][x]
          /\ nd2[b[1]][b[2]] = m[x]
      BY <1>1, <2>2 DEF At
    <3>2. CASE SameReference(node[a][x], m[x])
      BY <3>1, <3>2
    <3>3. CASE /\ m[x].st # "NEW" /\ (node[a][x].st = "NEW" \/ m[x].cost < node[a][x].cost)
               /\ m[x].op # NoOp /\ m[x].op.from = s /\ node[a][s].cost <= m[x].cost
      <4>1. Renewed(node, nd2, b)
        BY <3>1, <3>3 DEF Renewed, Reached
      <4>2. Reference(nd2, b) = c
        BY <2>2, <3>1, <3>3 DEF Reference
      <4> HIDE DEF c, x
      <4>3. At(node, c).cost <= At(nd2, b).cost
        BY <1>2, <3>1, <3>3
      <4> QED BY <1>3, <4>1, <4>2, <4>3
    <3> QED BY <3>1, <3>2, <3>3 DEF Expanded
  <2> QED BY <2>1, <2>2
<1> QED BY <1>4 DEF Redirected

\* An opened node is open, and otherwise as before.
LEMMA OpenedIs ==
    ASSUME NEW p, NEW n \in Nodes(p)
    PROVE  /\ Opened(n) \in Nodes(p) /\ Opened(n).st = "OPEN"
           /\ Opened(n).op = n.op /\ Opened(n).cost = n.cost /\ Opened(n).pub = n.pub
<1>1. Opened(n) = [st |-> "OPEN", op |-> n.op, cost |-> n.cost, heur |-> n.heur,
                   pub |-> n.pub]
    BY DEF Opened, Nodes
<1>2. Opened(n) \in Nodes(p)
    BY <1>1 DEF Nodes
<1> QED BY <1>1, <1>2

\* astarInsertState.
LEMMA GenerateExpands ==
    ASSUME problem \in Problems, node \in [Agent -> [States -> Nodes(problem)]],
           NEW a \in Agent, NEW W, NEW acc \in Accs(problem, node, a, W),
           NEW s \in States, node[a][s].st # "NEW", NEW o \in Ops(problem), o.from = s,
           Expanded(node, a, s, acc.node)
    PROVE  Expanded(node, a, s, Generate(acc, o, a, node[a][s].cost).node)
<1> DEFINE g == node[a][s].cost
           r == Generate(acc, o, a, g)
           t == o.to
           n == acc.node[t]
           c == g + o.cost
           h == IF n.st = "NEW" THEN Heur(a, t) ELSE n.heur
           m == Changed(n, o, c, h)
<1>1. t \in States /\ o.cost \in Nat /\ o # NoOp
    BY OpIsOp DEF Ops, States
<1>2. acc.node \in [States -> Nodes(problem)]
    BY DEF Accs, States
<1>3. /\ n \in Nodes(problem) /\ Heur(a, t) \in Nat /\ node[a][s] \in Nodes(problem)
      /\ node[a][t] \in Nodes(problem)
    BY <1>1, <1>2, ProblemFacts
<1>4. h \in Int /\ n.cost \in Int /\ c \in Int /\ g \in Int /\ g <= c /\ node[a][t].cost \in Int
    BY <1>1, <1>3 DEF Nodes
<1>5. m.op = o /\ m.cost = c /\ m \in Nodes(problem)
  <2> HIDE DEF n, h, c
  <2> QED BY <1>3, <1>4, NodeChanged
<1>6. r = IF Improves(n, c) THEN InsertNode(a, acc.node, acc.list, m, t) ELSE acc
    BY DEF Generate, Changed
<1>7. \A x \in States :
         \/ SameReference(node[a][x], acc.node[x])
         \/ /\ x # s /\ acc.node[x].st # "NEW"
            /\ (node[a][x].st = "NEW" \/ acc.node[x].cost < node[a][x].cost)
            /\ acc.node[x].op # NoOp /\ acc.node[x].op.from = s
            /\ node[a][s].cost <= acc.node[x].cost
    BY DEF Expanded
<1> HIDE DEF m, r, h
<1>8. CASE ~Improves(n, c)
    BY <1>6, <1>8 DEF r
<1>9. CASE Improves(n, c)
  <2>1. t # s
    <3>1. ASSUME t = s
          PROVE  n.st # "NEW" /\ n.cost = g
      BY <1>1, <1>7, <3>1 DEF SameReference
    <3> HIDE DEF n, g, c
    <3> QED BY <1>4, <1>9, <3>1 DEF Improves
  <2>2. node[a][t].st = "NEW" \/ c < node[a][t].cost
    <3>1. \/ SameReference(node[a][t], n)
          \/ n.st # "NEW" /\ (node[a][t].st = "NEW" \/ n.cost < node[a][t].cost)
      BY <1>1, <1>7
    <3> HIDE DEF n, g, c
    <3>2. n.st = "NEW" \/ c < n.cost
      BY <1>4, <1>9 DEF Improves
    <3> QED BY <1>4, <3>1, <3>2 DEF SameReference
  <2> DEFINE m2 == [acc.node EXCEPT ![t] = Opened(m)]
  <2>3. r.node = m2
    BY <1>6, <1>9 DEF InsertNode
  <2>4. Opened(m).st = "OPEN" /\ Opened(m).op = o /\ Opened(m).cost = c
    BY <1>5, OpenedIs
  <2>5. m2[t] = Opened(m) /\ \A x \in States \ {t} : m2[x] = acc.node[x]
    BY <1>1, <1>2
  <2> HIDE DEF m2, t, n, c
  <2>6. Expanded(node, a, s, m2)
    <3>1. ASSUME NEW x \in States, x # t
          PROVE  m2[x] = acc.node[x]
      BY <2>5, <3>1
    <3>2. /\ t # s /\ m2[t].st # "NEW" /\ (node[a][t].st = "NEW" \/ m2[t].cost < node[a][t].cost)
          /\ m2[t].op # NoOp /\ m2[t].op.from = s /\ node[a][s].cost <= m2[t].cost
      BY <1>1, <1>4, <2>1, <2>2, <2>4, <2>5
    <3> QED BY <1>7, <3>1, <3>2 DEF Expanded
  <2> QED BY <2>3, <2>6 DEF r
<1> QED BY <1>8, <1>9

\* All successors of a state: m are the nodes when s has been closed.
LEMMA GenerateAllExpands ==
    ASSUME problem \in Problems, node \in [Agent -> [States -> Nodes(problem)]],
           NEW a \in Agent, NEW s \in States, node[a][s].st # "NEW",
           node[a][s].cost \in Nat, NEW m, NEW l, NEW W, PartOK(problem, node, a, m, l, W),
           m[s].cost = node[a][s].cost, Expanded(node, a, s, m)
    PROVE  /\ GenerateAll(a, s, m, l).node \in [States -> Nodes(problem)]
           /\ Expanded(node, a, s, GenerateAll(a, s, m, l).node)
<1> DEFINE S == {acc \in Accs(problem, node, a, W) : Expanded(node, a, s, acc.node)}
<1>1. [node |-> m, list |-> l] \in S
    BY DEF Accs, PartOK
<1>2. ASSUME NEW acc \in S, NEW i \in 1 .. Len(OpsOf(a, s))
      PROVE  Generate(acc, OpsOf(a, s)[i], a, m[s].cost) \in S
  <2> DEFINE o == OpsOf(a, s)[i]
             g == node[a][s].cost
  <2>1. o \in Ops(problem) /\ o.from = s
    BY ProblemFacts
  <2>2. Has(node, a, o.from, g) /\ g \in Nat
    <3>1. g <= g
      OBVIOUS
    <3> QED BY <2>1, <3>1 DEF Has
  <2>3. acc \in Accs(problem, node, a, W) /\ Expanded(node, a, s, acc.node)
    OBVIOUS
  <2> HIDE DEF o, S
  <2>4. Expanded(node, a, s, Generate(acc, o, a, g).node)
    BY <2>1, <2>3, GenerateExpands
  <2> HIDE DEF g
  <2>5. Generate(acc, o, a, g) \in Accs(problem, node, a, W)
    BY <2>1, <2>2, <2>3, GenerateKeeps
  <2>6. Generate(acc, o, a, g) \in S
    BY <2>4, <2>5 DEF S
  <2> QED BY <2>6 DEF o, g
<1>3. GenerateAll(a, s, m, l) \in S
  <2> HIDE DEF S
  <2> QED BY <1>1, <1>2, GenerateAllIn
<1> QED BY <1>3 DEF Accs, States

\* One node of agent a changes.
LEMMA NodeRedirects ==
    ASSUME node \in [Agent -> [States -> Nodes(problem)]],
           NEW a \in Agent, NEW s \in States, NEW n \in Nodes(problem),
           SameReference(node[a][s], n) \/ NewReference(node, a, s, node[a][s], n)
    PROVE  Redirected(problem, node, [node EXCEPT ![a] = [node[a] EXCEPT ![s] = n]])
<1> DEFINE m == [node[a] EXCEPT ![s] = n]
           nd2 == [node EXCEPT ![a] = m]
<1>1. m \in [problem.states -> Nodes(problem)]
    BY DEF States
<1>2. OneNode(node, nd2, a, s, n)
    BY DEF OneNode
<1> HIDE DEF m
<1>3. nd2 \in [Agent -> [problem.states -> Nodes(problem)]]
    BY <1>1 DEF States
<1> HIDE DEF nd2
<1>4. Redirected(problem, node, nd2)
    BY <1>2, <1>3, OneRedirected DEF States
<1> QED BY <1>4 DEF nd2, m

\* A node is put into the list again, or a new one is (planSearchInsertNode).
LEMMA InsertRedirects ==
    ASSUME node \in [Agent -> [States -> Nodes(problem)]],
           NEW a \in Agent, NEW s \in States, NEW n \in Nodes(problem), NEW l,
           \/ node[a][s].st # "NEW" /\ n = node[a][s]
           \/ (node[a][s].st = "NEW" \/ n.cost < node[a][s].cost) /\ Sound(node, a, n, s)
    PROVE  Redirected(problem, node,
                      [node EXCEPT ![a] = InsertNode(a, node[a], l, n, s).node])
<1> DEFINE x == Opened(n)
<1>1. /\ x \in Nodes(problem) /\ x.st = "OPEN" /\ x.op = n.op /\ x.cost = n.cost
      /\ x.pub = n.pub
    BY OpenedIs
<1>2. InsertNode(a, node[a], l, n, s).node = [node[a] EXCEPT ![s] = x]
    BY DEF InsertNode
<1> HIDE DEF x
<1>3. SameReference(node[a][s], x) \/ NewReference(node, a, s, node[a][s], x)
  <2>1. CASE node[a][s].st # "NEW" /\ n = node[a][s]
    BY <1>1, <2>1 DEF SameReference
  <2>2. CASE (node[a][s].st = "NEW" \/ n.cost < node[a][s].cost) /\ Sound(node, a, n, s)
    BY <1>1, <2>2 DEF NewReference, Sound
  <2> QED BY <2>1, <2>2
<1>4. Redirected(problem, node, [node EXCEPT ![a] = [node[a] EXCEPT ![s] = x]])
    BY <1>1, <1>3, NodeRedirects
<1> QED BY <1>2, <1>4

\* No node changes.
LEMMA SameRedirects == Redirected(problem, node, node)
BY DEF Redirected, SameReference

-----------------------------------------------------------------------------
(* Messages of traces *)

\* Messages that agent q can receive: a path that is to be traced on ends in a
\* state that q has reached.
Ready(p, nd, q) == {m \in Msgs(p) : m.kind = "TRACE_PATH" =>
                                      m.s = NoState \/ nd[q][m.s].st # "NEW"}
TracesOK(p, nd, ch) ==
    ch \in Channels(Msgs(p)) /\ \A b \in Agent : \A q \in Agent : ch[b][q] \in Seq(Ready(p, nd, q))

\* They stay so, as no node is forgotten.
LEMMA ReadyStill ==
    ASSUME NEW p, NEW nd, NEW nd2, \A b \in Agent : StillReached(p, nd[b], nd2[b]),
           NEW ch, TracesOK(p, nd, ch)
    PROVE  TracesOK(p, nd2, ch)
<1>1. ASSUME NEW b \in Agent, NEW q \in Agent
      PROVE  ch[b][q] \in Seq(Ready(p, nd2, q))
  <2>1. Ready(p, nd, q) \subseteq Ready(p, nd2, q)
    <3>1. ASSUME NEW m \in Ready(p, nd, q)
          PROVE  m \in Ready(p, nd2, q)
      <4>1. m \in Msgs(p) /\ (m.kind = "TRACE_PATH" => m.s = NoState \/ nd[q][m.s].st # "NEW")
        BY DEF Ready
      <4>2. m.kind = "TRACE_PATH" => m.s \in p.states \cup {NoState}
        BY <4>1, MsgKinds DEF TraceMsgs
      <4>3. m.kind = "TRACE_PATH" => m.s = NoState \/ nd2[q][m.s].st # "NEW"
        BY <4>1, <4>2 DEF StillReached
      <4> QED BY <4>1, <4>3 DEF Ready
    <3> QED BY <3>1
  <2>2. ch[b][q] \in Seq(Ready(p, nd, q))
    BY DEF TracesOK
  <2> QED BY ONLY <2>1, <2>2
<1> QED BY <1>1 DEF TracesOK

\* Sending what every receiver can receive,
LEMMA ReadySend ==
    ASSUME NEW p, NEW nd, NEW ch, TracesOK(p, nd, ch), NEW a \in Agent, NEW S,
           NEW m \in Msgs(p), \A q \in S \cap Agent : m \in Ready(p, nd, q)
    PROVE  TracesOK(p, nd, Send(ch, a, S, m))
<1> DEFINE ch2 == Send(ch, a, S, m)
<1>1. ASSUME NEW b \in Agent, NEW q \in Agent
      PROVE  ch2[b][q] \in Seq(Msgs(p)) /\ ch2[b][q] \in Seq(Ready(p, nd, q))
  <2>1. ch[b][q] \in Seq(Msgs(p)) /\ ch[b][q] \in Seq(Ready(p, nd, q))
    BY DEF TracesOK, Channels
  <2>2. ch2[b][q] = IF b = a /\ q \in S THEN Append(ch[b][q], m) ELSE ch[b][q]
    BY DEF Send
  <2> HIDE DEF ch2
  <2>3. CASE b = a /\ q \in S
    <3>1. m \in Ready(p, nd, q)
      BY <2>3
    <3> QED BY ONLY <2>1, <2>2, <2>3, <3>1, m \in Msgs(p), AppendSeq
  <2>4. CASE ~(b = a /\ q \in S)
    BY <2>1, <2>2, <2>4
  <2> QED BY <2>3, <2>4
<1>2. ch2 \in Channels(Msgs(p))
  <2>1. \A b \in Agent : \A q \in Agent : ch2[b][q] \in Seq(Msgs(p))
    BY <1>1
  <2> QED BY <2>1 DEF Send, Channels
<1> QED BY <1>1, <1>2 DEF TracesOK

\* and reading.
LEMMA ReadyConsume ==
    ASSUME NEW p, NEW nd, NEW ch, TracesOK(p, nd, ch), NEW a \in Agent, NEW b \in Agent,
           ch[b][a] # <<>>
    PROVE  TracesOK(p, nd, Consume(ch, b, a)) /\ Head(ch[b][a]) \in Ready(p, nd, a)
<1> DEFINE ch2 == Consume(ch, b, a)
<1>1. /\ ch \in Channels(Msgs(p)) /\ ch[b][a] \in Seq(Msgs(p))
      /\ ch[b][a] \in Seq(Ready(p, nd, a))
    BY DEF TracesOK, Channels
<1>2. /\ Tail(ch[b][a]) \in Seq(Msgs(p)) /\ Tail(ch[b][a]) \in Seq(Ready(p, nd, a))
      /\ Head(ch[b][a]) \in Ready(p, nd, a)
    BY <1>1, TailSeq
<1>3. ch2 \in Channels(Msgs(p))
    BY <1>1, <1>2 DEF Channels, Consume
<1>4. \A c \in Agent : \A q \in Agent :
         ch2[c][q] = IF c = b /\ q = a THEN Tail(ch[b][a]) ELSE ch[c][q]
    BY <1>1 DEF Channels, Consume
<1> HIDE DEF ch2
<1>5. ASSUME NEW c \in Agent, NEW q \in Agent
      PROVE  ch2[c][q] \in Seq(Ready(p, nd, q))
  <2>1. ch[c][q] \in Seq(Ready(p, nd, q))
    BY DEF TracesOK
  <2> QED BY <1>2, <1>4, <2>1
<1> QED BY <1>2, <1>3, <1>5 DEF TracesOK, ch2

\* The messages of the other kinds can always be received.
LEMMA OtherMessages ==
    ASSUME NEW p, NEW t \in Tokens, NEW s \in p.states, NEW n \in Nodes(p), n.cost \in Nat,
           NEW a \in Agent, NEW ack \in BOOLEAN,
           NEW m \in {PublicState(s, n, a), SnapInit(t, s, n, a), SnapMark(t, a),
                      SnapResponse(t, a, ack)}
    PROVE  m \in Msgs(p) /\ \A nd, q : m \in Ready(p, nd, q)
<1>1. n.heur \in Int
    BY DEF Nodes
<1>2. PublicState(s, n, a) \in PubMsgs(p) /\ PublicState(s, n, a).kind = "PUBLIC_STATE"
    BY <1>1 DEF PublicState, PubMsgs
<1>3. SnapInit(t, s, n, a) \in InitMsgs(p) /\ SnapInit(t, s, n, a).kind = "INIT"
    BY <1>1 DEF SnapInit, InitMsgs
<1>4. SnapMark(t, a) \in MarkMsgs /\ SnapMark(t, a).kind = "MARK"
    BY DEF SnapMark, MarkMsgs
<1>5. SnapResponse(t, a, ack) \in RespMsgs /\ SnapResponse(t, a, ack).kind = "RESPONSE"
    BY DEF SnapResponse, RespMsgs
<1>6. m \in Msgs(p) /\ m.kind # "TRACE_PATH"
    BY <1>2, <1>3, <1>4, <1>5 DEF Msgs
<1> QED BY <1>6 DEF Ready

-----------------------------------------------------------------------------
(* The invariant, and the actions *)

Answers == {Searching} \cup {Found(c) : c \in Int}

TracingInv ==
    /\ SearchInv
    /\ Ranked(problem, node)
    /\ TracesOK(problem, node, chan)
    /\ answer \in [Agent -> Answers]

\* What is left to show of a step whose nodes are redirected.
LEMMA TracingNext ==
    ASSUME TracingInv, SearchInv', problem' = problem, Redirected(problem, node, node')
    PROVE  /\ node' \in [Agent -> [States -> Nodes(problem)]]
           /\ Ranked(problem, node')
           /\ \A ch : TracesOK(problem, node, ch) => TracesOK(problem, node', ch)
           /\ TracesOK(problem, node', chan') /\ answer' \in [Agent -> Answers] => TracingInv'
<1>1. /\ node \in [Agent -> [problem.states -> Nodes(problem)]]
      /\ node' \in [Agent -> [problem.states -> Nodes(problem)]]
    BY DEF TracingInv, SearchInv, AgentsOK
<1>2. Ranked(problem, node')
    BY <1>1, Reranked DEF TracingInv
<1>3. \A b \in Agent : StillReached(problem, node[b], node'[b])
    BY NoneForgotten
<1>4. \A ch : TracesOK(problem, node, ch) => TracesOK(problem, node', ch)
    BY <1>3, ReadyStill
<1> QED BY <1>1, <1>2, <1>4 DEF TracingInv, States

\* tracePath: the path goes on at an agent that has reached the state, or it is
\* complete.
LEMMA TraceGoesOn ==
    ASSUME SearchInv', problem' = problem, Ranked(problem, node'), answer \in [Agent -> Answers],
           NEW a \in Agent, NEW s \in States, node'[a][s].st # "NEW", NEW c \in Int,
           NEW w \in Agent, NEW ch, TracesOK(problem, node', ch), Trace(a, s, c, w, ch)
    PROVE  TracesOK(problem, node', chan') /\ answer' \in [Agent -> Answers]
<1> DEFINE r == Ancestor(node'[a], s).s
           cost == c + Ancestor(node'[a], s).cost
           from == node'[a][r].pub
<1>1. /\ problem \in Problems /\ node' \in [Agent -> [States -> Nodes(problem)]]
      /\ \A x \in States : NodeOK(problem, node', a, node'[a][x], x)
    BY DEF SearchInv, AgentsOK, PartOK, States
<1>2. r \in States /\ node'[a][r].st # "NEW" /\ node'[a][r].op = NoOp /\ cost \in Int
  <2>1. r \in States /\ node'[a][r].st # "NEW" /\ node'[a][r].op = NoOp
    BY <1>1, AncestorEnds
  <2>2. node'[a] \in [States -> Nodes(problem)]
    BY <1>1
  <2>3. Ancestor(node'[a], s).cost \in Int
    BY <1>1, <2>2, AncestorState
  <2> QED BY <2>1, <2>3
<1>3. r # problem.init => from \in Agent /\ from # NoAgent /\ node'[from][r].st # "NEW"
  <2>1. ASSUME r # problem.init
        PROVE  from \in Others(a) /\ Has(node', from, r, node'[a][r].cost)
    BY <1>1, <1>2, <2>1 DEF NodeOK, Sound
  <2> HIDE DEF r, cost, from
  <2>2. from \in Others(a) => from \in Agent /\ from # NoAgent
    BY ONLY SizeAssumption DEF Others, Agent, NoAgent
  <2>3. Has(node', from, r, node'[a][r].cost) => node'[from][r].st # "NEW"
    BY ONLY DEF Has
  <2> QED BY ONLY <2>1, <2>2, <2>3
<1>4. /\ r = problem.init =>
            \/ answer' = [answer EXCEPT ![a] = Found(cost)] /\ chan' = ch
            \/ chan' = Send(ch, a, {w}, TracePath(NoState, cost, w)) /\ answer' = answer
      /\ r # problem.init =>
            chan' = Send(ch, a, {from}, TracePath(r, cost, w)) /\ answer' = answer
    BY <1>3 DEF Trace
<1> HIDE DEF r, cost, from
<1>5. Found(cost) \in Answers
    BY <1>2 DEF Answers
<1>6. ASSUME NEW q \in Agent, NEW z \in States \cup {NoState},
             z = NoState \/ node'[q][z].st # "NEW"
      PROVE  TracesOK(problem, node', Send(ch, a, {q}, TracePath(z, cost, w)))
  <2> DEFINE m == TracePath(z, cost, w)
  <2>1. m \in Msgs(problem) /\ m.s = z
    BY <1>2 DEF TracePath, Msgs, TraceMsgs, States
  <2> HIDE DEF m
  <2>2. m \in Ready(problem, node', q)
    BY <1>6, <2>1 DEF Ready
  <2>3. TracesOK(problem, node', Send(ch, a, {q}, m))
    BY <2>1, <2>2, ReadySend
  <2> QED BY <2>3 DEF m
<1>7. CASE r = problem.init
    BY <1>4, <1>5, <1>6, <1>7
<1>8. CASE r # problem.init
    BY <1>2, <1>3, <1>4, <1>6, <1>8
<1> QED BY <1>7, <1>8

\* A step takes a state from the list, and closes its node.
LEMMA ClosedRedirects ==
    ASSUME SearchInv, NEW a \in Agent, NEW s, NEW n, NEW l, Closing(a, s, n, l),
           n = [node[a][s] EXCEPT !.st = "CLOSED"]
    PROVE  /\ SameReference(node[a][s], n)
           /\ Redirected(problem, node, [node EXCEPT ![a][s] = n])
<1>1. s \in States /\ n \in Nodes(problem) /\ node[a][s].st # "NEW"
    BY DEF Closing, Has
<1>2. node \in [Agent -> [States -> Nodes(problem)]]
    BY InvNow DEF States
<1>3. SameReference(node[a][s], n)
  <2> DEFINE o == node[a][s]
  <2>1. o \in Nodes(problem) /\ o.st # "NEW" /\ n = [o EXCEPT !.st = "CLOSED"]
    BY <1>1, <1>2
  <2> HIDE DEF o
  <2>2. n.op = o.op /\ n.cost = o.cost /\ n.pub = o.pub /\ n.st = "CLOSED"
    BY <2>1 DEF Nodes
  <2>3. SameReference(o, n)
    BY <2>1, <2>2 DEF SameReference
  <2> QED BY <2>3 DEF o
<1>4. Redirected(problem, node, [node EXCEPT ![a] = [node[a] EXCEPT ![s] = n]])
    BY <1>1, <1>2, <1>3, NodeRedirects
<1>5. [node EXCEPT ![a][s] = n] = [node EXCEPT ![a] = [node[a] EXCEPT ![s] = n]]
    BY <1>2
<1> QED BY <1>3, <1>4, <1>5

\* A goal is reached.
LEMMA ReachTracing ==
    ASSUME TracingInv, SearchInv', NEW a \in Agent, NEW s, NEW n, NEW l, Closing(a, s, n, l),
           n = [node[a][s] EXCEPT !.st = "CLOSED"], problem' = problem, ReachGoal(a, s, n, l)
    PROVE  TracingInv'
<1>1. /\ SearchInv /\ TracesOK(problem, node, chan) /\ answer \in [Agent -> Answers]
      /\ node \in [Agent -> [States -> Nodes(problem)]]
    BY InvNow DEF TracingInv, States
<1>2. node' = [node EXCEPT ![a][s] = n]
    BY DEF ReachGoal
<1>3. Redirected(problem, node, node')
    BY <1>1, <1>2, ClosedRedirects
<1>4. /\ node' \in [Agent -> [States -> Nodes(problem)]] /\ Ranked(problem, node')
      /\ TracesOK(problem, node', chan)
      /\ TracesOK(problem, node', chan') /\ answer' \in [Agent -> Answers] => TracingInv'
    BY <1>1, <1>3, TracingNext
<1>5. /\ s \in States /\ n \in Nodes(problem) /\ n.cost \in Nat
      /\ node'[a][s] = n /\ n.st # "NEW"
  <2>1. s \in States /\ n \in Nodes(problem) /\ n.cost \in Nat /\ node[a][s].st # "NEW"
    BY DEF Closing, Has
  <2>2. SameReference(node[a][s], n)
    BY <1>1, ClosedRedirects
  <2>3. node'[a][s] = n
    BY <1>1, <1>2, <2>1
  <2> QED BY <2>1, <2>2, <2>3 DEF SameReference
<1>6. CASE ~TakesGoal(a, s, n)
  <2>1. chan' = chan /\ answer' = answer
    BY <1>6 DEF ReachGoal
  <2> QED BY <1>1, <1>4, <2>1
<1>7. CASE TakesGoal(a, s, n) /\ Verify
  <2> DEFINE t == <<a, count[a] + 1>>
             m == SnapInit(t, s, n, a)
  <2>1. chan' = Send(chan, a, Others(a), m) /\ answer' = answer
    BY <1>5, <1>7 DEF ReachGoal, StartVerification
  <2>2. t \in Tokens
    BY <1>1, InvNow DEF Tokens
  <2> HIDE DEF t
  <2>3. m \in Msgs(problem) /\ \A nd, q : m \in Ready(problem, nd, q)
    <3>1. s \in problem.states /\ TRUE \in BOOLEAN
      BY <1>5 DEF States
    <3> QED BY <1>5, <2>2, <3>1, OtherMessages
  <2> HIDE DEF m
  <2>4. TracesOK(problem, node', chan')
    BY <1>4, <2>1, <2>3, ReadySend
  <2> QED BY <1>1, <1>4, <2>1, <2>4
<1>8. CASE TakesGoal(a, s, n) /\ ~Verify
  <2>1. Trace(a, s, 0, a, chan)
    BY <1>8 DEF ReachGoal
  <2>2. node'[a][s].st # "NEW" /\ 0 \in Int
    BY <1>5
  <2>3. TracesOK(problem, node', chan') /\ answer' \in [Agent -> Answers]
    BY <1>1, <1>4, <1>5, <2>1, <2>2, TraceGoesOn
  <2> QED BY <1>4, <2>3
<1> QED BY <1>6, <1>7, <1>8

\* A state is expanded.
LEMMA ExpandTracing ==
    ASSUME TracingInv, SearchInv', NEW a \in Agent, NEW s, NEW n, NEW l, Closing(a, s, n, l),
           n = [node[a][s] EXCEPT !.st = "CLOSED"], problem' = problem, ExpandNode(a, s, n, l)
    PROVE  TracingInv'
<1>1. /\ SearchInv /\ TracesOK(problem, node, chan) /\ answer \in [Agent -> Answers]
      /\ problem \in Problems /\ node \in [Agent -> [States -> Nodes(problem)]]
    BY InvNow DEF TracingInv, States
<1>2. /\ s \in States /\ n \in Nodes(problem) /\ n.cost \in Nat
      /\ node[a][s].st # "NEW" /\ SameReference(node[a][s], n)
      /\ PartOK(problem, node, a, [node[a] EXCEPT ![s] = n], l, {})
    BY <1>1, ClosedRedirects DEF Closing, Has
<1>3. Redirected(problem, node, node')
  <2>1. CASE MAHeur
    <3>1. node' = [node EXCEPT ![a][s] = n]
      BY <2>1 DEF ExpandNode
    <3> QED BY <1>1, <3>1, ClosedRedirects
  <2>2. CASE ~MAHeur
    <3> DEFINE m == [node[a] EXCEPT ![s] = n]
               r == GenerateAll(a, s, m, l).node
    <3>1. node' = [node EXCEPT ![a] = r]
      BY <2>2 DEF ExpandNode
    <3>2. m[s] = n /\ \A x \in States \ {s} : m[x] = node[a][x]
      BY <1>1, <1>2
    <3>3. PartOK(problem, node, a, m, l, {})
      BY <1>2
    <3> HIDE DEF m
    <3>4. Expanded(node, a, s, m)
      <4>1. \A x \in States : SameReference(node[a][x], m[x])
        BY <1>2, <3>2 DEF SameReference
      <4> QED BY <4>1 DEF Expanded
    <3>5. m[s].cost = node[a][s].cost /\ node[a][s].cost \in Nat
      BY <1>2, <3>2 DEF SameReference
    <3>6. r \in [States -> Nodes(problem)] /\ Expanded(node, a, s, r)
      BY <1>1, <1>2, <3>3, <3>4, <3>5, GenerateAllExpands
    <3> HIDE DEF r
    <3> QED BY <1>1, <1>2, <3>1, <3>6, ExpansionRedirects
  <2> QED BY <2>1, <2>2
<1>4. /\ TracesOK(problem, node', chan)
      /\ TracesOK(problem, node', chan') /\ answer' \in [Agent -> Answers] => TracingInv'
    BY <1>1, <1>3, TracingNext
<1> DEFINE m == PublicState(s, n, a)
<1>5. (chan' = chan \/ chan' = Send(chan, a, Others(a), m)) /\ answer' = answer
    BY DEF ExpandNode
<1>6. m \in Msgs(problem) /\ \A nd, q : m \in Ready(problem, nd, q)
  <2>1. s \in problem.states /\ TRUE \in BOOLEAN /\ <<a, 0>> \in Tokens
    BY <1>2 DEF States, Tokens
  <2> QED BY <1>2, <2>1, OtherMessages
<1> HIDE DEF m
<1>7. TracesOK(problem, node', Send(chan, a, Others(a), m))
    BY <1>4, <1>6, ReadySend
<1> QED BY <1>1, <1>4, <1>5, <1>7

\* planSearchAStarStep.
LEMMA StepTracing ==
    ASSUME TracingInv, SearchInv', NEW a \in Agent, Step(a)
    PROVE  TracingInv'
<1> DEFINE i == TopIndex(list[a])
           s == list[a][i].s
           l == RemoveAt(list[a], i)
           n == [node[a][s] EXCEPT !.st = "CLOSED"]
<1>1. /\ doing[a] = <<>> /\ list[a] # <<>> /\ problem' = problem
      /\ \/ UNCHANGED <<node, chan, answer>>
         \/ node[a][s].st = "OPEN" /\ ReachGoal(a, s, n, l)
         \/ node[a][s].st = "OPEN" /\ ExpandNode(a, s, n, l)
    BY DEF Step
<1>2. CASE UNCHANGED <<node, chan, answer>>
  <2>1. Redirected(problem, node, node')
    BY <1>2, SameRedirects
  <2> QED BY <1>1, <1>2, <2>1, TracingNext DEF TracingInv
<1>3. ASSUME node[a][s].st = "OPEN"
      PROVE  Closing(a, s, n, l)
  <2> HIDE DEF i
  <2>1. i = TopIndex(list[a])
    BY DEF i
  <2> QED BY <1>1, <1>3, <2>1, Closes DEF TracingInv
<1>0. n = [node[a][s] EXCEPT !.st = "CLOSED"]
    OBVIOUS
<1> HIDE DEF s, l, n
<1>4. CASE node[a][s].st = "OPEN" /\ ReachGoal(a, s, n, l)
    BY <1>0, <1>1, <1>3, <1>4, ReachTracing
<1>5. CASE node[a][s].st = "OPEN" /\ ExpandNode(a, s, n, l)
    BY <1>0, <1>1, <1>3, <1>5, ExpandTracing
<1> QED BY <1>1, <1>2, <1>4, <1>5

\* A step that sends nothing and answers nothing.
LEMMA QuietTracing ==
    ASSUME TracingInv, SearchInv', UNCHANGED <<problem, chan, answer>>,
           Redirected(problem, node, node')
    PROVE  TracingInv'
<1>1. TracesOK(problem, node, chan) /\ answer \in [Agent -> Answers]
    BY DEF TracingInv
<1> QED BY <1>1, TracingNext

\* The successor whose value is asked for, or awaited.
LEMMA PendingHead ==
    ASSUME SearchInv, NEW a \in Agent, doing[a] # <<>>
    PROVE  /\ Head(doing[a]) \in Pendings(problem)
           /\ node[a][Head(doing[a]).op.from].st # "NEW"
           /\ Head(doing[a]).op \in Ops(problem)
           /\ Head(doing[a]).op.from \in States /\ Head(doing[a]).op.to \in States
           /\ Head(doing[a]).op.cost \in Nat /\ Head(doing[a]).op # NoOp
<1> DEFINE d == doing[a]
           o == Head(d).op
<1>1. DoingOK(problem, node[a], d) /\ problem \in Problems
    BY InvNow
<1> HIDE DEF d
<1>2. Head(d) \in Pendings(problem) /\ node[a][Head(d).op.from].st # "NEW"
    BY <1>1, DoingHead DEF d
<1>3. o \in Ops(problem)
    BY <1>2 DEF Pendings
<1> HIDE DEF o
<1>4. o.from \in States /\ o.to \in States /\ o.cost \in Nat /\ o # NoOp
    BY <1>1, <1>3, OpIsOp DEF Ops, States
<1> QED BY <1>2, <1>3, <1>4 DEF d, o

\* Successors are generated one by one, and a new one waits for its value.
LEMMA GoesOnTracing ==
    ASSUME TracingInv, SearchInv', NEW a \in Agent, StepGoesOn(a)
    PROVE  TracingInv'
<1> DEFINE o == Head(doing[a]).op
           g == node[a][o.from].cost + o.cost
           acc == [node |-> node[a], list |-> list[a]]
           gen == Generate(acc, o, a, g - o.cost)
           n == node[a][o.to]
           x == NewlyOpened(n, o, g)
<1>1. /\ doing[a] # <<>> /\ UNCHANGED <<problem, chan, answer>>
      /\ \/ n.st = "NEW" /\ node' = [node EXCEPT ![a][o.to] = x]
         \/ n.st # "NEW" /\ node' = [node EXCEPT ![a] = gen.node]
    BY DEF StepGoesOn, NewlyOpened
<1>2. /\ SearchInv /\ problem \in Problems /\ node \in [Agent -> [States -> Nodes(problem)]]
      /\ PartOK(problem, node, a, node[a], list[a], Awaited(doing[a]))
    BY InvNow DEF TracingInv, States
<1>3. /\ o \in Ops(problem) /\ o.from \in States /\ o.to \in States /\ o.cost \in Nat
      /\ o # NoOp /\ node[a][o.from].st # "NEW"
    BY <1>1, <1>2, PendingHead
<1> HIDE DEF o
<1>4. /\ node[a][o.from] \in Nodes(problem) /\ node[a][o.from].cost \in Int
      /\ g \in Int /\ g - o.cost = node[a][o.from].cost
  <2>1. node[a][o.from] \in Nodes(problem)
    BY <1>2, <1>3
  <2>2. node[a][o.from].cost \in Int
    BY <2>1 DEF Nodes
  <2>3. \A k \in Int, c \in Nat : k + c \in Int /\ (k + c) - c = k
    BY ONLY SMT
  <2>4. g \in Int /\ g - o.cost = node[a][o.from].cost
    <3> DEFINE k == node[a][o.from].cost
               c == o.cost
    <3>1. k \in Int /\ c \in Nat /\ g = k + c
      BY <1>3, <2>2
    <3> HIDE DEF k, g, c
    <3>2. g \in Int /\ g - c = k
      BY ONLY <2>3, <3>1
    <3> QED BY ONLY <3>2 DEF k, c
  <2> QED BY ONLY <2>1, <2>2, <2>4
<1>5. CASE n.st = "NEW" /\ node' = [node EXCEPT ![a][o.to] = x]
  <2>1. n \in Nodes(problem)
    BY <1>2, <1>3
  <2>2. x \in Nodes(problem) /\ x.op = o /\ x.cost = g /\ x.st # "NEW"
    <3>0. x = NewlyOpened(n, o, g)
      OBVIOUS
    <3> HIDE DEF n, g, x
    <3>1. x \in Nodes(problem) /\ x.op = o /\ x.cost = g
      <4>1. /\ NewlyOpened(n, o, g) \in Nodes(problem)
            /\ NewlyOpened(n, o, g).op = o /\ NewlyOpened(n, o, g).cost = g
        <5>1. n \in Nodes(problem) /\ o \in Ops(problem) /\ g \in Int
          BY ONLY <1>3, <1>4, <2>1
        <5> QED BY ONLY <5>1, NodeOpened
      <4> QED BY ONLY <3>0, <4>1
    <3> DEFINE y == [n EXCEPT !.op = o, !.cost = g]
    <3>2. y \in Nodes(problem)
      BY <1>3, <1>4, <2>1 DEF Nodes
    <3>3. x = Opened(y)
      BY <3>0 DEF NewlyOpened
    <3> HIDE DEF y
    <3>4. x.st = "OPEN"
      BY <3>2, <3>3, OpenedIs
    <3> QED BY <3>1, <3>4
  <2> HIDE DEF x
  <2>3. Sound(node, a, x, o.to)
    <3> HIDE DEF g
    <3> QED BY <1>3, <1>4, <2>2 DEF Sound, Has
  <2>4. NewReference(node, a, o.to, node[a][o.to], x)
    BY <1>5, <2>2, <2>3 DEF NewReference
  <2>5. Redirected(problem, node, [node EXCEPT ![a] = [node[a] EXCEPT ![o.to] = x]])
    BY <1>2, <1>3, <2>2, <2>4, NodeRedirects
  <2>6. node' = [node EXCEPT ![a] = [node[a] EXCEPT ![o.to] = x]]
    BY <1>2, <1>5
  <2>7. Redirected(problem, node, node')
    BY <2>5, <2>6
  <2> QED BY <1>1, <2>7, QuietTracing
<1>6. CASE n.st # "NEW" /\ node' = [node EXCEPT ![a] = gen.node]
  <2> DEFINE W == Awaited(doing[a])
             s == o.from
  <2>1. acc \in Accs(problem, node, a, W) /\ acc.node = node[a]
    BY <1>2 DEF Accs, PartOK
  <2> HIDE DEF acc, W
  <2>2. Expanded(node, a, s, acc.node)
    BY <2>1 DEF Expanded, SameReference
  <2>3. s \in States /\ node[a][s].st # "NEW" /\ o.from = s
    BY <1>3
  <2>4. gen = Generate(acc, o, a, node[a][s].cost)
    BY <1>4
  <2>5. Has(node, a, s, node[a][s].cost) /\ node[a][s].cost \in Nat
    <3>1. NodeOK(problem, node, a, node[a][s], s)
      BY <1>2, <2>3 DEF PartOK, States
    <3> QED BY <1>3, <1>4, <3>1 DEF NodeOK, Has
  <2> HIDE DEF gen, s
  <2>6. Expanded(node, a, s, gen.node)
    BY <1>2, <1>3, <2>1, <2>2, <2>3, <2>4, GenerateExpands
  <2>7. gen.node \in [States -> Nodes(problem)]
    <3> DEFINE h == node[a][s].cost
    <3>1. h \in Nat /\ Has(node, a, o.from, h)
      BY <2>3, <2>5
    <3> HIDE DEF h
    <3>2. Generate(acc, o, a, h) \in Accs(problem, node, a, W)
      BY <1>2, <1>3, <2>1, <3>1, GenerateKeeps
    <3> QED BY <2>4, <3>2 DEF Accs, States, h
  <2>8. Redirected(problem, node, node')
    BY <1>2, <1>6, <2>3, <2>6, <2>7, ExpansionRedirects
  <2> QED BY <1>1, <2>8, QuietTracing
<1> QED BY <1>1, <1>5, <1>6

\* A heuristic value does not matter to traces.
LEMMA HeurTracing ==
    ASSUME TracingInv, SearchInv', NEW a \in Agent, HeurKnown(a)
    PROVE  TracingInv'
<1> DEFINE s == Head(doing[a]).op.to
           h == Heur(a, s)
           o == node[a][s]
           x == [o EXCEPT !.heur = h]
<1>1. /\ doing[a] # <<>> /\ UNCHANGED <<problem, chan, answer>>
      /\ node' = [node EXCEPT ![a][s].heur = h]
    BY DEF HeurKnown, Waits
<1>2. /\ SearchInv /\ problem \in Problems /\ node \in [Agent -> [States -> Nodes(problem)]]
    BY InvNow DEF TracingInv, States
<1>3. s \in States
    BY <1>1, <1>2, PendingHead
<1> HIDE DEF s
<1>4. h \in Nat /\ o \in Nodes(problem)
    BY <1>2, <1>3, ProblemFacts
<1> HIDE DEF h
<1>5. node' = [node EXCEPT ![a] = [node[a] EXCEPT ![s] = x]]
    BY <1>1, <1>2
<1>6. x \in Nodes(problem) /\ SameReference(o, x)
  <2> HIDE DEF o
  <2>1. x = [st |-> o.st, op |-> o.op, cost |-> o.cost, heur |-> h, pub |-> o.pub]
    BY <1>4 DEF Nodes
  <2> HIDE DEF x
  <2> QED BY <1>4, <2>1 DEF Nodes, SameReference
<1> HIDE DEF x
<1>7. Redirected(problem, node, node')
    BY <1>2, <1>3, <1>5, <1>6, NodeRedirects
<1> QED BY <1>1, <1>7, QuietTracing

\* A message arrives: what is known of it, and of the channels when it is read.
LEMMA ArrivesReady ==
    ASSUME TracingInv, NEW a \in Agent, NEW b \in Others(a), NEW m, NEW ch, Arrives(a, b, m, ch)
    PROVE  /\ b \in Agent /\ m \in Msgs(problem) /\ m \in Ready(problem, node, a)
           /\ Valid(node, b, m) /\ TracesOK(problem, node, ch)
<1>1. /\ chan[b][a] # <<>> /\ m = Head(chan[b][a]) /\ ch = Consume(chan, b, a) /\ b \in Agent
    BY DEF Arrives, Others
<1>2. ChansOK(problem, node, chan) /\ TracesOK(problem, node, chan)
    BY DEF TracingInv, SearchInv
<1>3. m \in Msgs(problem) /\ Valid(node, b, m)
    BY <1>1, <1>2, ChansConsume
<1>4. m \in Ready(problem, node, a) /\ TracesOK(problem, node, ch)
    BY <1>1, <1>2, ReadyConsume
<1> QED BY <1>1, <1>3, <1>4

\* publicStateRecv: a public state that is taken refers to its sender.
LEMMA PublicTracing ==
    ASSUME TracingInv, SearchInv', NEW a \in Agent, NEW b \in Others(a), NEW m, NEW ch,
           Arrives(a, b, m, ch), RecvPublicState(a, m, ch), problem' = problem
    PROVE  TracingInv'
<1> DEFINE n == node[a][m.s]
           h == IF n.heur = -1 THEN m.heur ELSE Larger(m.heur, n.heur)
           x == ReceivedNode(n, m.cost, h, m.from)
           m2 == InsertNode(a, node[a], list[a], x, m.s).node
<1>1. /\ m.kind = "PUBLIC_STATE" /\ chan' = ch /\ answer' = answer
      /\ node' = node \/ (Improves(n, m.cost) /\ node' = [node EXCEPT ![a] = m2])
    BY DEF RecvPublicState, ReceivedNode
<1>2. SearchInv /\ node \in [Agent -> [States -> Nodes(problem)]] /\ answer \in [Agent -> Answers]
    BY InvNow DEF TracingInv, States
<1>3. /\ b \in Agent /\ m \in Msgs(problem) /\ Valid(node, b, m) /\ TracesOK(problem, node, ch)
    BY ArrivesReady
<1>4. /\ m.s \in States /\ m.cost \in Nat /\ m.heur \in Int /\ m.from = b
      /\ Has(node, b, m.s, m.cost)
    BY <1>1, <1>3, MsgFields DEF Valid, States
<1>5. Redirected(problem, node, node')
  <2>1. CASE node' = node
    BY <2>1, SameRedirects
  <2>2. CASE Improves(n, m.cost) /\ node' = [node EXCEPT ![a] = m2]
    <3>1. n \in Nodes(problem)
      BY <1>2, <1>4
    <3>2. h \in Int
      BY <1>4, <3>1 DEF Larger, Nodes
    <3> HIDE DEF h
    <3>3. x \in Nodes(problem) /\ x.cost = m.cost /\ x.op = NoOp /\ x.pub = b
      <4> HIDE DEF n
      <4> QED BY <1>3, <1>4, <3>1, <3>2, NodeReceived
    <3> HIDE DEF x
    <3>4. Sound(node, a, x, m.s)
      BY <1>4, <3>3 DEF Sound
    <3>5. n.st = "NEW" \/ x.cost < n.cost
      <4>1. n.cost \in Int
        BY <3>1 DEF Nodes
      <4> HIDE DEF n
      <4> QED BY <1>4, <2>2, <3>3, <4>1 DEF Improves
    <3> QED BY <1>2, <1>4, <2>2, <3>3, <3>4, <3>5, InsertRedirects
  <2> QED BY <1>1, <2>1, <2>2
<1> QED BY <1>1, <1>2, <1>3, <1>5, TracingNext

\* tracePathProcessMsg.
LEMMA PathTracing ==
    ASSUME TracingInv, SearchInv', NEW a \in Agent, NEW b \in Others(a), NEW m, NEW ch,
           Arrives(a, b, m, ch), RecvTracePath(a, m, ch), problem' = problem
    PROVE  TracingInv'
<1>1. /\ m.kind = "TRACE_PATH" /\ node' = node
      /\ \/ m.s = NoState /\ chan' = ch /\ answer' = [answer EXCEPT ![a] = Found(m.cost)]
         \/ m.s # NoState /\ Trace(a, m.s, m.cost, m.init, ch)
    BY DEF RecvTracePath
<1>2. answer \in [Agent -> Answers]
    BY DEF TracingInv
<1>3. m \in Msgs(problem) /\ m \in Ready(problem, node, a) /\ TracesOK(problem, node, ch)
    BY ArrivesReady
<1>4. m.s \in States \cup {NoState} /\ m.cost \in Int /\ m.init \in Agent
    BY <1>1, <1>3, MsgKinds DEF TraceMsgs, States
<1>5. Redirected(problem, node, node')
    BY <1>1, SameRedirects
<1>6. /\ Ranked(problem, node') /\ TracesOK(problem, node', ch)
      /\ TracesOK(problem, node', chan') /\ answer' \in [Agent -> Answers] => TracingInv'
    BY <1>3, <1>5, TracingNext
<1>7. CASE m.s = NoState
  <2>1. Found(m.cost) \in Answers
    BY <1>4 DEF Answers
  <2> QED BY <1>1, <1>2, <1>6, <1>7, <2>1
<1>8. CASE m.s # NoState
  <2>1. m.s \in States /\ node'[a][m.s].st # "NEW" /\ Trace(a, m.s, m.cost, m.init, ch)
    BY <1>1, <1>3, <1>4, <1>8 DEF Ready
  <2>2. TracesOK(problem, node', chan') /\ answer' \in [Agent -> Answers]
    BY <1>2, <1>4, <1>6, <2>1, TraceGoesOn
  <2> QED BY <1>6, <2>2
<1> QED BY <1>7, <1>8

\* A solution that is not acknowledged is kept: either nothing changes or its
\* state is opened again, or now refers to the agent that found it.
LEMMA ReinsertRedirects ==
    ASSUME SearchInv, NEW a \in Agent, NEW m \in InitMsgs(problem), m.from \in Others(a),
           Has(node, m.from, m.s, m.cost)
    PROVE  Redirected(problem, node, [node EXCEPT ![a] = Reinserted(a, m).node])
<1> DEFINE n == node[a][m.s]
           x == ReceivedNode(n, m.cost, m.heur, m.from)
           y == IF Improves(n, m.cost) THEN x ELSE n
           r == InsertNode(a, node[a], list[a], y, m.s).node
<1>1. /\ m.s \in States /\ m.cost \in Nat /\ m.heur \in Int /\ m.from \in Agent
    BY DEF InitMsgs, States
<1>2. node \in [Agent -> [States -> Nodes(problem)]]
    BY InvNow DEF States
<1>3. CASE m.cost > goalCost[a]
  <2>1. Reinserted(a, m).node = node[a]
    BY <1>3 DEF Reinserted
  <2>2. [node EXCEPT ![a] = node[a]] = node
    BY <1>2
  <2> QED BY <2>1, <2>2, SameRedirects
<1>4. CASE ~(m.cost > goalCost[a])
  <2>1. Reinserted(a, m).node = r
    BY <1>4 DEF Reinserted, ReceivedNode
  <2>2. n \in Nodes(problem) /\ n.cost \in Int
    <3>1. n \in Nodes(problem)
      BY <1>1, <1>2
    <3> HIDE DEF n
    <3> QED BY <3>1 DEF Nodes
  <2>3. /\ x \in Nodes(problem) /\ x.cost = m.cost /\ x.op = NoOp /\ x.pub = m.from
    <3> HIDE DEF n
    <3> QED BY <1>1, <2>2, NodeReceived
  <2>0. y = IF Improves(n, m.cost) THEN x ELSE n
    OBVIOUS
  <2> HIDE DEF x, y
  <2>4. /\ y \in Nodes(problem)
        /\ \/ n.st # "NEW" /\ y = n
           \/ (n.st = "NEW" \/ y.cost < n.cost) /\ Sound(node, a, y, m.s)
    <3>1. CASE Improves(n, m.cost)
      <4>1. y = x
        BY <2>0, <3>1
      <4>2. Sound(node, a, y, m.s)
        BY <2>3, <4>1 DEF Sound
      <4>3. n.st = "NEW" \/ y.cost < n.cost
        <5> HIDE DEF n
        <5> QED BY <1>1, <2>2, <2>3, <3>1, <4>1 DEF Improves
      <4> QED BY <2>3, <4>1, <4>2, <4>3
    <3>2. CASE ~Improves(n, m.cost)
      <4> HIDE DEF n
      <4> QED BY <2>0, <2>2, <3>2 DEF Improves
    <3> QED BY <3>1, <3>2
  <2>5. Redirected(problem, node, [node EXCEPT ![a] = r])
    BY <1>1, <1>2, <2>4, InsertRedirects
  <2> QED BY <2>1, <2>5
<1> QED BY <1>3, <1>4

\* A message of a verification.
LEMMA SnapshotTracing ==
    ASSUME TracingInv, SearchInv', NEW a \in Agent, NEW b \in Others(a), NEW m, NEW ch,
           Arrives(a, b, m, ch), RecvSnapshot(a, m, ch), problem' = problem
    PROVE  TracingInv'
<1> DEFINE new == Counted(Joined(a, m.token), m)
           marked == JoinMarks(a, m.token, ch)
           y == SnapResponse(m.token, a, Acks(new))
           s == new.init.s
<1>1. /\ m.kind \in Obj!SnapKinds
      /\ \/ VerificationGoesOn(a, m, new, marked)
         \/ VerificationAnswered(a, m, new, marked)
         \/ VerificationDone(a, m, new, marked)
    BY DEF RecvSnapshot
<1>2. /\ SearchInv /\ problem \in Problems /\ answer \in [Agent -> Answers]
      /\ node \in [Agent -> [States -> Nodes(problem)]]
    BY InvNow DEF TracingInv, States
<1>3. /\ m \in Msgs(problem) /\ TracesOK(problem, node, ch) /\ m.token \in Tokens
  <2>1. m \in Msgs(problem) /\ TracesOK(problem, node, ch)
    BY ArrivesReady
  <2> QED BY <1>1, <2>1, MsgFields DEF Obj!SnapKinds
<1>4. AfterSnap(problem, node, a, m, new, marked)
  <2>1. ReadsSnap(a, b, m, new, marked)
    BY <1>1 DEF ReadsSnap, Arrives
  <2> HIDE DEF new, marked
  <2>2. SnapOK(problem, node, chan, objs) /\ list[a] \in Seq(Entries(problem))
        /\ goalCost[a] \in Int
    BY <1>2, InvNow
  <2> QED BY <2>1, <2>2, SnapshotEffect
<1>5. Acks(new) \in BOOLEAN
    BY DEF Acks
<1> HIDE DEF new
<1>6. /\ SnapMark(m.token, a) \in Msgs(problem) /\ y \in Msgs(problem)
      /\ \A nd, q : SnapMark(m.token, a) \in Ready(problem, nd, q) /\ y \in Ready(problem, nd, q)
  <2> DEFINE n == [NewNode EXCEPT !.cost = 0]
  <2>1. n = [st |-> "NEW", op |-> NoOp, cost |-> 0, heur |-> -1, pub |-> NoAgent]
    BY DEF NewNode
  <2>2. n \in Nodes(problem) /\ n.cost \in Nat
    BY <2>1 DEF Nodes
  <2>3. problem.init \in problem.states
    BY <1>2, ProblemAssumption
  <2> HIDE DEF n
  <2> DEFINE ack == Acks(new)
             t == m.token
             i == problem.init
  <2>4. ack \in BOOLEAN /\ t \in Tokens /\ i \in problem.states
    BY <1>3, <1>5, <2>3
  <2>5. y = SnapResponse(t, a, ack)
    OBVIOUS
  <2> HIDE DEF ack, t, i, y
  <2>6. /\ SnapMark(t, a) \in {PublicState(i, n, a), SnapInit(t, i, n, a), SnapMark(t, a),
                              SnapResponse(t, a, ack)}
        /\ y \in {PublicState(i, n, a), SnapInit(t, i, n, a), SnapMark(t, a),
                  SnapResponse(t, a, ack)}
    BY <2>5
  <2>7. /\ SnapMark(t, a) \in Msgs(problem) /\ y \in Msgs(problem)
        /\ \A nd, q : SnapMark(t, a) \in Ready(problem, nd, q) /\ y \in Ready(problem, nd, q)
    BY <2>2, <2>4, <2>6, OtherMessages
  <2> QED BY <2>7 DEF t
<1> HIDE DEF y
<1>7. TracesOK(problem, node, marked) /\ TracesOK(problem, node, Send(marked, a, {new.init.from}, y))
  <2>1. TracesOK(problem, node, marked)
    <3>1. CASE m.token \in DOMAIN objs[a]
      BY <1>3, <3>1 DEF JoinMarks
    <3>2. CASE m.token \notin DOMAIN objs[a]
      <4>1. TracesOK(problem, node, Send(ch, a, Others(a), SnapMark(m.token, a)))
        BY <1>3, <1>6, ReadySend
      <4> QED BY <3>2, <4>1 DEF JoinMarks
    <3> QED BY <3>1, <3>2
  <2> HIDE DEF marked
  <2> QED BY <1>6, <2>1, ReadySend
<1> HIDE DEF marked
<1>8. CASE VerificationGoesOn(a, m, new, marked)
  <2>1. chan' = marked /\ node' = node /\ answer' = answer
    BY <1>8 DEF VerificationGoesOn
  <2>2. Redirected(problem, node, node')
    BY <2>1, SameRedirects
  <2> QED BY <1>2, <1>7, <2>1, <2>2, TracingNext
<1>9. CASE VerificationAnswered(a, m, new, marked)
  <2>1. /\ Obj!Finished(new.count, m.kind) /\ ~new.count.initiator
        /\ chan' = Send(marked, a, {new.init.from}, y) /\ answer' = answer
        /\ node' = [node EXCEPT ![a] = IF Acks(new) THEN node[a] ELSE Reinserted(a, new.init).node]
    BY <1>9 DEF VerificationAnswered, y
  <2>2. Redirected(problem, node, node')
    <3>1. CASE Acks(new)
      <4>1. node' = node
        BY <1>2, <2>1, <3>1
      <4> QED BY <4>1, SameRedirects
    <3>2. CASE ~Acks(new)
      <4>1. /\ new.init \in InitMsgs(problem) /\ new.init.from = m.token[1] /\ m.token[1] # a
            /\ Has(node, new.init.from, new.init.s, new.init.cost)
        BY <1>4, <2>1 DEF AfterSnap
      <4>2. new.init.from \in Others(a)
        BY <4>1 DEF InitMsgs, Others
      <4>3. Redirected(problem, node, [node EXCEPT ![a] = Reinserted(a, new.init).node])
        BY <1>2, <4>1, <4>2, ReinsertRedirects
      <4> QED BY <2>1, <3>2, <4>3
    <3> QED BY <3>1, <3>2
  <2> QED BY <1>2, <1>7, <2>1, <2>2, TracingNext
<1>10. CASE VerificationDone(a, m, new, marked)
  <2> DEFINE ins == InsertNode(a, node[a], list[a], node[a][s], s)
  <2>1. /\ Obj!Finished(new.count, m.kind) /\ new.count.initiator
        /\ \/ chan' = marked /\ node' = node /\ answer' = answer
           \/ node' = node /\ Trace(a, s, 0, a, marked)
           \/ /\ node' = [node EXCEPT ![a] = ins.node]
              /\ chan' = marked /\ answer' = answer
    BY <1>10 DEF VerificationDone
  <2>2. s \in States /\ node[a][s].st # "NEW"
    <3>1. /\ new.init \in InitMsgs(problem) /\ new.init.from = a
          /\ Has(node, new.init.from, new.init.s, new.init.cost)
      BY <1>4, <2>1 DEF AfterSnap
    <3> QED BY <3>1 DEF InitMsgs, Has, States
  <2> HIDE DEF s
  <2>3. CASE chan' = marked /\ node' = node /\ answer' = answer
    <3>1. Redirected(problem, node, node')
      BY <2>3, SameRedirects
    <3> QED BY <1>2, <1>7, <2>3, <3>1, TracingNext
  <2>4. CASE node' = node /\ Trace(a, s, 0, a, marked)
    <3>1. Redirected(problem, node, node')
      BY <2>4, SameRedirects
    <3>2. /\ Ranked(problem, node') /\ TracesOK(problem, node', marked)
          /\ TracesOK(problem, node', chan') /\ answer' \in [Agent -> Answers] => TracingInv'
      BY <1>7, <3>1, TracingNext
    <3>3. node'[a][s].st # "NEW" /\ 0 \in Int
      BY <2>2, <2>4
    <3>4. TracesOK(problem, node', chan') /\ answer' \in [Agent -> Answers]
      BY <1>2, <2>2, <2>4, <3>2, <3>3, TraceGoesOn
    <3> QED BY <3>2, <3>4
  <2>5. CASE node' = [node EXCEPT ![a] = ins.node] /\ chan' = marked /\ answer' = answer
    <3>1. node[a][s] \in Nodes(problem)
      BY <1>2, <2>2
    <3>2. Redirected(problem, node, [node EXCEPT ![a] = ins.node])
      BY <1>2, <2>2, <3>1, InsertRedirects
    <3>3. Redirected(problem, node, node')
      BY <2>5, <3>2
    <3> QED BY <1>2, <1>7, <2>5, <3>3, TracingNext
  <2> QED BY <2>1, <2>3, <2>4, <2>5
<1> QED BY <1>1, <1>8, <1>9, <1>10

\* processMsg.
LEMMA ReceiveTracing ==
    ASSUME TracingInv, SearchInv', NEW a \in Agent, NEW b \in Others(a), Receive(a, b)
    PROVE  TracingInv'
<1> DEFINE m == Head(chan[b][a])
           ch == Consume(chan, b, a)
<1>1. /\ Arrives(a, b, m, ch) /\ problem' = problem
      /\ \/ RecvPublicState(a, m, ch)
         \/ RecvTracePath(a, m, ch)
         \/ RecvSnapshot(a, m, ch)
    BY DEF Receive, Arrives
<1> HIDE DEF m, ch
<1>2. CASE RecvPublicState(a, m, ch)
    BY <1>1, <1>2, PublicTracing
<1>3. CASE RecvTracePath(a, m, ch)
    BY <1>1, <1>3, PathTracing
<1>4. CASE RecvSnapshot(a, m, ch)
    BY <1>1, <1>4, SnapshotTracing
<1> QED BY <1>1, <1>2, <1>3, <1>4

\* Every step keeps the invariant.
LEMMA TracingStep ==
    ASSUME TracingInv, [Next]_vars
    PROVE  TracingInv'
<1>1. SearchInv'
    BY NextInv DEF TracingInv
<1>2. ASSUME NEW a \in Agent, Step(a)
      PROVE  TracingInv'
    BY <1>1, <1>2, StepTracing
<1>3. ASSUME NEW a \in Agent, StepGoesOn(a)
      PROVE  TracingInv'
    BY <1>1, <1>3, GoesOnTracing
<1>4. ASSUME NEW a \in Agent, HeurKnown(a)
      PROVE  TracingInv'
    BY <1>1, <1>4, HeurTracing
<1>5. ASSUME NEW a \in Agent, NEW b \in Others(a), Receive(a, b)
      PROVE  TracingInv'
    BY <1>1, <1>5, ReceiveTracing
<1>6. CASE UNCHANGED vars
  <2>1. UNCHANGED <<problem, node, chan, answer>>
    BY <1>6 DEF vars
  <2>2. Redirected(problem, node, node')
    BY <2>1, SameRedirects
  <2> QED BY <1>1, <2>1, <2>2, QuietTracing
<1> QED BY <1>2, <1>3, <1>4, <1>5, <1>6 DEF Next, Finish

\* It holds in the first state: no node refers to anything.
LEMMA TracingInit ==
    ASSUME Init
    PROVE  TracingInv
<1>1. SearchInv
    BY InitInv
<1>2. /\ answer = [a \in Agent |-> Searching] /\ chan = NoMsgs
    BY DEF Init
<1>3. answer \in [Agent -> Answers]
    BY <1>2 DEF Answers
<1>4. TracesOK(problem, node, chan)
  <2>1. \A b \in Agent : \A q \in Agent : chan[b][q] = <<>>
    BY <1>2 DEF NoMsgs
  <2>2. chan \in Channels(Msgs(problem))
    BY <1>1 DEF SearchInv, ChansOK
  <2>3. ASSUME NEW b \in Agent, NEW q \in Agent
        PROVE  chan[b][q] \in Seq(Ready(problem, node, q))
    <3>1. chan[b][q] = <<>>
      BY <2>1
    <3> QED BY ONLY <3>1
  <2> QED BY <2>2, <2>3 DEF TracesOK
<1>5. Ranked(problem, node)
  <2> DEFINE rk == [b \in Pairs(problem) |-> 0]
  <2>1. ASSUME NEW a \in Agent, NEW s \in States
        PROVE  ~Refers(node[a][s])
    <3>1. node[a][s] = IF s = problem.init
                       THEN [NewNode EXCEPT !.st = "OPEN", !.cost = 0, !.heur = Heur(a, s)]
                       ELSE NewNode
      BY DEF Init
    <3> DEFINE i == problem.init
               h == Heur(a, s)
    <3> HIDE DEF i, h
    <3>2. node[a][s] = IF s = i
                       THEN [NewNode EXCEPT !.st = "OPEN", !.cost = 0, !.heur = h]
                       ELSE NewNode
      BY <3>1 DEF i, h
    <3>3. node[a][s].op = NoOp /\ node[a][s].pub = NoAgent
      BY <3>2 DEF NewNode
    <3> QED BY <3>3 DEF Refers
  <2>2. ASSUME NEW b \in Pairs(problem)
        PROVE  rk[b] < 1 /\ RefOK(node, rk, b)
    <3>1. ~Refers(At(node, b))
      BY <2>1 DEF Pairs, At, States
    <3>2. rk[b] = 0
      OBVIOUS
    <3> HIDE DEF rk
    <3> QED BY <3>1, <3>2 DEF RefOK
  <2>3. RankedBy(problem, node, rk, 1)
    <3>1. rk \in [Pairs(problem) -> Int] /\ 1 \in Int
      OBVIOUS
    <3> HIDE DEF rk
    <3> QED BY <2>2, <3>1 DEF RankedBy
  <2> QED BY <2>3 DEF Ranked
<1> QED BY <1>1, <1>3, <1>4, <1>5 DEF TracingInv

\* What it implies.
LEMMA TracingReferences ==
    ASSUME TracingInv
    PROVE  ReferencesEnd
<1>1. /\ SearchInv /\ problem \in Problems /\ Ranked(problem, node)
      /\ node \in [Agent -> [problem.states -> Nodes(problem)]]
    BY InvNow DEF TracingInv
<1>2. ASSUME NEW c \in Pairs(problem), Reached(node, c), c[2] # problem.init
      PROVE  Refers(At(node, c))
  <2>1. c[1] \in Agent /\ c[2] \in problem.states /\ At(node, c) = node[c[1]][c[2]]
    BY DEF Pairs, At
  <2>2. NodeOK(problem, node, c[1], At(node, c), c[2])
    BY <1>1, <2>1, InvNow DEF PartOK
  <2>3. At(node, c).op # NoOp \/ At(node, c).pub \in Others(c[1])
    BY <1>2, <2>2 DEF NodeOK, Sound, Reached
  <2> QED BY <2>3, SizeAssumption DEF Refers, Others, Agent, NoAgent
<1>3. ASSUME NEW a \in Agent, NEW s \in States, node[a][s].st # "NEW"
      PROVE  Origin(node, <<a, s>>)[2] = problem.init
  <2> DEFINE b == <<a, s>>
  <2>1. b \in Pairs(problem) /\ Reached(node, b)
    BY <1>3 DEF Pairs, Reached, At, States
  <2> HIDE DEF b
  <2>2. Origin(node, b)[2] = problem.init
    BY <1>1, <1>2, <2>1, OriginIsInit
  <2> QED BY <2>2 DEF b
<1> QED BY <1>3 DEF ReferencesEnd

\* No answer is a failure.
LEMMA TracingAnswers ==
    ASSUME TracingInv
    PROVE  TraceNeverFails
<1>1. \A x \in Answers : x # Aborted
    BY DEF Answers, Searching, Found, Aborted
<1> QED BY <1>1 DEF TracingInv, TraceNeverFails

-----------------------------------------------------------------------------
(* The theorems *)

\* For any number of agents, any planning problems - with operators that cost
\* nothing, too - and however steps, values, public states and verifications
\* interleave: from every node that was reached the references lead to the
\* initial state, through as many agents as it takes, and never in a circle;
\* so extractPath and the hand-over of a path from agent to agent come to an
\* end.  No trace fails: the agent that is asked to go on with a path has
\* reached the state the path begins with, whatever became of its nodes since,
\* and the part of the path inside it begins with the initial state or with one
\* that another agent published.
THEOREM TraceCompleteAlways == Spec => []TraceComplete
<1>1. Init => TracingInv
    BY TracingInit
<1>2. TracingInv /\ [Next]_vars => TracingInv'
    BY TracingStep
<1>3. TracingInv => TraceComplete
    BY TracingReferences, TracingAnswers DEF TraceComplete
<1> QED BY <1>1, <1>2, <1>3, PTL DEF Spec

=============================================================================
