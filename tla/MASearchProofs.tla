--------------------------- MODULE MASearchProofs ---------------------------
(***************************************************************************)
(* Two invariants of the distributed search (MASearch), for any number of   *)
(* agents, any planning problems and any interleaving of steps, heuristic   *)
(* values, public states and verifications: ParentsKnown and OpenIsListed.  *)
(*                                                                         *)
(* The inductive invariant SearchInv has four parts.  AgentsOK is about the *)
(* nodes, the open list and the pending successors of each agent; its core  *)
(* is that nodes only ever grow (Grown): they get cheaper, and none is      *)
(* forgotten.  So what another agent knew when it sent a message (ChansOK)  *)
(* or began a verification (ObjsOK) is still true when the message is read  *)
(* or the solution is put back into a list.  RoundsOK, with the lemmas of   *)
(* SnapshotRounds, says where the messages of every verification are: an    *)
(* agent that answers has read the initiator's INIT message, and so it      *)
(* knows the solution that it may have to put back into its list.           *)
(***************************************************************************)
EXTENDS MASearch, SnapshotRounds, WellFoundedInduction

-----------------------------------------------------------------------------
(* Natural numbers, functions by recursion on them, and sequences *)

\* A set of natural numbers has a least one.
LEMMA Least ==
    ASSUME NEW S \in SUBSET Nat, S # {}
    PROVE  \E n \in S : \A k \in S : n <= k
<1>1. \E n \in S : \A k \in S : ~(<<k, n>> \in OpToRel(<, Nat))
    BY NatLessThanWellFounded, WFMin
<1>2. PICK n \in S : \A k \in S : ~(<<k, n>> \in OpToRel(<, Nat))
    BY <1>1
<1>3. ASSUME NEW k \in S
      PROVE  n <= k
  <2>1. ~(<<k, n>> \in OpToRel(<, Nat))
    BY <1>2
  <2> QED BY <2>1 DEF OpToRel
<1> QED BY <1>3

\* A set that has 0 and with every number below n the next one has n.
LEMMA UpTo ==
    ASSUME NEW n \in Nat, NEW T, 0 \in T, \A k \in 1 .. n : k - 1 \in T => k \in T
    PROVE  \A k \in 0 .. n : k \in T
<1> DEFINE B == {k \in 0 .. n : k \notin T}
<1>1. ASSUME B # {}
      PROVE  FALSE
  <2>0. B \in SUBSET Nat
    OBVIOUS
  <2>3. \E k \in B : \A j \in B : k <= j
    <3> HIDE DEF B
    <3> QED BY <1>1, <2>0, Least
  <2>1. PICK k \in B : \A j \in B : k <= j
    BY <2>3
  <2>2. k \in 1 .. n /\ k - 1 \in 0 .. n /\ k - 1 \notin B
    BY <2>1
  <2> QED BY <2>1, <2>2
<1> QED BY <1>1

\* A function of 0 .. n is defined by its value at 0 and by how its value at
\* k follows from that at k - 1,
Follows(f, x, n, F) == f[0] = x /\ \A k \in 1 .. n : f[k] = F[k][f[k - 1]]

\* and there is one when the steps stay in a set.
LEMMA Recursion ==
    ASSUME NEW S, NEW x \in S, NEW n \in Nat, NEW F \in [1 .. n -> [S -> S]]
    PROVE  \E f \in [0 .. n -> S] : Follows(f, x, n, F)
<1> DEFINE Upto(j) == \E f \in [0 .. j -> S] :
                         f[0] = x /\ \A k \in 1 .. j : f[k] = F[k][f[k - 1]]
           T == {j \in 0 .. n : Upto(j)}
<1>1. 0 \in T
  <2> DEFINE f == [k \in 0 .. 0 |-> x]
  <2>1. f \in [0 .. 0 -> S] /\ f[0] = x /\ \A k \in 1 .. 0 : f[k] = F[k][f[k - 1]]
    OBVIOUS
  <2>2. Upto(0)
    BY <2>1
  <2> QED BY <2>2
<1>2. ASSUME NEW j \in 1 .. n, j - 1 \in T
      PROVE  j \in T
  <2>1. PICK f \in [0 .. j - 1 -> S] :
           f[0] = x /\ \A k \in 1 .. j - 1 : f[k] = F[k][f[k - 1]]
    BY <1>2
  <2> DEFINE g == [k \in 0 .. j |-> IF k = j THEN F[j][f[j - 1]] ELSE f[k]]
  <2>2. F[j][f[j - 1]] \in S
    OBVIOUS
  <2>3. g \in [0 .. j -> S] /\ g[0] = x
    BY <2>1, <2>2
  <2>4. \A k \in 1 .. j : g[k] = F[k][g[k - 1]]
    BY <2>1
  <2>5. Upto(j)
    <3> HIDE DEF g
    <3> QED BY <2>3, <2>4
  <2> HIDE DEF Upto
  <2> QED BY <2>5
<1>3. n \in T
  <2> HIDE DEF T
  <2>1. \A k \in 0 .. n : k \in T
    BY <1>1, <1>2, UpTo
  <2> QED BY <2>1
<1> QED BY <1>3 DEF Follows

\* A pair that is not less than the least one.
LeastOf(f, h, x, y) == /\ ~(x < f) /\ ~(x = f /\ y < h)
                       /\ ~(x = f /\ y = h) => f < x \/ (f = x /\ h < y)

\* It is one when its parts are not less.
LEMMA LeastPair ==
    ASSUME NEW f \in Nat, NEW h \in Nat, NEW x \in Nat, NEW y \in Nat,
           f <= x, x = f => h <= y
    PROVE  LeastOf(f, h, x, y)
BY DEF LeastOf

\* The first of the least entries of a list is one of it.
LEMMA TopIndexIn ==
    ASSUME NEW S, NEW l \in Seq([f : Nat, h : Nat, s : S]), l # <<>>
    PROVE  TopIndex(l) \in 1 .. Len(l)
<1> DEFINE D == 1 .. Len(l)
           Fs == {l[i].f : i \in D}
<1>1. /\ D = DOMAIN l /\ D # {} /\ D \subseteq Nat
      /\ \A i \in D : l[i].f \in Nat /\ l[i].h \in Nat
  <2>1. Len(l) \in Nat /\ Len(l) # 0 /\ D = DOMAIN l
    OBVIOUS
  <2> DEFINE E == [f : Nat, h : Nat, s : S]
  <2>2. \A i \in D : l[i] \in E
    <3>1. l \in Seq(E)
      OBVIOUS
    <3> HIDE DEF E
    <3> QED BY <3>1
  <2> QED BY <2>1, <2>2
<1>2. Fs # {} /\ Fs \in SUBSET Nat
    BY <1>1
<1>3. PICK f \in Fs : \A x \in Fs : f <= x
    BY <1>2, Least
<1> DEFINE Hs == {l[i].h : i \in {j \in D : l[j].f = f}}
<1>4. Hs # {} /\ Hs \in SUBSET Nat
    BY <1>1, <1>3
<1>5. PICK h \in Hs : \A x \in Hs : h <= x
    BY <1>4, Least
<1> DEFINE Is2 == {i \in D : l[i].f = f /\ l[i].h = h}
<1>6. Is2 # {} /\ Is2 \in SUBSET Nat
    BY <1>1, <1>5
<1>7. PICK i \in Is2 : \A j \in Is2 : i <= j
    BY <1>6, Least
<1>8. \A j \in D : f <= l[j].f /\ (l[j].f = f => h <= l[j].h)
    BY <1>3, <1>5
<1>14. i \in D /\ l[i].f = f /\ l[i].h = h /\ f \in Nat /\ h \in Nat /\ i \in Nat
  <2>1. i \in D /\ l[i].f = f /\ l[i].h = h
    BY <1>7
  <2>2. f \in Nat /\ h \in Nat
    <3> HIDE DEF Fs, Hs
    <3> QED BY <1>2, <1>4
  <2>3. i \in Nat
    <3> HIDE DEF D
    <3> QED BY <1>1, <2>1
  <2> QED BY <2>1, <2>2, <2>3
<1>15. f \in Nat /\ h \in Nat
    BY <1>14
<1>9. ASSUME NEW j \in D
      PROVE  ~Before(l[j], l[i])
  <2>1. /\ l[j].f \in Nat /\ l[j].h \in Nat
        /\ f <= l[j].f /\ (l[j].f = f => h <= l[j].h)
    BY <1>1, <1>8
  <2> HIDE DEF D
  <2>2. LeastOf(f, h, l[j].f, l[j].h)
    BY ONLY <1>15, <2>1, LeastPair
  <2>3. l[i].f = f /\ l[i].h = h
    BY <1>14
  <2> QED BY ONLY <2>2, <2>3 DEF Before, LeastOf
<1>10. \A j \in 1 .. i - 1 : Before(l[i], l[j])
  <2>1. ASSUME NEW j \in 1 .. i - 1
        PROVE  Before(l[i], l[j])
    <3>1. j \in D /\ ~(i <= j)
      <4>1. i \in 1 .. Len(l) /\ Len(l) \in Nat
        BY <1>14
      <4>2. j \in 1 .. Len(l) /\ ~(i <= j)
        BY <4>1
      <4> QED BY <4>2
    <3>2. j \notin Is2
      BY <1>7, <3>1
    <3>3. /\ l[j].f \in Nat /\ l[j].h \in Nat
          /\ f <= l[j].f /\ (l[j].f = f => h <= l[j].h)
          /\ ~(l[j].f = f /\ l[j].h = h)
      BY <1>1, <1>8, <3>1, <3>2
    <3> HIDE DEF D
    <3>4. f < l[j].f \/ (f = l[j].f /\ h < l[j].h)
      <4>1. LeastOf(f, h, l[j].f, l[j].h)
        BY ONLY <1>15, <3>3, LeastPair
      <4> QED BY ONLY <3>3, <4>1 DEF LeastOf
    <3>5. l[i].f = f /\ l[i].h = h
      BY <1>14
    <3> QED BY ONLY <3>4, <3>5 DEF Before
  <2> QED BY <2>1
<1> DEFINE P(k) == /\ \A j \in DOMAIN l : ~Before(l[j], l[k])
                   /\ \A j \in 1 .. k - 1 : Before(l[k], l[j])
<1>11. i \in DOMAIN l /\ P(i)
    BY <1>1, <1>9, <1>10
<1>12. TopIndex(l) = CHOOSE k \in DOMAIN l : P(k)
    BY DEF TopIndex
<1> HIDE DEF P
<1>13. (CHOOSE k \in DOMAIN l : P(k)) \in DOMAIN l
    BY <1>11, Zenon
<1> QED BY <1>1, <1>12, <1>13

\* What is left of a sequence without one of its elements.
LEMMA Removed ==
    ASSUME NEW M, NEW l \in Seq(M), NEW i \in 1 .. Len(l)
    PROVE  /\ RemoveAt(l, i) \in Seq(M)
           /\ \A j \in 1 .. Len(l) : j # i =>
                 \E k \in 1 .. Len(RemoveAt(l, i)) : RemoveAt(l, i)[k] = l[j]
<1> DEFINE u == SubSeq(l, 1, i - 1)
           v == SubSeq(l, i + 1, Len(l))
<1>1. /\ u \in Seq(M) /\ Len(u) = i - 1
      /\ \A j \in 1 .. i - 1 : u[j] = l[j]
    OBVIOUS
<1>2. /\ v \in Seq(M) /\ Len(v) = Len(l) - i
      /\ \A j \in 1 .. Len(l) - i : v[j] = l[j + i]
    OBVIOUS
<1> HIDE DEF u, v
<1>3. RemoveAt(l, i) = u \o v
    BY DEF RemoveAt, u, v
<1>4. u \o v \in Seq(M) /\ Len(u \o v) = Len(l) - 1
    BY <1>1, <1>2
<1>5. /\ \A j \in 1 .. i - 1 : (u \o v)[j] = l[j]
      /\ \A j \in i .. Len(l) - 1 : (u \o v)[j] = l[j + 1]
  <2>0. Len(l) \in Nat /\ i \in Nat
    OBVIOUS
  <2>1. ASSUME NEW j \in 1 .. i - 1
        PROVE  (u \o v)[j] = l[j]
    BY <1>1, <1>2, <2>0
  <2>2. ASSUME NEW j \in i .. Len(l) - 1
        PROVE  (u \o v)[j] = l[j + 1]
    <3>1. (u \o v)[j] = v[j - (i - 1)] /\ j - (i - 1) \in 1 .. Len(l) - i
      BY <1>1, <1>2, <2>0
    <3>2. v[j - (i - 1)] = l[j - (i - 1) + i] /\ j - (i - 1) + i = j + 1
      BY <1>2, <2>0, <3>1
    <3> QED BY <3>1, <3>2
  <2> QED BY <2>1, <2>2
<1>6. ASSUME NEW j \in 1 .. Len(l), j # i
      PROVE  \E k \in 1 .. Len(u \o v) : (u \o v)[k] = l[j]
  <2>0. Len(l) \in Nat /\ i \in Nat /\ j \in Nat /\ i <= Len(l)
    OBVIOUS
  <2>1. CASE j < i
    <3>1. j \in 1 .. i - 1 /\ j \in 1 .. Len(u \o v)
      BY <1>4, <2>0, <2>1
    <3> QED BY <1>5, <3>1
  <2>2. CASE j > i
    <3>3. j - 1 \in i .. Len(l) - 1
      BY <2>0, <2>2
    <3>1. (u \o v)[j - 1] = l[j - 1 + 1]
      BY <1>5, <3>3
    <3>2. j - 1 + 1 = j /\ j - 1 \in 1 .. Len(u \o v)
      BY <1>4, <2>0, <2>2
    <3> QED BY <3>1, <3>2
  <2> QED BY <1>6, <2>1, <2>2
<1> QED BY <1>3, <1>4, <1>6

-----------------------------------------------------------------------------
(* What the search keeps true.  The definitions name the state they are of, *)
(* p is the planning problem and nd the nodes of all agents.                *)

\* Operators, nodes, entries of a list and pending successors.
Ops(p) == [from : p.states, to : p.states, cost : Nat, owner : Agent, priv : BOOLEAN]
Nodes(p) == [st : {"NEW", "OPEN", "CLOSED"}, op : Ops(p) \cup {NoOp}, cost : Int,
             heur : Int, pub : Agent \cup {NoAgent}]
Entries(p) == [f : Nat, h : Nat, s : p.states]
Pendings(p) == [op : Ops(p), g : Nat \cup {NotAsked}]

\* Agent b reached s at no more than cost c.
Has(nd, b, s, c) == nd[b][s].st # "NEW" /\ nd[b][s].cost <= c

\* The node that n, agent a's node of s, was reached from exists and is
\* cheap enough.
Sound(nd, a, n, s) == IF n.op # NoOp THEN Has(nd, a, n.op.from, n.cost - n.op.cost)
                      ELSE n.pub \in Others(a) /\ Has(nd, n.pub, s, n.cost)

NodeOK(p, nd, a, n, s) == n.st # "NEW" => /\ n.cost >= 0
                                          /\ s # p.init => Sound(nd, a, n, s)

\* Nodes m become m2: no node gets lost, or more expensive.
Grown(p, m, m2) == \A s \in p.states : m[s].st # "NEW" =>
                      m2[s].st # "NEW" /\ m2[s].cost <= m[s].cost

\* State s is in list l at cost c; the open ones of m are, or they are in W.
Listed(l, s, c) == \E i \in 1 .. Len(l) : l[i].s = s /\ l[i].f - l[i].h = c
AllListed(p, m, l, W) == \A s \in p.states :
    m[s].st = "OPEN" => Listed(l, s, m[s].cost) \/ <<s, m[s].cost>> \in W

\* The state whose heuristic value is awaited, and its cost when it was
\* reached.
Awaited(d) == IF d # <<>> /\ Head(d).g # NotAsked
              THEN {<<Head(d).op.to, Head(d).g>>} ELSE {}

\* m and l can be agent a's nodes and open list after a step from nd.
PartOK(p, nd, a, m, l, W) ==
    /\ m \in [p.states -> Nodes(p)]
    /\ l \in Seq(Entries(p))
    /\ \A s \in p.states : NodeOK(p, nd, a, m[s], s)
    /\ Grown(p, nd[a], m)
    /\ AllListed(p, m, l, W)

\* Successors are generated of a state that was reached, one at a time.
DoingOK(p, m, d) ==
    /\ d \in Seq(Pendings(p))
    /\ \A k \in 1 .. Len(d) : /\ m[d[k].op.from].st # "NEW"
                              /\ k > 1 => d[k].g = NotAsked

AgentsOK(p, nd, ls, ds) ==
    /\ nd \in [Agent -> [p.states -> Nodes(p)]]
    /\ ls \in [Agent -> Seq(Entries(p))]
    /\ ds \in [Agent -> Seq(Pendings(p))]
    /\ \A a \in Agent : /\ PartOK(p, nd, a, nd[a], ls[a], Awaited(ds[a]))
                        /\ DoingOK(p, nd[a], ds[a])

-----------------------------------------------------------------------------
(* Nodes and lists *)

\* What is known of a problem.
LEMMA ProblemFacts ==
    ASSUME problem \in Problems
    PROVE  /\ NoState \notin States /\ IsFiniteSet(States)
           /\ \A a \in Agent : \A s \in States :
                 /\ Heur(a, s) \in Nat
                 /\ OpsOf(a, s) \in Seq(Ops(problem))
                 /\ \A k \in 1 .. Len(OpsOf(a, s)) : OpsOf(a, s)[k].from = s
<1>1. /\ NoState \notin States /\ IsFiniteSet(States)
      /\ problem.heur \in [Agent -> [States -> Nat]]
    BY ProblemAssumption DEF States
<1>2. ASSUME NEW a \in Agent, NEW s \in States
      PROVE  /\ OpsOf(a, s) \in Seq(Ops(problem))
             /\ \A k \in 1 .. Len(OpsOf(a, s)) : OpsOf(a, s)[k].from = s
  <2> DEFINE O == [from : {s}, to : States, cost : Nat, owner : {a}, priv : BOOLEAN]
  <2>1. OpsOf(a, s) \in Seq(O)
    BY ProblemAssumption DEF States, OpsOf
  <2>2. \A o \in O : o \in Ops(problem) /\ o.from = s
    BY DEF Ops, States
  <2> HIDE DEF O
  <2>3. \A k \in 1 .. Len(OpsOf(a, s)) : OpsOf(a, s)[k] \in O
    BY <2>1
  <2> QED BY <2>1, <2>2, <2>3
<1>3. \A a \in Agent : \A s \in States : Heur(a, s) \in Nat
    BY <1>1 DEF Heur
<1> QED BY <1>1, <1>2, <1>3

\* An operator is not the absence of one.
LEMMA OpIsOp ==
    ASSUME problem \in Problems, NEW o \in Ops(problem)
    PROVE  o # NoOp
BY ProblemFacts DEF Ops, NoOp, States

\* Nodes that were good enough are, when others have grown.
LEMMA HasGrown ==
    ASSUME NEW p, NEW nd, NEW nd2, \A b \in Agent : Grown(p, nd[b], nd2[b]),
           nd \in [Agent -> [p.states -> Nodes(p)]],
           nd2 \in [Agent -> [p.states -> Nodes(p)]],
           NEW b \in Agent, NEW s \in p.states, NEW c \in Int, Has(nd, b, s, c)
    PROVE  Has(nd2, b, s, c)
<1>1. nd[b][s].cost \in Int /\ nd2[b][s].cost \in Int
  <2>1. nd[b][s] \in Nodes(p) /\ nd2[b][s] \in Nodes(p)
    OBVIOUS
  <2> QED BY <2>1 DEF Nodes
<1> QED BY <1>1 DEF Has, Grown

\* and so is where a node was reached from.
LEMMA SoundGrown ==
    ASSUME NEW p, NEW nd, NEW nd2, \A b \in Agent : Grown(p, nd[b], nd2[b]),
           nd \in [Agent -> [p.states -> Nodes(p)]],
           nd2 \in [Agent -> [p.states -> Nodes(p)]],
           NEW a \in Agent, NEW s \in p.states, NEW n \in Nodes(p), NodeOK(p, nd, a, n, s)
    PROVE  NodeOK(p, nd2, a, n, s)
<1>1. /\ n.cost \in Int /\ n.op \in Ops(p) \cup {NoOp}
      /\ n.op # NoOp => n.op.from \in p.states /\ n.cost - n.op.cost \in Int
    BY DEF Nodes, Ops
<1>2. ASSUME n.op # NoOp, Has(nd, a, n.op.from, n.cost - n.op.cost)
      PROVE  Has(nd2, a, n.op.from, n.cost - n.op.cost)
    BY <1>1, <1>2, HasGrown
<1>3. ASSUME n.pub \in Others(a), Has(nd, n.pub, s, n.cost)
      PROVE  Has(nd2, n.pub, s, n.cost)
    BY <1>1, <1>3, HasGrown DEF Others
<1> QED BY <1>2, <1>3 DEF NodeOK, Sound

\* Growing is transitive, and nothing is lost without a change.
LEMMA GrownTrans ==
    ASSUME NEW p, NEW m \in [p.states -> Nodes(p)], NEW m2 \in [p.states -> Nodes(p)],
           NEW m3 \in [p.states -> Nodes(p)]
    PROVE  /\ Grown(p, m, m)
           /\ Grown(p, m, m2) /\ Grown(p, m2, m3) => Grown(p, m, m3)
<1>1. \A s \in p.states : m[s].cost \in Int /\ m2[s].cost \in Int /\ m3[s].cost \in Int
  <2>1. \A s \in p.states : m[s] \in Nodes(p) /\ m2[s] \in Nodes(p) /\ m3[s] \in Nodes(p)
    OBVIOUS
  <2> QED BY <2>1 DEF Nodes
<1> QED BY <1>1 DEF Grown

\* One agent steps, to nodes, a list and successors that are possible.
LEMMA AgentStep ==
    ASSUME NEW p, NEW nd, NEW ls, NEW ds, AgentsOK(p, nd, ls, ds), NEW a \in Agent,
           NEW m, NEW l, NEW d, PartOK(p, nd, a, m, l, Awaited(d)), DoingOK(p, m, d)
    PROVE  /\ AgentsOK(p, [nd EXCEPT ![a] = m], [ls EXCEPT ![a] = l], [ds EXCEPT ![a] = d])
           /\ \A b \in Agent : Grown(p, nd[b], [nd EXCEPT ![a] = m][b])
<1> DEFINE nd2 == [nd EXCEPT ![a] = m]
           ls2 == [ls EXCEPT ![a] = l]
           ds2 == [ds EXCEPT ![a] = d]
<1>0. nd2 = [nd EXCEPT ![a] = m] /\ ls2 = [ls EXCEPT ![a] = l] /\ ds2 = [ds EXCEPT ![a] = d]
    OBVIOUS
<1> HIDE DEF nd2, ls2, ds2
<1>1. /\ nd2 \in [Agent -> [p.states -> Nodes(p)]]
      /\ ls2 \in [Agent -> Seq(Entries(p))]
      /\ ds2 \in [Agent -> Seq(Pendings(p))]
      /\ nd \in [Agent -> [p.states -> Nodes(p)]]
  <2>1. /\ m \in [p.states -> Nodes(p)] /\ l \in Seq(Entries(p)) /\ d \in Seq(Pendings(p))
    BY DEF PartOK, DoingOK
  <2> QED BY <1>0, <2>1 DEF AgentsOK
<1>2. \A b \in Agent : Grown(p, nd[b], nd2[b])
  <2>1. ASSUME NEW b \in Agent
        PROVE  Grown(p, nd[b], nd2[b])
    <3>1. CASE b = a
      BY <1>0, <1>1, <3>1 DEF PartOK
    <3>2. CASE b # a
      BY <1>0, <1>1, <3>2, GrownTrans
    <3> QED BY <3>1, <3>2
  <2> QED BY <2>1
<1>3. ASSUME NEW b \in Agent
      PROVE  /\ PartOK(p, nd2, b, nd2[b], ls2[b], Awaited(ds2[b]))
             /\ DoingOK(p, nd2[b], ds2[b])
  <2>1. /\ nd2[b] \in [p.states -> Nodes(p)] /\ ls2[b] \in Seq(Entries(p))
        /\ Grown(p, nd2[b], nd2[b])
    BY <1>1, GrownTrans
  <2>2. /\ \A s \in p.states : NodeOK(p, nd, b, nd2[b][s], s)
        /\ AllListed(p, nd2[b], ls2[b], Awaited(ds2[b]))
        /\ DoingOK(p, nd2[b], ds2[b])
    <3>1. CASE b = a
      <4>1. nd2[b] = m /\ ls2[b] = l /\ ds2[b] = d
        BY <1>0, <3>1 DEF AgentsOK
      <4> QED BY <3>1, <4>1 DEF PartOK
    <3>2. CASE b # a
      <4>1. nd2[b] = nd[b] /\ ls2[b] = ls[b] /\ ds2[b] = ds[b]
        BY <1>0, <3>2 DEF AgentsOK
      <4>2. /\ PartOK(p, nd, b, nd[b], ls[b], Awaited(ds[b]))
            /\ DoingOK(p, nd[b], ds[b])
        BY DEF AgentsOK
      <4> QED BY <4>1, <4>2 DEF PartOK
    <3> QED BY <3>1, <3>2
  <2>3. ASSUME NEW s \in p.states
        PROVE  NodeOK(p, nd2, b, nd2[b][s], s)
    <3>1. nd2[b][s] \in Nodes(p)
      BY <2>1
    <3> QED BY <1>1, <1>2, <2>2, <3>1, SoundGrown
  <2> QED BY <2>1, <2>2, <2>3 DEF PartOK
<1>4. AgentsOK(p, nd2, ls2, ds2)
    BY <1>1, <1>3 DEF AgentsOK
<1> QED BY <1>2, <1>4 DEF nd2, ls2, ds2

\* An entry that is added is in the list at its cost, and the others still are.
LEMMA ListedAppend ==
    ASSUME NEW p, NEW l \in Seq(Entries(p)), NEW s \in p.states, NEW g \in Nat, NEW h \in Nat
    PROVE  /\ Append(l, Entry(s, g, h)) \in Seq(Entries(p))
           /\ Listed(Append(l, Entry(s, g, h)), s, g)
           /\ \A x, c : Listed(l, x, c) => Listed(Append(l, Entry(s, g, h)), x, c)
<1> DEFINE e == Entry(s, g, h)
<1>1. e \in Entries(p) /\ e.s = s /\ e.f - e.h = g
    BY DEF Entry, Entries
<1> HIDE DEF e
<1>2. /\ Append(l, e) \in Seq(Entries(p))
      /\ Len(l) \in Nat /\ Len(Append(l, e)) = Len(l) + 1
      /\ Append(l, e)[Len(l) + 1] = e
      /\ \A i \in 1 .. Len(l) : Append(l, e)[i] = l[i]
    BY <1>1, AppendSeq
<1>3. Listed(Append(l, e), s, g)
    BY <1>1, <1>2 DEF Listed
<1>4. \A x, c : Listed(l, x, c) => Listed(Append(l, e), x, c)
    BY <1>2 DEF Listed
<1> QED BY <1>2, <1>3, <1>4 DEF e

\* planSearchInsertNode with a node that is sound and not worse than before.
LEMMA InsertKeeps ==
    ASSUME NEW p, NEW nd, nd \in [Agent -> [p.states -> Nodes(p)]], NEW a \in Agent,
           NEW m, NEW l, NEW W, PartOK(p, nd, a, m, l, W),
           NEW s \in p.states, NEW n \in Nodes(p), n.cost >= 0,
           s # p.init => Sound(nd, a, n, s), m[s].st # "NEW" => n.cost <= m[s].cost,
           NEW r, r = InsertNode(a, m, l, n, s)
    PROVE  /\ PartOK(p, nd, a, r.node, r.list, W)
           /\ r.node[s].st # "NEW"
           /\ \A x \in p.states : m[x].st # "NEW" => r.node[x].st # "NEW"
<1> DEFINE m2 == [m EXCEPT ![s] = Opened(n)]
           h == Larger(n.heur, 0)
           l2 == Append(l, Entry(s, n.cost, h))
<1>1. r.node = m2 /\ r.list = l2
    BY DEF InsertNode
<1>2. /\ m \in [p.states -> Nodes(p)] /\ l \in Seq(Entries(p))
      /\ \A x \in p.states : NodeOK(p, nd, a, m[x], x)
      /\ Grown(p, nd[a], m) /\ AllListed(p, m, l, W)
    BY DEF PartOK
<1>3. /\ Opened(n) \in Nodes(p) /\ Opened(n).st = "OPEN" /\ Opened(n).cost = n.cost
      /\ Opened(n).op = n.op /\ Opened(n).pub = n.pub
      /\ n.cost \in Nat /\ h \in Nat
  <2>1. Opened(n) = [st |-> "OPEN", op |-> n.op, cost |-> n.cost, heur |-> n.heur,
                     pub |-> n.pub]
    BY DEF Opened, Nodes
  <2>2. n.cost \in Nat /\ h \in Nat
    BY DEF Nodes, Larger
  <2>3. Opened(n) \in Nodes(p)
    BY <2>1 DEF Nodes
  <2> QED BY <2>1, <2>2, <2>3
<1>4. /\ m2 \in [p.states -> Nodes(p)]
      /\ m2[s] = Opened(n) /\ \A x \in p.states \ {s} : m2[x] = m[x]
    BY <1>2, <1>3
<1> HIDE DEF m2, h
<1>5. ASSUME NEW x \in p.states
      PROVE  NodeOK(p, nd, a, m2[x], x)
    BY <1>2, <1>3, <1>4 DEF NodeOK, Sound
<1>6. Grown(p, m, m2)
  <2>1. \A x \in p.states : m[x].cost \in Int
    BY <1>2 DEF Nodes
  <2> QED BY <1>3, <1>4, <2>1 DEF Grown
<1>7. Grown(p, nd[a], m2)
    BY <1>2, <1>4, <1>6, GrownTrans
<1>8. /\ l2 \in Seq(Entries(p)) /\ Listed(l2, s, n.cost)
      /\ \A x, c : Listed(l, x, c) => Listed(l2, x, c)
    BY <1>2, <1>3, ListedAppend
<1> HIDE DEF l2
<1>9. AllListed(p, m2, l2, W)
    BY <1>2, <1>3, <1>4, <1>8 DEF AllListed
<1>10. \A x \in p.states : m[x].st # "NEW" => m2[x].st # "NEW"
    BY <1>3, <1>4
<1> QED BY <1>1, <1>3, <1>4, <1>5, <1>7, <1>8, <1>9, <1>10 DEF PartOK

\* A step takes an open state from the list and closes it.
Closed(n) == [n EXCEPT !.st = "CLOSED"]
EntryIs(l, i, s) == i \in 1 .. Len(l) /\ l[i].s = s
ClosedIn(p, nd, a, s, l, W) ==
    LET n == Closed(nd[a][s])
        m == [nd[a] EXCEPT ![s] = n]
    IN /\ PartOK(p, nd, a, m, l, W)
       /\ s \in p.states /\ n \in Nodes(p) /\ n.st = "CLOSED" /\ n.cost = nd[a][s].cost
       /\ m[s] = n /\ \A x \in p.states : nd[a][x].st # "NEW" => m[x].st # "NEW"

\* The search keeps what it knows when it does.
LEMMA CloseKeeps ==
    ASSUME NEW p, NEW nd, nd \in [Agent -> [p.states -> Nodes(p)]], NEW a \in Agent,
           NEW l, NEW W, PartOK(p, nd, a, nd[a], l, W),
           NEW i, NEW s, EntryIs(l, i, s), nd[a][s].st = "OPEN"
    PROVE  ClosedIn(p, nd, a, s, RemoveAt(l, i), W)
<1> DEFINE l2 == RemoveAt(l, i)
           o == nd[a][s]
           n == Closed(o)
           m == [nd[a] EXCEPT ![s] = n]
<1>0. i \in 1 .. Len(l) /\ l[i].s = s
    BY DEF EntryIs
<1>1. /\ nd[a] \in [p.states -> Nodes(p)] /\ l \in Seq(Entries(p))
      /\ \A x \in p.states : NodeOK(p, nd, a, nd[a][x], x)
      /\ Grown(p, nd[a], nd[a]) /\ AllListed(p, nd[a], l, W)
    BY DEF PartOK
<1>2. s \in p.states
  <2>1. l[i] \in Entries(p)
    BY <1>0, <1>1
  <2> QED BY <1>0, <2>1 DEF Entries
<1>3. o \in Nodes(p)
    BY <1>1, <1>2
<1>4. n = [st |-> "CLOSED", op |-> o.op, cost |-> o.cost, heur |-> o.heur, pub |-> o.pub]
  <2> HIDE DEF o
  <2>1. n = [o EXCEPT !.st = "CLOSED"]
    BY DEF Closed
  <2> QED BY <1>3, <2>1 DEF Nodes
<1>5. /\ n \in Nodes(p) /\ n.st = "CLOSED" /\ n.cost = o.cost /\ n.heur = o.heur
      /\ n.op = o.op /\ n.pub = o.pub /\ o.cost \in Int
    BY <1>3, <1>4 DEF Nodes
<1>6. /\ m \in [p.states -> Nodes(p)]
      /\ m[s] = n /\ \A x \in p.states \ {s} : m[x] = nd[a][x]
    BY <1>1, <1>2, <1>5
<1> HIDE DEF m, n
<1>7. ASSUME NEW x \in p.states
      PROVE  NodeOK(p, nd, a, m[x], x)
    BY <1>1, <1>5, <1>6 DEF NodeOK, Sound
<1>8. \A x \in p.states : nd[a][x].cost \in Int
    BY <1>1 DEF Nodes
<1>9. Grown(p, nd[a], m)
    BY <1>5, <1>6, <1>8 DEF Grown
<1>10. /\ l2 \in Seq(Entries(p))
       /\ \A j \in 1 .. Len(l) : j # i => \E k \in 1 .. Len(l2) : l2[k] = l[j]
    BY <1>0, <1>1, Removed
<1> HIDE DEF l2
<1>11. \A x, c : Listed(l, x, c) /\ x # s => Listed(l2, x, c)
    BY <1>0, <1>10 DEF Listed
<1>12. AllListed(p, m, l2, W)
  <2>1. ASSUME NEW x \in p.states, m[x].st = "OPEN"
        PROVE  Listed(l2, x, m[x].cost) \/ <<x, m[x].cost>> \in W
    <3>1. x # s /\ m[x] = nd[a][x]
      BY <1>5, <1>6, <2>1
    <3> QED BY <1>1, <1>11, <2>1, <3>1 DEF AllListed
  <2> QED BY <2>1 DEF AllListed
<1>13. \A x \in p.states : nd[a][x].st # "NEW" => m[x].st # "NEW"
    BY <1>5, <1>6
<1> QED BY <1>2, <1>5, <1>6, <1>7, <1>9, <1>10, <1>12, <1>13 DEF PartOK, l2, m, n, ClosedIn

\* An entry of a state that is not open may go.
LEMMA DropKeeps ==
    ASSUME NEW p, NEW nd, NEW a, NEW m, NEW l, NEW W, PartOK(p, nd, a, m, l, W),
           NEW i \in 1 .. Len(l), m[l[i].s].st # "OPEN"
    PROVE  PartOK(p, nd, a, m, RemoveAt(l, i), W)
<1> DEFINE l2 == RemoveAt(l, i)
<1>1. l \in Seq(Entries(p)) /\ AllListed(p, m, l, W)
    BY DEF PartOK
<1>2. /\ l2 \in Seq(Entries(p))
      /\ \A j \in 1 .. Len(l) : j # i => \E k \in 1 .. Len(l2) : l2[k] = l[j]
    BY <1>1, Removed
<1> HIDE DEF l2
<1>3. \A x, c : Listed(l, x, c) /\ x # l[i].s => Listed(l2, x, c)
    BY <1>2 DEF Listed
<1>4. AllListed(p, m, l2, W)
    BY <1>1, <1>3 DEF AllListed
<1> QED BY <1>2, <1>4 DEF PartOK, l2

\* A node that gets another operator, cost and heuristic value.
Changed(n, o, c, h) == [n EXCEPT !.op = o, !.cost = c, !.heur = h]

\* It is a node, with that operator and cost.
LEMMA NodeChanged ==
    ASSUME NEW p, NEW n \in Nodes(p), NEW o \in Ops(p), NEW c \in Int, NEW h \in Int
    PROVE  /\ Changed(n, o, c, h).op = o /\ Changed(n, o, c, h).cost = c
           /\ Changed(n, o, c, h) \in Nodes(p)
BY DEF Nodes, Changed

\* Nodes and a list in the making.
Accs(p, nd, a, W) ==
    {acc \in [node : [p.states -> Nodes(p)], list : Seq(Entries(p))] :
        PartOK(p, nd, a, acc.node, acc.list, W)}

\* astarInsertState.
LEMMA GenerateKeeps ==
    ASSUME problem \in Problems, node \in [Agent -> [States -> Nodes(problem)]],
           NEW a \in Agent, NEW W, NEW acc \in Accs(problem, node, a, W),
           NEW o \in Ops(problem), NEW g \in Nat, Has(node, a, o.from, g)
    PROVE  /\ Generate(acc, o, a, g) \in Accs(problem, node, a, W)
           /\ \A x \in States : acc.node[x].st # "NEW" =>
                                  Generate(acc, o, a, g).node[x].st # "NEW"
<1> DEFINE r == Generate(acc, o, a, g)
           s == o.to
           n == acc.node[s]
           c == g + o.cost
           h == IF n.st = "NEW" THEN Heur(a, s) ELSE n.heur
           m == Changed(n, o, c, h)
<1>1. /\ s \in States /\ o.cost \in Nat /\ o.from \in States /\ o # NoOp
    BY OpIsOp DEF Ops, States
<1>2. /\ acc.node \in [States -> Nodes(problem)]
      /\ PartOK(problem, node, a, acc.node, acc.list, W)
    BY DEF Accs, States
<1>3. n \in Nodes(problem) /\ Heur(a, s) \in Nat
    BY <1>1, <1>2, ProblemFacts
<1>4. h \in Int /\ n.cost \in Int /\ c \in Nat /\ c - o.cost = g
    BY <1>1, <1>3 DEF Nodes
<1>5. /\ m.op = o /\ m.cost = c /\ m \in Nodes(problem)
  <2> HIDE DEF n, h, c
  <2> QED BY <1>3, <1>4, NodeChanged
<1>6. r = IF Improves(n, c) THEN InsertNode(a, acc.node, acc.list, m, s) ELSE acc
    BY DEF Generate, Changed
<1> HIDE DEF m, r, c, h
<1>7. Sound(node, a, m, s)
    BY <1>1, <1>4, <1>5 DEF Sound
<1>8. CASE Improves(n, c)
  <2>1. r = InsertNode(a, acc.node, acc.list, m, s)
    BY <1>6, <1>8
  <2>2. n.st # "NEW" => m.cost <= n.cost
    BY <1>4, <1>5, <1>8 DEF Improves
  <2>3. s \in problem.states /\ m.cost >= 0
    BY <1>1, <1>4, <1>5 DEF States
  <2> HIDE DEF s
  <2>4. /\ PartOK(problem, node, a, r.node, r.list, W)
        /\ \A x \in problem.states : acc.node[x].st # "NEW" => r.node[x].st # "NEW"
    BY <1>2, <1>5, <1>7, <2>1, <2>2, <2>3, InsertKeeps DEF States
  <2>5. r = [node |-> r.node, list |-> r.list]
    BY <2>1 DEF InsertNode
  <2>6. r \in Accs(problem, node, a, W)
    BY <2>4, <2>5 DEF Accs, PartOK
  <2> QED BY <2>4, <2>6 DEF r, States
<1>9. CASE ~Improves(n, c)
  <2>1. r = acc
    BY <1>6, <1>9
  <2> QED BY <2>1 DEF r
<1> QED BY <1>8, <1>9

\* The recursion of GenerateAll: its value is that of a function that solves
\* the recursive equation, when there is one.
Generates(f, a, s, nd, l) ==
    f = [i \in 0 .. Len(OpsOf(a, s)) |->
           IF i = 0 THEN [node |-> nd, list |-> l]
           ELSE Generate(f[i - 1], OpsOf(a, s)[i], a, nd[s].cost)]

\* The definition picks one of the solutions.
LEMMA GenerateAllIs ==
    ASSUME NEW a, NEW s, NEW nd, NEW l, \E f : Generates(f, a, s, nd, l)
    PROVE  \E f : /\ Generates(f, a, s, nd, l)
                  /\ GenerateAll(a, s, nd, l) = f[Len(OpsOf(a, s))]
BY Zenon DEF GenerateAll, Generates

\* What holds before the first successor and is kept by each of them, holds
\* after all.
LEMMA GenerateAllIn ==
    ASSUME problem \in Problems, NEW a \in Agent, NEW s \in States, NEW m, NEW l, NEW S,
           [node |-> m, list |-> l] \in S,
           \A acc \in S : \A i \in 1 .. Len(OpsOf(a, s)) :
              Generate(acc, OpsOf(a, s)[i], a, m[s].cost) \in S
    PROVE  GenerateAll(a, s, m, l) \in S
<1> DEFINE ops == OpsOf(a, s)
           n == Len(ops)
           g == m[s].cost
           x0 == [node |-> m, list |-> l]
           G(acc, i) == Generate(acc, ops[i], a, g)
           F == [i \in 1 .. n |-> [acc \in S |-> G(acc, i)]]
<1>1. n \in Nat
    BY ProblemFacts
<1>2. x0 \in S
    OBVIOUS
<1>3. \A i \in 1 .. n : \A acc \in S : G(acc, i) \in S
    OBVIOUS
<1>4. PICK f \in [0 .. n -> S] : f[0] = x0 /\ \A k \in 1 .. n : f[k] = F[k][f[k - 1]]
  <2>1. F \in [1 .. n -> [S -> S]]
    <3> HIDE DEF G, n
    <3> QED BY <1>3
  <2>2. \E f \in [0 .. n -> S] : Follows(f, x0, n, F)
    <3> HIDE DEF F, x0, n
    <3> QED BY ONLY <1>1, <1>2, <2>1, Recursion, Zenon
  <2> QED BY <2>2 DEF Follows
<1>5. \E h : Generates(h, a, s, m, l)
  <2>1. \A k \in 1 .. n : f[k - 1] \in S /\ f[k] = G(f[k - 1], k)
    <3> HIDE DEF x0, G, n
    <3>1. \A k \in 1 .. n : f[k - 1] \in S
      BY <1>1
    <3> QED BY <1>4, <3>1
  <2>2. f = [i \in 0 .. n |-> IF i = 0 THEN x0 ELSE G(f[i - 1], i)]
    <3> HIDE DEF x0, G, n
    <3> QED BY <1>1, <1>4, <2>1
  <2>3. Generates(f, a, s, m, l)
    BY <2>2 DEF Generates
  <2> QED BY <2>3
<1>6. PICK h : Generates(h, a, s, m, l) /\ GenerateAll(a, s, m, l) = h[n]
    BY <1>5, GenerateAllIs
<1>7. h[n] \in S
  <2> DEFINE T == {i \in 0 .. n : h[i] \in S}
  <2>1. h = [i \in 0 .. n |-> IF i = 0 THEN x0 ELSE G(h[i - 1], i)]
    BY <1>6 DEF Generates
  <2> HIDE DEF x0, G, n
  <2>2. 0 \in T
    BY <1>1, <1>2, <2>1
  <2>3. \A k \in 1 .. n : k - 1 \in T => k \in T
    <3>1. \A k \in 1 .. n : h[k] = G(h[k - 1], k)
      BY <1>1, <2>1
    <3> QED BY <1>1, <1>3, <3>1
  <2>4. \A k \in 0 .. n : k \in T
    <3> HIDE DEF T
    <3> QED BY <1>1, <2>2, <2>3, UpTo
  <2> QED BY <1>1, <2>4
<1> QED BY <1>6, <1>7

\* All successors of a state.
LEMMA GenerateAllKeeps ==
    ASSUME problem \in Problems, node \in [Agent -> [States -> Nodes(problem)]],
           NEW a \in Agent, NEW s \in States, NEW m, NEW l, NEW W,
           PartOK(problem, node, a, m, l, W),
           m[s].cost \in Nat, Has(node, a, s, m[s].cost)
    PROVE  GenerateAll(a, s, m, l) \in Accs(problem, node, a, W)
<1> DEFINE S == Accs(problem, node, a, W)
<1>1. [node |-> m, list |-> l] \in S
    BY DEF Accs, PartOK
<1>2. ASSUME NEW acc \in S, NEW i \in 1 .. Len(OpsOf(a, s))
      PROVE  Generate(acc, OpsOf(a, s)[i], a, m[s].cost) \in S
  <2> DEFINE o == OpsOf(a, s)[i]
             g == m[s].cost
  <2>1. o \in Ops(problem) /\ o.from = s
    BY ProblemFacts
  <2>2. Has(node, a, o.from, g) /\ g \in Nat
    BY <2>1
  <2> HIDE DEF o, g
  <2>3. Generate(acc, o, a, g) \in S
    BY <2>1, <2>2, GenerateKeeps
  <2> QED BY <2>3 DEF o, g
<1> HIDE DEF S
<1>3. GenerateAll(a, s, m, l) \in S
    BY <1>1, <1>2, GenerateAllIn
<1> QED BY <1>3 DEF S

-----------------------------------------------------------------------------
(* Tracing *)

\* Ancestor goes from node to node, like extractPath.
Lead(nd, b) == IF nd[b.s].op = NoOp THEN b
               ELSE [s |-> nd[b.s].op.from, cost |-> b.cost + nd[b.s].op.cost]
Leads(f, nd, s) == f = [k \in 0 .. Cardinality(States) |->
                          IF k = 0 THEN [s |-> s, cost |-> 0] ELSE Lead(nd, f[k - 1])]

\* The definition of Ancestor picks one of the solutions.
LEMMA AncestorIs ==
    ASSUME NEW nd, NEW s, \E f : Leads(f, nd, s)
    PROVE  \E f : Leads(f, nd, s) /\ Ancestor(nd, s) = f[Cardinality(States)]
BY Zenon DEF Ancestor, Leads, Lead

\* The path of an agent's operators that is followed back from a state
\* (extractPath), as many steps as there are states.
LeadPaths == [0 .. Cardinality(States) -> [s : States, cost : Int]]
LeadPath(f, nd, s) ==
    /\ f[0] = [s |-> s, cost |-> 0]
    /\ \A k \in 1 .. Cardinality(States) : f[k] = Lead(nd, f[k - 1])
    /\ Ancestor(nd, s) = f[Cardinality(States)]

\* There is one.
LEMMA AncestorPath ==
    ASSUME problem \in Problems, NEW nd \in [States -> Nodes(problem)], NEW s \in States
    PROVE  \E f \in LeadPaths : LeadPath(f, nd, s)
<1> DEFINE n == Cardinality(States)
           S == [s : States, cost : Int]
           x0 == [s |-> s, cost |-> 0]
           F == [k \in 1 .. n |-> [b \in S |-> Lead(nd, b)]]
<1>1. n \in Nat
    BY ProblemFacts, FS_CardinalityType
<1>2. x0 \in S
    OBVIOUS
<1>3. ASSUME NEW b \in S
      PROVE  Lead(nd, b) \in S
  <2>1. nd[b.s] \in Nodes(problem) /\ b.cost \in Int
    OBVIOUS
  <2>2. nd[b.s].op # NoOp => nd[b.s].op.from \in States /\ nd[b.s].op.cost \in Nat
    BY <2>1 DEF Nodes, Ops, States
  <2> QED BY <2>1, <2>2 DEF Lead
<1>4. PICK f \in [0 .. n -> S] : f[0] = x0 /\ \A k \in 1 .. n : f[k] = F[k][f[k - 1]]
  <2>1. F \in [1 .. n -> [S -> S]]
    <3> HIDE DEF S, n
    <3> QED BY <1>3
  <2>2. \E f \in [0 .. n -> S] : Follows(f, x0, n, F)
    <3> HIDE DEF F, S, x0, n
    <3> QED BY ONLY <1>1, <1>2, <2>1, Recursion, Zenon
  <2> QED BY <2>2 DEF Follows
<1>5. \E h : Leads(h, nd, s)
  <2>1. \A k \in 1 .. n : f[k - 1] \in S /\ f[k] = Lead(nd, f[k - 1])
    <3> HIDE DEF S, x0, n
    <3>1. \A k \in 1 .. n : f[k - 1] \in S
      BY <1>1
    <3> QED BY <1>4, <3>1
  <2>2. f = [i \in 0 .. n |-> IF i = 0 THEN x0 ELSE Lead(nd, f[i - 1])]
    <3> HIDE DEF S, x0, n
    <3> QED BY <1>1, <1>4, <2>1
  <2>3. Leads(f, nd, s)
    BY <2>2 DEF Leads
  <2> QED BY <2>3
<1>6. PICK h : Leads(h, nd, s) /\ Ancestor(nd, s) = h[n]
    BY <1>5, AncestorIs
<1>7. h \in [0 .. n -> S] /\ h[0] = x0 /\ \A k \in 1 .. n : h[k] = Lead(nd, h[k - 1])
  <2> DEFINE T == {i \in 0 .. n : h[i] \in S}
  <2>1. h = [i \in 0 .. n |-> IF i = 0 THEN x0 ELSE Lead(nd, h[i - 1])]
    BY <1>6 DEF Leads
  <2> HIDE DEF S, x0, n
  <2>2. h[0] = x0 /\ \A k \in 1 .. n : h[k] = Lead(nd, h[k - 1])
    BY <1>1, <2>1
  <2>3. 0 \in T
    BY <1>1, <1>2, <2>2
  <2>4. \A k \in 1 .. n : k - 1 \in T => k \in T
    BY <1>1, <1>3, <2>2
  <2>5. \A k \in 0 .. n : k \in T
    <3> HIDE DEF T
    <3> QED BY <1>1, <2>3, <2>4, UpTo
  <2>6. \A k \in 0 .. n : h[k] \in S
    BY <2>5
  <2>7. h = [k \in 0 .. n |-> h[k]]
    BY <2>1
  <2>8. h \in [0 .. n -> S]
    BY ONLY <2>6, <2>7
  <2> QED BY <2>2, <2>8
<1>8. h \in LeadPaths
    BY <1>7 DEF LeadPaths
<1>9. LeadPath(h, nd, s)
    BY <1>6, <1>7 DEF LeadPath
<1> QED BY <1>8, <1>9

\* Where it leads to, at what cost.
LEMMA AncestorState ==
    ASSUME problem \in Problems, NEW nd \in [States -> Nodes(problem)], NEW s \in States
    PROVE  Ancestor(nd, s).s \in States /\ Ancestor(nd, s).cost \in Int
<1>1. Cardinality(States) \in 0 .. Cardinality(States)
    BY ProblemFacts, FS_CardinalityType
<1>2. PICK f \in LeadPaths : LeadPath(f, nd, s)
    BY AncestorPath
<1>3. Ancestor(nd, s) \in [s : States, cost : Int]
    BY <1>1, <1>2 DEF LeadPath, LeadPaths
<1> QED BY <1>3

-----------------------------------------------------------------------------
(* Messages and verifications *)

\* Every message the agents send each other.
Tokens == Agent \X Nat

PubMsgs(p)  == [kind : {"PUBLIC_STATE"}, s : p.states, cost : Nat, heur : Int,
                from : Agent]
InitMsgs(p) == [kind : {"INIT"}, token : Tokens, s : p.states, cost : Nat,
                heur : Int, from : Agent]
MarkMsgs    == [kind : {"MARK"}, token : Tokens, from : Agent]
RespMsgs    == [kind : {"RESPONSE"}, token : Tokens, from : Agent, ack : BOOLEAN]
TraceMsgs(p) == [kind : {"TRACE_PATH"}, s : p.states \cup {NoState}, cost : Int,
                 init : Agent]
Msgs(p) == PubMsgs(p) \cup InitMsgs(p) \cup MarkMsgs \cup RespMsgs \cup TraceMsgs(p)

\* What agent b sends: states it reached, at the cost of its node or more;
\* only the initiator of a verification sends INIT instead of MARK.
Valid(nd, b, m) ==
    /\ m.kind # "TRACE_PATH" => m.from = b
    /\ m.kind \in {"PUBLIC_STATE", "INIT"} => Has(nd, b, m.s, m.cost)
    /\ m.kind \in MarkKinds => (m.kind = "INIT" <=> m.token[1] = b)

ChansOK(p, nd, ch) ==
    /\ ch \in Channels(Msgs(p))
    /\ \A b \in Agent : \A q \in Agent : \A k \in 1 .. Len(ch[b][q]) :
          Valid(nd, b, ch[b][q][k])

\* A verification: its initiator, and who has heard the initiator's INIT
\* message, knows the solution.
Counts == [initiator : BOOLEAN, marks : SUBSET Agent, resps : SUBSET Agent]
Objects(p) == [count : Counts, lowest : Int, init : InitMsgs(p) \cup {<<>>},
               ack : BOOLEAN]
ObjOK(p, nd, a, t, o) ==
    /\ o \in Objects(p)
    /\ t[1] = a \/ t[1] \in o.count.marks =>
          /\ o.init \in InitMsgs(p) /\ o.init.from = t[1]
          /\ Has(nd, t[1], o.init.s, o.init.cost)

ObjsOK(p, nd, ob) ==
    /\ DOMAIN ob = Agent
    /\ \A a \in Agent : \A t \in DOMAIN ob[a] : t \in Tokens /\ ObjOK(p, nd, a, t, ob[a][t])

\* The rounds of all snapshots, as the registered objects have them.
Matches(t, ph, mk, rs, ob, cn) ==
    /\ \A a \in Agent :
          /\ ph[a] = "in" <=> t \in DOMAIN ob[a]
          /\ t \in DOMAIN ob[a] =>
                ob[a][t].count = [initiator |-> t[1] = a, marks |-> mk[a], resps |-> rs[a]]
    /\ t[2] > cn[t[1]] => ph[t[1]] = "out"

RoundIs(t, ch, ob, cn) ==
    \E ph, mk, rs : Round(ch, t, t[1], ph, mk, rs) /\ Matches(t, ph, mk, rs, ob, cn)

RoundsOK(ch, ob, cn) == \A t \in Tokens : RoundIs(t, ch, ob, cn)

\* The inductive invariant.
SearchInv ==
    /\ problem \in Problems
    /\ goalCost \in [Agent -> Int] /\ count \in [Agent -> Nat]
    /\ AgentsOK(problem, node, list, doing)
    /\ ChansOK(problem, node, chan)
    /\ ObjsOK(problem, node, objs)
    /\ RoundsOK(chan, objs, count)

\* The messages of every kind.
LEMMA MsgKinds ==
    ASSUME NEW p, NEW m \in Msgs(p)
    PROVE  /\ m.kind \in {"PUBLIC_STATE", "INIT", "MARK", "RESPONSE", "TRACE_PATH"}
           /\ m.kind = "PUBLIC_STATE" => m \in PubMsgs(p)
           /\ m.kind = "INIT" => m \in InitMsgs(p)
           /\ m.kind = "MARK" => m \in MarkMsgs
           /\ m.kind = "RESPONSE" => m \in RespMsgs
           /\ m.kind = "TRACE_PATH" => m \in TraceMsgs(p)
BY DEF Msgs, PubMsgs, InitMsgs, MarkMsgs, RespMsgs, TraceMsgs

\* The fields of the messages.
LEMMA MsgFields ==
    ASSUME NEW p, NEW m \in Msgs(p)
    PROVE  /\ m.kind \in {"PUBLIC_STATE", "INIT"} => m.s \in p.states /\ m.cost \in Nat
                                                     /\ m.heur \in Int
           /\ m.kind \in {"INIT", "MARK", "RESPONSE"} => m.token \in Tokens
           /\ m.kind # "TRACE_PATH" => m.from \in Agent
           /\ m.kind = "RESPONSE" => m.ack \in BOOLEAN
BY MsgKinds DEF PubMsgs, InitMsgs, MarkMsgs, RespMsgs

\* Messages and objects stay valid when the nodes grow.
LEMMA ChansGrown ==
    ASSUME NEW p, NEW nd, NEW nd2, \A b \in Agent : Grown(p, nd[b], nd2[b]),
           nd \in [Agent -> [p.states -> Nodes(p)]],
           nd2 \in [Agent -> [p.states -> Nodes(p)]],
           NEW ch, ChansOK(p, nd, ch)
    PROVE  ChansOK(p, nd2, ch)
<1>1. ch \in Channels(Msgs(p))
    BY DEF ChansOK
<1>2. ASSUME NEW b \in Agent, NEW q \in Agent, NEW k \in 1 .. Len(ch[b][q])
      PROVE  Valid(nd2, b, ch[b][q][k])
  <2> DEFINE m == ch[b][q][k]
  <2>1. m \in Msgs(p) /\ Valid(nd, b, m)
    <3>1. ch[b][q] \in Seq(Msgs(p))
      BY <1>1 DEF Channels
    <3> QED BY <3>1 DEF ChansOK
  <2> HIDE DEF m
  <2>2. m.kind \in {"PUBLIC_STATE", "INIT"} => m.s \in p.states /\ m.cost \in Int
    BY <2>1, MsgFields
  <2>3. ASSUME m.kind \in {"PUBLIC_STATE", "INIT"}, Has(nd, b, m.s, m.cost)
        PROVE  Has(nd2, b, m.s, m.cost)
    BY <2>2, <2>3, HasGrown
  <2>4. Valid(nd2, b, m)
    BY <2>1, <2>3 DEF Valid
  <2> QED BY <2>4 DEF m
<1> QED BY <1>1, <1>2 DEF ChansOK

\* and so do the verifications.
LEMMA ObjsGrown ==
    ASSUME NEW p, NEW nd, NEW nd2, \A b \in Agent : Grown(p, nd[b], nd2[b]),
           nd \in [Agent -> [p.states -> Nodes(p)]],
           nd2 \in [Agent -> [p.states -> Nodes(p)]],
           NEW ob, ObjsOK(p, nd, ob)
    PROVE  ObjsOK(p, nd2, ob)
<1>1. ASSUME NEW a \in Agent, NEW t \in Tokens, NEW o, ObjOK(p, nd, a, t, o)
      PROVE  ObjOK(p, nd2, a, t, o)
  <2>1. t[1] \in Agent
    BY DEF Tokens
  <2>2. o.init \in InitMsgs(p) => o.init.s \in p.states /\ o.init.cost \in Int
    BY DEF InitMsgs
  <2>3. ASSUME o.init \in InitMsgs(p), Has(nd, t[1], o.init.s, o.init.cost)
        PROVE  Has(nd2, t[1], o.init.s, o.init.cost)
    BY <2>1, <2>2, <2>3, HasGrown
  <2> QED BY <1>1, <2>3 DEF ObjOK
<1> QED BY <1>1 DEF ObjsOK

\* Sending and reading.
LEMMA ChansSend ==
    ASSUME NEW p, NEW nd, NEW ch, ChansOK(p, nd, ch), NEW a \in Agent, NEW S,
           NEW m \in Msgs(p), Valid(nd, a, m)
    PROVE  ChansOK(p, nd, Send(ch, a, S, m))
<1> DEFINE ch2 == Send(ch, a, S, m)
<1>1. ASSUME NEW b \in Agent, NEW q \in Agent
      PROVE  /\ ch2[b][q] \in Seq(Msgs(p))
             /\ \A k \in 1 .. Len(ch2[b][q]) : Valid(nd, b, ch2[b][q][k])
  <2>1. /\ ch[b][q] \in Seq(Msgs(p))
        /\ \A k \in 1 .. Len(ch[b][q]) : Valid(nd, b, ch[b][q][k])
    BY DEF ChansOK, Channels
  <2>2. ch2[b][q] = IF b = a /\ q \in S THEN Append(ch[b][q], m) ELSE ch[b][q]
    BY DEF Send
  <2> HIDE DEF ch2
  <2>3. CASE b = a /\ q \in S
    <3>1. /\ ch2[b][q] \in Seq(Msgs(p))
          /\ Len(ch[b][q]) \in Nat /\ Len(ch2[b][q]) = Len(ch[b][q]) + 1
          /\ ch2[b][q][Len(ch[b][q]) + 1] = m
          /\ \A k \in 1 .. Len(ch[b][q]) : ch2[b][q][k] = ch[b][q][k]
      BY <2>1, <2>2, <2>3, AppendSeq
    <3> QED BY <2>1, <2>3, <3>1
  <2>4. CASE ~(b = a /\ q \in S)
    BY <2>1, <2>2, <2>4
  <2> QED BY <2>3, <2>4
<1>2. ch2 \in Channels(Msgs(p))
  <2>1. \A b \in Agent : \A q \in Agent : ch2[b][q] \in Seq(Msgs(p))
    BY <1>1
  <2> QED BY <2>1 DEF Send, Channels
<1> QED BY <1>1, <1>2 DEF ChansOK

\* What is read was sent, and the other messages stay.
LEMMA ChansConsume ==
    ASSUME NEW p, NEW nd, NEW ch, ChansOK(p, nd, ch), NEW a \in Agent, NEW b \in Agent,
           ch[b][a] # <<>>
    PROVE  /\ ChansOK(p, nd, Consume(ch, b, a))
           /\ Head(ch[b][a]) \in Msgs(p) /\ Valid(nd, b, Head(ch[b][a]))
<1> DEFINE ch2 == Consume(ch, b, a)
<1>1. /\ ch \in Channels(Msgs(p)) /\ ch[b][a] \in Seq(Msgs(p))
      /\ \A k \in 1 .. Len(ch[b][a]) : Valid(nd, b, ch[b][a][k])
    BY DEF ChansOK, Channels
<1>2. /\ Tail(ch[b][a]) \in Seq(Msgs(p)) /\ Head(ch[b][a]) \in Msgs(p)
      /\ Head(ch[b][a]) = ch[b][a][1]
      /\ Len(ch[b][a]) \in Nat /\ Len(ch[b][a]) >= 1
      /\ Len(Tail(ch[b][a])) = Len(ch[b][a]) - 1
      /\ \A i \in 1 .. Len(Tail(ch[b][a])) : Tail(ch[b][a])[i] = ch[b][a][i + 1]
    BY <1>1, TailSeq
<1>3. ch2 \in Channels(Msgs(p))
    BY <1>1, <1>2 DEF Channels, Consume
<1>4. \A p2 \in Agent : \A q \in Agent :
         ch2[p2][q] = IF p2 = b /\ q = a THEN Tail(ch[b][a]) ELSE ch[p2][q]
    BY <1>1 DEF Channels, Consume
<1> HIDE DEF ch2
<1>5. ASSUME NEW c \in Agent, NEW q \in Agent, NEW k \in 1 .. Len(ch2[c][q])
      PROVE  Valid(nd, c, ch2[c][q][k])
  <2>1. CASE c = b /\ q = a
    <3>1. ch2[c][q] = Tail(ch[b][a])
      BY <1>4, <2>1
    <3>2. ch2[c][q][k] = ch[b][a][k + 1] /\ k + 1 \in 1 .. Len(ch[b][a])
      BY <1>2, <3>1
    <3> QED BY <1>1, <2>1, <3>2
  <2>2. CASE ~(c = b /\ q = a)
    <3>1. ch2[c][q] = ch[c][q]
      BY <1>4, <2>2
    <3> QED BY <3>1 DEF ChansOK
  <2> QED BY <2>1, <2>2
<1>6. Valid(nd, b, Head(ch[b][a]))
    BY <1>1, <1>2
<1> QED BY <1>2, <1>3, <1>5, <1>6 DEF ChansOK, ch2

\* A snapshot is as before where other messages come and go,
LEMMA TokenSend ==
    ASSUME NEW t \in Tokens, NEW M, NEW ch \in Channels(M), NEW ob, NEW cn,
           RoundIs(t, ch, ob, cn), NEW a \in Agent, NEW S, NEW m \in M, Apart(m, t)
    PROVE  RoundIs(t, Send(ch, a, S, m), ob, cn)
<1> DEFINE ch2 == Send(ch, a, S, m)
<1>1. PICK ph, mk, rs : Round(ch, t, t[1], ph, mk, rs) /\ Matches(t, ph, mk, rs, ob, cn)
    BY DEF RoundIs
<1>2. ASSUME NEW p \in Agent, NEW q \in Others(p)
      PROVE  Keeps(ch[p][q], ch2[p][q], t)
  <2>1. ch[p][q] \in Seq(M) /\ q \in Agent
    BY DEF Channels, Others
  <2>2. ch2[p][q] = IF p = a /\ q \in S THEN Append(ch[p][q], m) ELSE ch[p][q]
    BY <2>1 DEF Send
  <2>3. Keeps(ch[p][q], ch[p][q], t) /\ Keeps(ch[p][q], Append(ch[p][q], m), t)
    BY <2>1, KeepsMove
  <2> QED BY <2>2, <2>3
<1>3. t[1] \in Agent
    BY DEF Tokens
<1> HIDE DEF ch2
<1>4. Round(ch2, t, t[1], ph, mk, rs)
    BY <1>1, <1>2, <1>3, RoundKeeps
<1> QED BY <1>1, <1>4 DEF RoundIs, ch2

\* where a message of another snapshot is read,
LEMMA TokenConsume ==
    ASSUME NEW t \in Tokens, NEW M, NEW ch \in Channels(M), NEW ob, NEW cn,
           RoundIs(t, ch, ob, cn), NEW a \in Agent, NEW b \in Agent,
           ch[b][a] # <<>>, Apart(Head(ch[b][a]), t)
    PROVE  RoundIs(t, Consume(ch, b, a), ob, cn)
<1> DEFINE ch2 == Consume(ch, b, a)
<1>1. PICK ph, mk, rs : Round(ch, t, t[1], ph, mk, rs) /\ Matches(t, ph, mk, rs, ob, cn)
    BY DEF RoundIs
<1>2. ASSUME NEW p \in Agent, NEW q \in Others(p)
      PROVE  Keeps(ch[p][q], ch2[p][q], t)
  <2>1. ch[p][q] \in Seq(M) /\ q \in Agent
    BY DEF Channels, Others
  <2>2. ch2[p][q] = IF p = b /\ q = a THEN Tail(ch[p][q]) ELSE ch[p][q]
    BY <2>1 DEF Consume, Channels
  <2>3. CASE p = b /\ q = a
    BY <2>1, <2>2, <2>3, KeepsMove
  <2>4. CASE ~(p = b /\ q = a)
    BY <2>1, <2>2, <2>4, KeepsMove
  <2> QED BY <2>3, <2>4
<1>3. t[1] \in Agent
    BY DEF Tokens
<1> HIDE DEF ch2
<1>4. Round(ch2, t, t[1], ph, mk, rs)
    BY <1>1, <1>2, <1>3, RoundKeeps
<1> QED BY <1>1, <1>4 DEF RoundIs, ch2

\* and where the objects of other snapshots change.
SameObjects(t, ob, ob2) ==
    \A a \in Agent : /\ t \in DOMAIN ob2[a] <=> t \in DOMAIN ob[a]
                     /\ t \in DOMAIN ob[a] => ob2[a][t].count = ob[a][t].count
NotStarted(t, cn, cn2) == t[2] > cn2[t[1]] => t[2] > cn[t[1]]

\* The round is the same then.
LEMMA TokenObjects ==
    ASSUME NEW t \in Tokens, NEW ch, NEW ob, NEW cn, RoundIs(t, ch, ob, cn),
           NEW ob2, SameObjects(t, ob, ob2), NEW cn2, NotStarted(t, cn, cn2)
    PROVE  RoundIs(t, ch, ob2, cn2)
<1>1. PICK ph, mk, rs : Round(ch, t, t[1], ph, mk, rs) /\ Matches(t, ph, mk, rs, ob, cn)
    BY DEF RoundIs
<1>2. Matches(t, ph, mk, rs, ob2, cn2)
    BY <1>1 DEF Matches, SameObjects, NotStarted
<1> QED BY <1>1, <1>2 DEF RoundIs

\* Messages that are not of snapshots leave them all alone.
LEMMA RoundsSend ==
    ASSUME NEW M, NEW ch \in Channels(M), NEW ob, NEW cn, RoundsOK(ch, ob, cn),
           NEW a \in Agent, NEW S, NEW m \in M, m.kind \in {"PUBLIC_STATE", "TRACE_PATH"}
    PROVE  RoundsOK(Send(ch, a, S, m), ob, cn)
<1>1. \A t : Apart(m, t)
    BY DEF Apart, Is, MarkKinds, RespKinds
<1>2. ASSUME NEW t \in Tokens
      PROVE  RoundIs(t, Send(ch, a, S, m), ob, cn)
    BY <1>1, TokenSend DEF RoundsOK
<1> QED BY <1>2 DEF RoundsOK

\* Reading a message that carries a state is no part of any snapshot.
LEMMA RoundsConsume ==
    ASSUME NEW M, NEW ch \in Channels(M), NEW ob, NEW cn, RoundsOK(ch, ob, cn),
           NEW a \in Agent, NEW b \in Agent, ch[b][a] # <<>>,
           Head(ch[b][a]).kind \in {"PUBLIC_STATE", "TRACE_PATH"}
    PROVE  RoundsOK(Consume(ch, b, a), ob, cn)
<1>1. \A t : Apart(Head(ch[b][a]), t)
    BY DEF Apart, Is, MarkKinds, RespKinds
<1>2. ASSUME NEW t \in Tokens
      PROVE  RoundIs(t, Consume(ch, b, a), ob, cn)
    BY <1>1, TokenConsume DEF RoundsOK
<1> QED BY <1>2 DEF RoundsOK

-----------------------------------------------------------------------------
(* The steps of a snapshot *)

\* An agent begins a verification: nothing of its token was there before.
Starts(a, t, o, ob, cn, ob2, cn2) ==
    /\ t = <<a, cn[a] + 1>>
    /\ o.count = [initiator |-> TRUE, marks |-> {}, resps |-> {}]
    /\ ob2 = [ob EXCEPT ![a] = With(@, t, o)]
    /\ cn2 = [cn EXCEPT ![a] = @ + 1]

\* A round of that token begins; the others go on.
LEMMA RoundsStart ==
    ASSUME NEW M, NEW ch \in Channels(M), NEW ob, NEW cn \in [Agent -> Nat],
           RoundsOK(ch, ob, cn), DOMAIN ob = Agent, NEW a \in Agent,
           NEW t, NEW m \in M, m.kind = "INIT", m.token = t,
           NEW o, NEW ob2, NEW cn2, Starts(a, t, o, ob, cn, ob2, cn2)
    PROVE  RoundsOK(Send(ch, a, Others(a), m), ob2, cn2)
<1> DEFINE ch2 == Send(ch, a, Others(a), m)
<1>0. /\ t = <<a, cn[a] + 1>>
      /\ o.count = [initiator |-> TRUE, marks |-> {}, resps |-> {}]
      /\ ob2 = [ob EXCEPT ![a] = With(@, t, o)]
      /\ cn2 = [cn EXCEPT ![a] = @ + 1]
    BY DEF Starts
<1>1. t \in Tokens /\ t[1] = a /\ t[2] > cn[t[1]]
    BY <1>0 DEF Tokens
<1>2. /\ \A c \in Agent \ {a} : ob2[c] = ob[c]
      /\ DOMAIN ob2[a] = DOMAIN ob[a] \cup {t} /\ ob2[a][t] = o
      /\ \A u \in DOMAIN ob[a] : u # t => ob2[a][u] = ob[a][u]
    BY <1>0 DEF With
<1>3. ASSUME NEW u \in Tokens, u # t
      PROVE  RoundIs(u, ch2, ob2, cn2)
  <2>1. Apart(m, u)
    BY <1>3 DEF Apart, Is
  <2>2. RoundIs(u, ch2, ob, cn)
    BY <2>1, TokenSend DEF RoundsOK
  <2>3. SameObjects(u, ob, ob2)
    BY <1>2, <1>3 DEF SameObjects
  <2>4. NotStarted(u, cn, cn2)
    <3>1. u[1] \in Agent /\ u[2] \in Nat
      BY DEF Tokens
    <3>2. cn2[u[1]] >= cn[u[1]] /\ cn2[u[1]] \in Nat /\ cn[u[1]] \in Nat
      BY <1>0, <3>1
    <3> QED BY <3>1, <3>2 DEF NotStarted
  <2> HIDE DEF ch2
  <2> QED BY <2>2, <2>3, <2>4, TokenObjects
<1>4. RoundIs(t, ch2, ob2, cn2)
  <2>1. PICK ph, mk, rs : Round(ch, t, a, ph, mk, rs) /\ Matches(t, ph, mk, rs, ob, cn)
    BY <1>1 DEF RoundsOK, RoundIs
  <2>2. ph[a] = "out" /\ AllHeard(a, ph, mk, rs) /\ \A c \in Agent : ph[c] = "out"
    BY <1>1, <2>1 DEF Matches, Round
  <2> DEFINE ph2 == [c \in Agent |-> IF c = a THEN "in" ELSE ph[c]]
  <2>3. Turns(ph, ph2, a, "in")
    BY DEF Turns
  <2>4. Sends(ch, ch2, a, Others(a), m)
    BY DEF Sends, Send, Others
  <2>5. ph2[a] = "in" /\ \A c \in Agent \ {a} : ph2[c] = "out"
    BY <2>2
  <2> HIDE DEF ph2, ch2
  <2>6. m.kind = KindOf(a, a)
    BY DEF KindOf
  <2>7. Round(ch2, t, a, ph2, mk, rs)
    BY <2>1, <2>2, <2>3, <2>4, <2>6, RoundBegins
  <2>8. mk[a] = {} /\ rs[a] = {}
    BY <2>2 DEF AllHeard, Heard
  <2>9. Matches(t, ph2, mk, rs, ob2, cn2)
    <3>4. \A c \in Agent : t \notin DOMAIN ob[c]
      BY <2>1, <2>2 DEF Matches
    <3>1. \A c \in Agent \ {a} : t \notin DOMAIN ob2[c]
      BY <1>2, <3>4
    <3>2. cn2[a] = cn[a] + 1 /\ t[2] = cn[a] + 1 /\ cn[a] \in Nat
      BY <1>0
    <3>5. ASSUME NEW c \in Agent
          PROVE  /\ ph2[c] = "in" <=> t \in DOMAIN ob2[c]
                 /\ t \in DOMAIN ob2[c] =>
                       ob2[c][t].count = [initiator |-> t[1] = c, marks |-> mk[c],
                                          resps |-> rs[c]]
      <4>1. CASE c = a
        BY <1>0, <1>1, <1>2, <2>5, <2>8, <4>1
      <4>2. CASE c # a
        BY <2>5, <3>1, <4>2
      <4> QED BY <4>1, <4>2
    <3>6. ~(t[2] > cn2[t[1]])
      BY <1>1, <3>2
    <3> QED BY <3>5, <3>6 DEF Matches
  <2> QED BY <1>1, <2>7, <2>9 DEF RoundIs
<1> QED BY <1>3, <1>4 DEF RoundsOK

\* The objects of the others match the round.
OthersMatch(t, a, ph, mk, rs, ob) ==
    \A c \in Agent \ {a} :
       /\ ph[c] = "in" <=> t \in DOMAIN ob[c]
       /\ t \in DOMAIN ob[c] =>
             ob[c][t].count = [initiator |-> t[1] = c, marks |-> mk[c], resps |-> rs[c]]

\* Agent a takes part, and its object matches the round; a new object has
\* heard nobody.
Takes(t, a, ch, ph, mk, rs) ==
    /\ Round(ch, t, t[1], ph, mk, rs)
    /\ ph[a] = "in" /\ ~(t[2] > count[t[1]])
    /\ Joined(a, t).count = [initiator |-> t[1] = a, marks |-> mk[a], resps |-> rs[a]]
    /\ t \notin DOMAIN objs[a] => a # t[1] /\ mk[a] = {}
    /\ OthersMatch(t, a, ph, mk, rs, objs)

\* An object of agent a that has heard mk and rs.
CountIs(o, t, a, mk, rs) ==
    /\ o = [count |-> o.count, lowest |-> o.lowest, init |-> o.init, ack |-> o.ack]
    /\ o.count = [initiator |-> t[1] = a, marks |-> mk, resps |-> rs]

\* An agent that reads a message of a snapshot takes part in it, or joins.
LEMMA Joins ==
    ASSUME NEW M, chan \in Channels(M), NEW a \in Agent, NEW b \in Others(a),
           NEW t \in Tokens, NEW K \in {MarkKinds, RespKinds}, HeadIs(chan, b, a, K, t),
           RoundIs(t, chan, objs, count), SnapMark(t, a) \in M
    PROVE  \E ph, mk, rs : Takes(t, a, JoinMarks(a, t, chan), ph, mk, rs)
<1> DEFINE i == t[1]
           x == SnapMark(t, a)
           ch2 == JoinMarks(a, t, chan)
<1>1. PICK ph, mk, rs : Round(chan, t, i, ph, mk, rs) /\ Matches(t, ph, mk, rs, objs, count)
    BY DEF RoundIs
<1>2. i \in Agent
    BY DEF Tokens
<1>3. ph[i] # "out" /\ ph[a] # "done" /\ (K = RespKinds => ph[a] = "in")
  <2>1. CASE K = MarkKinds
    <3>1. HeadIs(chan, b, a, MarkKinds, t)
      BY <2>1
    <3>2. ph[i] # "out" /\ ph[a] # "done"
      <4> HIDE DEF i
      <4> QED BY <1>1, <1>2, <3>1, RoundHeadMark
    <3>3. MarkKinds # RespKinds
      BY DEF MarkKinds, RespKinds
    <3> QED BY <2>1, <3>2, <3>3
  <2>2. CASE K = RespKinds
    <3>1. HeadIs(chan, b, a, RespKinds, t)
      BY <2>2
    <3>2. a = i
      <4> HIDE DEF i
      <4> QED BY <1>1, <1>2, <3>1, RoundAnswered
    <3>3. HeadIs(chan, b, i, RespKinds, t) /\ b \in Others(i)
      BY <3>1, <3>2
    <3>4. /\ ph[b] = "done" /\ ph[i] = "in" /\ b \notin rs[i] /\ b \in mk[i]
          /\ Free(Tail(chan[b][i]), RespKinds, t)
      <4> HIDE DEF i
      <4> QED BY <1>1, <1>2, <3>3, RoundHeadResp
    <3> QED BY <3>2, <3>4
  <2> QED BY <2>1, <2>2
<1>4. Heard(i, a, ph, mk, rs)
    BY <1>1 DEF Round, AllHeard
<1>5. CASE t \in DOMAIN objs[a]
  <2>1. ch2 = chan /\ Joined(a, t) = objs[a][t]
    BY <1>5 DEF JoinMarks, Joined
  <2>2. ph[a] = "in"
    BY <1>1, <1>5 DEF Matches
  <2>3. OthersMatch(t, a, ph, mk, rs, objs)
    BY <1>1 DEF Matches, OthersMatch
  <2>4. Takes(t, a, ch2, ph, mk, rs)
    BY <1>1, <1>3, <1>5, <2>1, <2>2, <2>3 DEF Matches, Takes
  <2> QED BY <2>4
<1>6. CASE t \notin DOMAIN objs[a]
  <2>1. ph[a] = "out" /\ a # i
    BY <1>1, <1>3, <1>4, <1>6 DEF Matches, Heard, Phases
  <2> DEFINE ph2 == [c \in Agent |-> IF c = a THEN "in" ELSE ph[c]]
  <2>2. Turns(ph, ph2, a, "in")
    BY DEF Turns
  <2>3. Sends(chan, ch2, a, Others(a), x)
    BY <1>6 DEF JoinMarks, Sends, Send, Others
  <2>4. x.kind = KindOf(a, i) /\ x.token = t
    BY <2>1 DEF SnapMark, KindOf
  <2>5. mk[a] = {} /\ rs[a] = {}
    BY <1>4, <2>1 DEF Heard
  <2>6. Joined(a, t).count = [initiator |-> FALSE, marks |-> {}, resps |-> {}]
    BY <1>6 DEF Joined, Verification, Obj!NewObject
  <2>7. ph2[a] = "in" /\ ph2[i] = ph[i] /\ \A c \in Agent \ {a} : ph2[c] = ph[c]
    BY <1>2, <2>1
  <2> HIDE DEF ph2, ch2, x, i
  <2>8. Round(ch2, t, i, ph2, mk, rs)
    BY <1>1, <1>2, <1>3, <2>1, <2>2, <2>3, <2>4, RoundBegins DEF x
  <2>9. ~(t[2] > count[t[1]])
    BY <1>1, <1>3 DEF Matches, i
  <2>10. OthersMatch(t, a, ph2, mk, rs, objs)
    BY <1>1, <2>7 DEF Matches, OthersMatch
  <2>11. Joined(a, t).count = [initiator |-> i = a, marks |-> mk[a], resps |-> rs[a]]
    BY <2>1, <2>5, <2>6
  <2>12. Takes(t, a, ch2, ph2, mk, rs)
    BY <2>1, <2>5, <2>7, <2>8, <2>9, <2>10, <2>11 DEF Takes, i
  <2> QED BY <2>12 DEF ch2
<1> QED BY <1>5, <1>6

\* What agent a has in its channel stays the next message when it joins; to
\* join and to read are done in either order.
LEMMA JoinThenRead ==
    ASSUME NEW M, chan \in Channels(M), NEW a \in Agent, NEW b \in Others(a),
           chan[b][a] # <<>>, NEW t, SnapMark(t, a) \in M
    PROVE  /\ JoinMarks(a, t, chan) \in Channels(M)
           /\ JoinMarks(a, t, chan)[b][a] = chan[b][a]
           /\ Reads(JoinMarks(a, t, chan), JoinMarks(a, t, Consume(chan, b, a)), b, a)
<1> DEFINE x == SnapMark(t, a)
           ch == Consume(chan, b, a)
           sent == Send(chan, a, Others(a), x)
           sent2 == Send(ch, a, Others(a), x)
<1>1. b \in Agent /\ b # a
    BY DEF Others
<1>2. \A p \in Agent : \A q \in Agent :
         /\ chan[p][q] \in Seq(M)
         /\ ch[p][q] = IF p = b /\ q = a THEN Tail(chan[p][q]) ELSE chan[p][q]
    BY <1>1 DEF Channels, Consume
<1> HIDE DEF ch, x
<1>3. /\ \A p \in Agent : \A q \in Agent :
            sent[p][q] = IF p = a /\ q \in Others(a) THEN Append(chan[p][q], x)
                                                     ELSE chan[p][q]
      /\ \A p \in Agent : \A q \in Agent :
            sent2[p][q] = IF p = a /\ q \in Others(a) THEN Append(ch[p][q], x)
                                                      ELSE ch[p][q]
    BY DEF Send
<1>4. sent \in Channels(M)
  <2>1. ASSUME NEW p \in Agent, NEW q \in Agent
        PROVE  sent[p][q] \in Seq(M)
    <3>1. chan[p][q] \in Seq(M) /\ Append(chan[p][q], x) \in Seq(M)
      BY <1>2, AppendSeq DEF x
    <3>2. sent[p][q] = IF p = a /\ q \in Others(a) THEN Append(chan[p][q], x)
                                                   ELSE chan[p][q]
      BY <1>3
    <3> HIDE DEF sent, sent2
    <3> QED BY <3>1, <3>2
  <2> QED BY <2>1 DEF Send, Channels
<1> HIDE DEF sent, sent2
<1>5. \A p \in Agent : Others(p) \subseteq Agent
    BY DEF Others
<1>6. Reads(chan, ch, b, a)
    BY <1>2, <1>5 DEF Reads
<1>7. Reads(sent, sent2, b, a)
    BY <1>1, <1>2, <1>3, <1>5 DEF Reads
<1>8. sent[b][a] = chan[b][a]
    BY <1>1, <1>3
<1> QED BY <1>4, <1>6, <1>7, <1>8 DEF JoinMarks, sent, sent2, x, ch

\* What is counted, and when the object is through.
LEMMA CountedIs ==
    ASSUME NEW o, NEW m, NEW b, m.from = b, NEW t, NEW a, NEW mk, NEW rs,
           CountIs(o, t, a, mk, rs)
    PROVE  /\ m.kind = "RESPONSE" => CountIs(Counted(o, m), t, a, mk, rs \cup {b})
           /\ m.kind # "RESPONSE" => CountIs(Counted(o, m), t, a, mk \cup {b}, rs)
<1> DEFINE i == t[1] = a
<1>1. /\ m.kind = "RESPONSE" => Obj!Count(o.count, m.kind, b) =
                                  [initiator |-> i, marks |-> mk, resps |-> rs \cup {b}]
      /\ m.kind # "RESPONSE" => Obj!Count(o.count, m.kind, b) =
                                  [initiator |-> i, marks |-> mk \cup {b}, resps |-> rs]
    BY DEF CountIs, Obj!Count
<1> DEFINE c == Obj!Count(o.count, m.kind, m.from)
           init == IF m.kind = "INIT" THEN m ELSE o.init
           ack == o.ack /\ (m.kind = "RESPONSE" => m.ack)
<1>2. Counted(o, m) = [count |-> c, lowest |-> o.lowest, init |-> init, ack |-> ack]
  <2> HIDE DEF c, init, ack
  <2>1. o = [count |-> o.count, lowest |-> o.lowest, init |-> o.init, ack |-> o.ack]
    BY DEF CountIs
  <2>2. Counted(o, m) = [o EXCEPT !.count = c, !.init = init, !.ack = ack]
    BY DEF Counted, c, init, ack
  <2> QED BY <2>1, <2>2
<1> HIDE DEF c, init, ack
<1>3. c = Obj!Count(o.count, m.kind, b)
    BY DEF c
<1> QED BY <1>1, <1>2, <1>3 DEF CountIs

\* SnapshotObject has its own instance of Cardinality.
LEMMA ObjCardinality == \A S : Obj!Cardinality(S) = Cardinality(S)
BY DEF Obj!Cardinality, Cardinality

\* What the object of an agent says.
LEMMA CountFields ==
    ASSUME NEW o, NEW t, NEW a, NEW mk, NEW rs, CountIs(o, t, a, mk, rs)
    PROVE  /\ o.count.initiator <=> t[1] = a
           /\ o.count.initiator \in BOOLEAN
           /\ o.count.marks = mk /\ o.count.resps = rs
           /\ mk \subseteq Agent /\ rs \subseteq Agent => o.count \in Counts
<1> DEFINE c == o.count
           i == t[1] = a
<1>1. c = [initiator |-> i, marks |-> mk, resps |-> rs] /\ i \in BOOLEAN
    BY DEF CountIs
<1>2. i <=> t[1] = a
    OBVIOUS
<1> HIDE DEF c, i
<1>3. c.initiator = i /\ c.marks = mk /\ c.resps = rs
    BY <1>1
<1>4. mk \subseteq Agent /\ rs \subseteq Agent => c \in Counts
    BY <1>1 DEF Counts
<1> QED BY <1>1, <1>2, <1>3, <1>4 DEF c

\* The last message it waits for: an agent that takes part waits for the
\* marks of all others, the initiator for their answers.
LEMMA FinishedIs ==
    ASSUME NEW a \in Agent, NEW t, NEW o, NEW mk, NEW rs, CountIs(o, t, a, mk, rs),
           mk \subseteq Others(a), rs \subseteq Others(a), NEW kind
    PROVE  Obj!Finished(o.count, kind) <=>
              IF kind = "RESPONSE" THEN rs = Others(a) ELSE t[1] # a /\ mk = Others(a)
<1>1. /\ o.count.initiator <=> t[1] = a
      /\ o.count.marks = mk /\ o.count.resps = rs
    BY CountFields
<1>2. mk \in SUBSET Agent /\ rs \in SUBSET Agent /\ a \notin mk /\ a \notin rs
    BY DEF Others
<1>3. /\ Cardinality(mk) = N - 1 <=> mk = Others(a)
      /\ Cardinality(rs) = N - 1 <=> rs = Others(a)
    BY <1>2, HeardAll
<1> QED BY <1>1, <1>3, ObjCardinality
        DEF Obj!Finished, Obj!MarksComplete, Obj!RespsComplete

\* Of what only agent a's part changes.
SameBut(a, f, f2) == \A c \in Agent \ {a} : f2[c] = f[c]

\* Then all do when agent a deletes its object, or counted a message.
LEMMA MatchesAgain ==
    ASSUME NEW t, NEW a \in Agent, NEW ph, NEW mk, NEW rs, NEW ob, DOMAIN ob = Agent,
           OthersMatch(t, a, ph, mk, rs, ob), NEW cn, ~(t[2] > cn[t[1]]),
           NEW ph2, NEW mk2, NEW rs2,
           SameBut(a, ph, ph2), SameBut(a, mk, mk2), SameBut(a, rs, rs2)
    PROVE  /\ ph2[a] = "done" => Matches(t, ph2, mk2, rs2, [ob EXCEPT ![a] = Without(@, t)], cn)
           /\ \A new : ph2[a] = "in" /\ CountIs(new, t, a, mk2[a], rs2[a]) =>
                 Matches(t, ph2, mk2, rs2, [ob EXCEPT ![a] = With(@, t, new)], cn)
<1>1. ASSUME ph2[a] = "done"
      PROVE  Matches(t, ph2, mk2, rs2, [ob EXCEPT ![a] = Without(@, t)], cn)
  <2> DEFINE ob2 == [ob EXCEPT ![a] = Without(@, t)]
  <2>1. /\ t \notin DOMAIN ob2[a]
        /\ \A c \in Agent \ {a} : ob2[c] = ob[c]
    BY DEF Without
  <2> HIDE DEF ob2
  <2>2. ASSUME NEW c \in Agent
        PROVE  /\ ph2[c] = "in" <=> t \in DOMAIN ob2[c]
               /\ t \in DOMAIN ob2[c] =>
                     ob2[c][t].count = [initiator |-> t[1] = c, marks |-> mk2[c],
                                        resps |-> rs2[c]]
    <3>1. CASE c = a
      <4>1. ph2[c] = "done" /\ t \notin DOMAIN ob2[c]
        BY <1>1, <2>1, <3>1
      <4> QED BY <4>1
    <3>2. CASE c # a
      BY <2>1, <3>2 DEF OthersMatch, SameBut
    <3> QED BY <3>1, <3>2
  <2>3. Matches(t, ph2, mk2, rs2, ob2, cn)
    BY <2>2 DEF Matches
  <2> QED BY <2>3 DEF ob2
<1>2. ASSUME NEW new, ph2[a] = "in", CountIs(new, t, a, mk2[a], rs2[a])
      PROVE  Matches(t, ph2, mk2, rs2, [ob EXCEPT ![a] = With(@, t, new)], cn)
  <2> DEFINE ob2 == [ob EXCEPT ![a] = With(@, t, new)]
  <2>1. /\ t \in DOMAIN ob2[a] /\ ob2[a][t] = new
        /\ \A c \in Agent \ {a} : ob2[c] = ob[c]
    BY DEF With
  <2> HIDE DEF ob2
  <2>2. ASSUME NEW c \in Agent
        PROVE  /\ ph2[c] = "in" <=> t \in DOMAIN ob2[c]
               /\ t \in DOMAIN ob2[c] =>
                     ob2[c][t].count = [initiator |-> t[1] = c, marks |-> mk2[c],
                                        resps |-> rs2[c]]
    <3>1. CASE c = a
      BY <1>2, <2>1, <3>1 DEF CountIs
    <3>2. CASE c # a
      BY <2>1, <3>2 DEF OthersMatch, SameBut
    <3> QED BY <3>1, <3>2
  <2>3. Matches(t, ph2, mk2, rs2, ob2, cn)
    BY <2>2 DEF Matches
  <2> QED BY <2>3 DEF ob2
<1> QED BY <1>1, <1>2

\* What becomes of a snapshot when agent a has counted a message of it: the
\* object is kept, or it goes, and y is the answer if a is not the initiator.
After(t, a, new, kind, marked, y) ==
    LET gone == [objs EXCEPT ![a] = Without(@, t)]
        over == Obj!Finished(new.count, kind)
    IN /\ new.count \in Counts /\ (new.count.initiator <=> t[1] = a)
       /\ over /\ ~new.count.initiator => t[1] \in new.count.marks
       /\ ~over => RoundIs(t, marked, [objs EXCEPT ![a] = With(@, t, new)], count)
       /\ over /\ new.count.initiator => RoundIs(t, marked, gone, count)
       /\ over /\ ~new.count.initiator =>
             RoundIs(t, Send(marked, a, {t[1]}, y), gone, count)

\* An INIT or MARK message is counted,
LEMMA ReadsMark ==
    ASSUME NEW M, NEW a \in Agent, NEW b \in Others(a), NEW t \in Tokens,
           NEW ch \in Channels(M), NEW ph, NEW mk, NEW rs, Takes(t, a, ch, ph, mk, rs),
           HeadIs(ch, b, a, MarkKinds, t), DOMAIN objs = Agent,
           CountIs(Joined(a, t), t, a, mk[a], rs[a]),
           NEW m, m.from = b, m.kind # "RESPONSE",
           NEW marked, Reads(ch, marked, b, a),
           NEW y \in M, y.kind = "RESPONSE", y.token = t
    PROVE  After(t, a, Counted(Joined(a, t), m), m.kind, marked, y)
<1> DEFINE i == t[1]
           o == Joined(a, t)
           new == Counted(o, m)
           mk2 == [c \in Agent |-> IF c = a THEN mk[c] \cup {b} ELSE mk[c]]
           own == i = a
           over == Obj!Finished(new.count, m.kind)
           gone == [objs EXCEPT ![a] = Without(@, t)]
           stays == [objs EXCEPT ![a] = With(@, t, new)]
           sent == Send(marked, a, {i}, y)
<1>1. /\ Round(ch, t, i, ph, mk, rs) /\ ph[a] = "in" /\ ~(t[2] > count[i])
      /\ CountIs(o, t, a, mk[a], rs[a]) /\ OthersMatch(t, a, ph, mk, rs, objs)
      /\ i \in Agent /\ own \in BOOLEAN
    BY DEF Takes, Tokens
<1>2. Hears(mk, mk2, a, b) /\ SameBut(a, mk, mk2) /\ SameBut(a, rs, rs) /\ SameBut(a, ph, ph)
    BY DEF Hears, SameBut
<1>3. CountIs(new, t, a, mk2[a], rs[a])
  <2>1. mk2[a] = mk[a] \cup {b}
    OBVIOUS
  <2> HIDE DEF o, mk2
  <2>2. /\ m.kind = "RESPONSE" => CountIs(Counted(o, m), t, a, mk[a], rs[a] \cup {b})
        /\ m.kind # "RESPONSE" => CountIs(Counted(o, m), t, a, mk[a] \cup {b}, rs[a])
    BY <1>1, CountedIs
  <2> QED BY <2>1, <2>2
<1>4. mk2[a] \subseteq Others(a) /\ rs[a] \subseteq Others(a) /\ Others(a) \subseteq Agent
    BY <1>1 DEF Round, AllHeard, Heard, Others
<1>5. over <=> ~own /\ mk2[a] = Others(a)
  <2>1. Obj!Finished(new.count, m.kind) <=>
           IF m.kind = "RESPONSE" THEN rs[a] = Others(a) ELSE t[1] # a /\ mk2[a] = Others(a)
    <3> HIDE DEF new, mk2
    <3> QED BY <1>1, <1>3, <1>4, FinishedIs
  <2> QED BY <2>1
<1>6. new.count \in Counts /\ (new.count.initiator <=> own)
  <2>1. /\ new.count.initiator <=> t[1] = a
        /\ mk2[a] \subseteq Agent /\ rs[a] \subseteq Agent => new.count \in Counts
    <3> HIDE DEF new
    <3> QED BY <1>3, CountFields
  <2> QED BY <1>4, <2>1
<1>7. over => i \in Others(a) /\ i \in new.count.marks
    BY <1>1, <1>3, <1>5 DEF CountIs, Others
<1> HIDE DEF mk2, new, own, over, i, o
<1>8. CASE ~over
  <2>1. a = i \/ mk2[a] # Others(a)
    BY <1>5, <1>8 DEF own
  <2>2. Round(marked, t, i, ph, mk2, rs)
    BY <1>1, <1>2, <2>1, RoundReadsMark
  <2>3. Matches(t, ph, mk2, rs, stays, count)
    BY <1>1, <1>2, <1>3, MatchesAgain DEF i, own
  <2>4. RoundIs(t, marked, stays, count)
    BY <2>2, <2>3 DEF RoundIs, i
  <2> QED BY <1>6, <1>8, <2>4 DEF After, over, own, i, new, o
<1>9. CASE over
  <2> DEFINE ph2 == [c \in Agent |-> IF c = a THEN "done" ELSE ph[c]]
  <2>1. a # i /\ mk2[a] = Others(a)
    BY <1>5, <1>9 DEF own
  <2>2. Turns(ph, ph2, a, "done")
    BY DEF Turns
  <2>3. Sends(marked, sent, a, {i}, y)
    BY DEF Sends, Send, Others
  <2>4. ph2[a] = "done" /\ SameBut(a, ph, ph2)
    BY DEF SameBut
  <2> HIDE DEF ph2, sent
  <2>5. Round(sent, t, i, ph2, mk2, rs)
    BY <1>1, <1>2, <2>1, <2>2, <2>3, RoundAnswers
  <2>6. Matches(t, ph2, mk2, rs, gone, count)
    BY <1>1, <1>2, <2>4, MatchesAgain DEF i
  <2>7. RoundIs(t, sent, gone, count)
    BY <2>5, <2>6 DEF RoundIs, i
  <2>8. ~new.count.initiator
    BY <1>5, <1>6, <1>9
  <2> QED BY <1>6, <1>7, <1>9, <2>7, <2>8 DEF After, over, own, i, new, o, sent
<1> QED BY <1>8, <1>9

\* and a RESPONSE is, by the initiator.
LEMMA ReadsResp ==
    ASSUME NEW M, NEW a \in Agent, NEW b \in Others(a), NEW t \in Tokens,
           NEW ch \in Channels(M), NEW ph, NEW mk, NEW rs, Takes(t, a, ch, ph, mk, rs),
           HeadIs(ch, b, a, RespKinds, t), DOMAIN objs = Agent,
           CountIs(Joined(a, t), t, a, mk[a], rs[a]),
           NEW m, m.from = b, m.kind = "RESPONSE",
           NEW marked, Reads(ch, marked, b, a), NEW y
    PROVE  /\ After(t, a, Counted(Joined(a, t), m), m.kind, marked, y)
           /\ a = t[1]
<1> DEFINE i == t[1]
           o == Joined(a, t)
           new == Counted(o, m)
           rs2 == [c \in Agent |-> IF c = a THEN rs[c] \cup {b} ELSE rs[c]]
           over == Obj!Finished(new.count, m.kind)
           gone == [objs EXCEPT ![a] = Without(@, t)]
           stays == [objs EXCEPT ![a] = With(@, t, new)]
<1>0. Round(ch, t, i, ph, mk, rs) /\ i \in Agent
    BY DEF Takes, Tokens
<1>1. a = i
  <2> HIDE DEF i
  <2> QED BY <1>0, RoundAnswered
<1>2. /\ ph[a] = "in" /\ ~(t[2] > count[i])
      /\ CountIs(o, t, a, mk[a], rs[a]) /\ OthersMatch(t, a, ph, mk, rs, objs)
  <2> QED BY DEF Takes
<1>3. Hears(rs, rs2, a, b) /\ SameBut(a, rs, rs2) /\ SameBut(a, mk, mk) /\ SameBut(a, ph, ph)
    BY DEF Hears, SameBut
<1>4. CountIs(new, t, a, mk[a], rs2[a])
  <2>1. rs2[a] = rs[a] \cup {b}
    OBVIOUS
  <2> HIDE DEF o, rs2
  <2>2. /\ m.kind = "RESPONSE" => CountIs(Counted(o, m), t, a, mk[a], rs[a] \cup {b})
        /\ m.kind # "RESPONSE" => CountIs(Counted(o, m), t, a, mk[a] \cup {b}, rs[a])
    BY <1>2, CountedIs
  <2> QED BY <2>1, <2>2
<1>5. mk[a] \subseteq Others(a) /\ rs2[a] \subseteq Others(a) /\ Others(a) \subseteq Agent
    BY <1>0 DEF Round, AllHeard, Heard, Others
<1>6. over <=> rs2[a] = Others(a)
  <2>1. \A kind : Obj!Finished(new.count, kind) <=>
           IF kind = "RESPONSE" THEN rs2[a] = Others(a) ELSE t[1] # a /\ mk[a] = Others(a)
    <3> HIDE DEF new, rs2
    <3> QED BY <1>4, <1>5, FinishedIs
  <2> QED BY <2>1
<1>7. new.count \in Counts /\ new.count.initiator
  <2>1. /\ new.count.initiator <=> t[1] = a
        /\ mk[a] \subseteq Agent /\ rs2[a] \subseteq Agent => new.count \in Counts
    <3> HIDE DEF new
    <3> QED BY <1>4, CountFields
  <2> QED BY <1>1, <1>5, <2>1
<1> HIDE DEF rs2, new, over, i, o
<1>8. CASE ~over
  <2>1. IF rs2[a] = Others(a) THEN Turns(ph, ph, a, "done") ELSE ph = ph
    BY <1>6, <1>8
  <2>2. Round(marked, t, a, ph, mk, rs2)
    BY <1>0, <1>1, <1>3, <2>1, RoundReadsResp
  <2>3. Matches(t, ph, mk, rs2, stays, count)
    BY <1>2, <1>3, <1>4, MatchesAgain DEF i
  <2>4. RoundIs(t, marked, stays, count)
    BY <1>1, <2>2, <2>3 DEF RoundIs, i
  <2> QED BY <1>1, <1>7, <1>8, <2>4 DEF After, over, i, new, o
<1>9. CASE over
  <2> DEFINE ph2 == [c \in Agent |-> IF c = a THEN "done" ELSE ph[c]]
  <2>1. Turns(ph, ph2, a, "done")
    BY DEF Turns
  <2>4. ph2[a] = "done" /\ SameBut(a, ph, ph2)
    BY DEF SameBut
  <2> HIDE DEF ph2
  <2>2. IF rs2[a] = Others(a) THEN Turns(ph, ph2, a, "done") ELSE ph2 = ph
    BY <1>6, <1>9, <2>1
  <2>5. Round(marked, t, a, ph2, mk, rs2)
    BY <1>0, <1>1, <1>3, <2>2, RoundReadsResp
  <2>6. Matches(t, ph2, mk, rs2, gone, count)
    BY <1>2, <1>3, <2>4, MatchesAgain DEF i
  <2>7. RoundIs(t, marked, gone, count)
    BY <1>1, <2>5, <2>6 DEF RoundIs, i
  <2> QED BY <1>1, <1>7, <1>9, <2>7 DEF After, over, i, new, o
<1> QED BY <1>1, <1>8, <1>9 DEF i

-----------------------------------------------------------------------------
(* Reading a message of a snapshot *)

\* The cost a verification compares with is a number.
LEMMA LowestIs ==
    ASSUME NEW p, NEW a, NEW l \in Seq(Entries(p)), NEW c \in Int
    PROVE  LowestCost(a, l, c) \in Int
<1>1. TopCost(l) \in Int
  <2>1. CASE l = <<>>
    BY <2>1, CostAssumption DEF TopCost
  <2>2. CASE l # <<>>
    <3> DEFINE i == TopIndex(l)
    <3>1. i \in 1 .. Len(l)
      BY <2>2, TopIndexIn DEF Entries
    <3> HIDE DEF i
    <3>2. l[i] \in Entries(p)
      BY <3>1
    <3>3. l[i].f - l[i].h \in Int
      BY <3>2 DEF Entries
    <3> QED BY <2>2, <3>3 DEF TopCost, i
  <2> QED BY <2>1, <2>2
<1> QED BY <1>1 DEF LowestCost, Lesser

\* The object the message belongs to, but for who has heard what.
Records(p) == [lowest : Int, init : InitMsgs(p) \cup {<<>>}, ack : BOOLEAN]
IsRecord(p, o) ==
    /\ o = [count |-> o.count, lowest |-> o.lowest, init |-> o.init, ack |-> o.ack]
    /\ o.lowest \in Int /\ o.init \in InitMsgs(p) \cup {<<>>} /\ o.ack \in BOOLEAN

\* The object is a record like that, whether it was there or is new,
LEMMA JoinedIs ==
    ASSUME NEW p, NEW nd, ObjsOK(p, nd, objs), NEW a \in Agent, NEW t,
           list[a] \in Seq(Entries(p)), goalCost[a] \in Int
    PROVE  IsRecord(p, Joined(a, t))
<1>1. CASE t \in DOMAIN objs[a]
  <2>1. Joined(a, t) \in Objects(p)
    BY <1>1 DEF Joined, ObjsOK, ObjOK
  <2> QED BY <2>1 DEF Objects, IsRecord
<1>2. CASE t \notin DOMAIN objs[a]
  <2> DEFINE x == LowestCost(a, list[a], goalCost[a])
             n == Obj!NewObject(FALSE)
  <2>1. x \in Int
    BY LowestIs
  <2>2. Joined(a, t) = [count |-> n, lowest |-> x, init |-> <<>>, ack |-> TRUE]
    BY <1>2 DEF Joined, Verification
  <2> HIDE DEF x, n
  <2> QED BY <2>1, <2>2 DEF IsRecord
<1> QED BY <1>1, <1>2

\* and still is one when a message was counted.
LEMMA CountedRecord ==
    ASSUME NEW p, NEW o, IsRecord(p, o), NEW m \in Msgs(p)
    PROVE  /\ IsRecord(p, Counted(o, m))
           /\ Counted(o, m).init = IF m.kind = "INIT" THEN m ELSE o.init
<1> DEFINE c == Obj!Count(o.count, m.kind, m.from)
           init == IF m.kind = "INIT" THEN m ELSE o.init
           ack == o.ack /\ (m.kind = "RESPONSE" => m.ack)
<1>1. Counted(o, m) = [count |-> c, lowest |-> o.lowest, init |-> init, ack |-> ack]
  <2> HIDE DEF c, init, ack
  <2>1. o = [count |-> o.count, lowest |-> o.lowest, init |-> o.init, ack |-> o.ack]
    BY DEF IsRecord
  <2>2. Counted(o, m) = [o EXCEPT !.count = c, !.init = init, !.ack = ack]
    BY DEF Counted, c, init, ack
  <2> QED BY <2>1, <2>2
<1>2. init \in InitMsgs(p) \cup {<<>>} /\ ack \in BOOLEAN /\ o.lowest \in Int
    BY MsgKinds DEF IsRecord
<1>3. Counted(o, m).init = init
  <2> HIDE DEF c, init, ack
  <2> QED BY <1>1
<1>4. IsRecord(p, Counted(o, m))
  <2> HIDE DEF c, init, ack
  <2> QED BY <1>1, <1>2 DEF IsRecord
<1> QED BY <1>3, <1>4

\* Agent a counts the message m of a snapshot that it reads from b.
ReadsSnap(a, b, m, new, marked) ==
    /\ chan[b][a] # <<>> /\ m = Head(chan[b][a]) /\ m.kind \in Obj!SnapKinds
    /\ new = Counted(Joined(a, m.token), m)
    /\ marked = JoinMarks(a, m.token, Consume(chan, b, a))

\* What is read, what the agent then has of the verification, and what
\* becomes of the snapshot.
LEMMA SnapshotRead ==
    ASSUME NEW p, NEW nd, NEW a \in Agent, NEW b \in Others(a), NEW m, NEW new, NEW marked,
           ReadsSnap(a, b, m, new, marked),
           ChansOK(p, nd, chan), ObjsOK(p, nd, objs), RoundsOK(chan, objs, count),
           list[a] \in Seq(Entries(p)), goalCost[a] \in Int,
           NEW y \in Msgs(p), y.kind = "RESPONSE", y.token = m.token
    PROVE  /\ m.token \in Tokens
           /\ After(m.token, a, new, m.kind, marked, y)
           /\ ObjOK(p, nd, a, m.token, new)
           /\ m.token \notin DOMAIN objs[a] => a # m.token[1]
<1> DEFINE t == m.token
           o == Joined(a, t)
           x == SnapMark(t, a)
           ch == JoinMarks(a, t, chan)
           K == IF m.kind = "RESPONSE" THEN RespKinds ELSE MarkKinds
<1>0. /\ chan[b][a] # <<>> /\ m = Head(chan[b][a]) /\ m.kind \in Obj!SnapKinds
      /\ new = Counted(Joined(a, m.token), m)
      /\ marked = JoinMarks(a, m.token, Consume(chan, b, a))
    BY DEF ReadsSnap
<1>1. /\ chan \in Channels(Msgs(p)) /\ m \in Msgs(p) /\ Valid(nd, b, m)
      /\ b \in Agent /\ b # a
  <2>1. b \in Agent /\ b # a
    BY DEF Others
  <2> QED BY <1>0, <2>1, ChansConsume DEF ChansOK
<1>2. m.kind \in {"INIT", "MARK", "RESPONSE"}
    BY <1>0 DEF Obj!SnapKinds
<1>3. m.from = b /\ t \in Tokens /\ (m.kind \in MarkKinds => (m.kind = "INIT" <=> t[1] = b))
    BY <1>1, <1>2, MsgFields DEF Valid
<1>4. x \in Msgs(p)
    BY <1>3 DEF SnapMark, Msgs, MarkMsgs
<1>5. /\ K \in {MarkKinds, RespKinds} /\ Is(m, K, t)
      /\ m.kind = "RESPONSE" => K = RespKinds
      /\ m.kind # "RESPONSE" => K = MarkKinds
    BY <1>2 DEF Is, MarkKinds, RespKinds
<1> HIDE DEF K, t
<1>6. HeadIs(chan, b, a, K, t)
    BY <1>0, <1>5 DEF HeadIs
<1>7. RoundIs(t, chan, objs, count)
    BY <1>3 DEF RoundsOK
<1>8. PICK ph, mk, rs : Takes(t, a, JoinMarks(a, t, chan), ph, mk, rs)
    BY <1>1, <1>3, <1>4, <1>5, <1>6, <1>7, Joins
<1>9. /\ ch \in Channels(Msgs(p)) /\ ch[b][a] = chan[b][a]
      /\ Reads(ch, marked, b, a)
  <2>1. marked = JoinMarks(a, t, Consume(chan, b, a))
    BY <1>0 DEF t
  <2> QED BY <1>0, <1>1, <1>4, <2>1, JoinThenRead
<1> HIDE DEF ch
<1>10. HeadIs(ch, b, a, K, t)
    BY <1>6, <1>9 DEF HeadIs
<1>11. IsRecord(p, o)
    BY JoinedIs
<1>12. CountIs(o, t, a, mk[a], rs[a])
    BY <1>8, <1>11 DEF CountIs, IsRecord, Takes
<1>13. Takes(t, a, ch, ph, mk, rs)
    BY <1>8 DEF ch
<1>14. new = Counted(o, m)
    BY <1>0 DEF t
<1>15. After(t, a, new, m.kind, marked, y) /\ (m.kind = "RESPONSE" => a = t[1])
  <2>0. DOMAIN objs = Agent /\ y.token = t
    BY DEF ObjsOK, t
  <2>1. CASE m.kind = "RESPONSE"
    <3>1. HeadIs(ch, b, a, RespKinds, t)
      BY <1>5, <1>10, <2>1
    <3>2. /\ After(t, a, Counted(Joined(a, t), m), m.kind, marked, y)
          /\ a = t[1]
      BY <1>3, <1>9, <1>12, <1>13, <2>0, <2>1, <3>1, ReadsResp
    <3> QED BY <1>14, <3>2
  <2>2. CASE m.kind # "RESPONSE"
    <3>1. HeadIs(ch, b, a, MarkKinds, t)
      BY <1>5, <1>10, <2>2
    <3>2. After(t, a, Counted(Joined(a, t), m), m.kind, marked, y)
      BY <1>3, <1>9, <1>12, <1>13, <2>0, <2>2, <3>1, ReadsMark
    <3> QED BY <1>14, <2>2, <3>2
  <2> QED BY <2>1, <2>2
<1>16. /\ IsRecord(p, new)
       /\ new.init = IF m.kind = "INIT" THEN m ELSE o.init
    BY <1>1, <1>11, <1>14, CountedRecord
<1>17. /\ m.kind = "RESPONSE" => new.count.marks = mk[a]
       /\ m.kind # "RESPONSE" => new.count.marks = mk[a] \cup {b}
  <2>1. /\ m.kind = "RESPONSE" => CountIs(new, t, a, mk[a], rs[a] \cup {b})
        /\ m.kind # "RESPONSE" => CountIs(new, t, a, mk[a] \cup {b}, rs[a])
    <3> HIDE DEF o
    <3>1. /\ m.kind = "RESPONSE" => CountIs(Counted(o, m), t, a, mk[a], rs[a] \cup {b})
          /\ m.kind # "RESPONSE" => CountIs(Counted(o, m), t, a, mk[a] \cup {b}, rs[a])
      BY <1>3, <1>12, CountedIs
    <3> QED BY <1>14, <3>1
  <2> QED BY <2>1, CountFields
<1>18. ASSUME t[1] = a \/ t[1] \in new.count.marks
       PROVE  /\ new.init \in InitMsgs(p) /\ new.init.from = t[1]
              /\ Has(nd, t[1], new.init.s, new.init.cost)
  <2>1. CASE m.kind # "RESPONSE" /\ t[1] = b
    <3>1. m.kind = "INIT"
      BY <1>2, <1>3, <2>1 DEF MarkKinds
    <3>2. m \in InitMsgs(p) /\ Has(nd, b, m.s, m.cost) /\ new.init = m
      BY <1>1, <1>16, <3>1, MsgKinds DEF Valid
    <3> QED BY <1>3, <2>1, <3>2
  <2>2. CASE ~(m.kind # "RESPONSE" /\ t[1] = b)
    <3>1. m.kind # "INIT"
      BY <1>3, <2>2 DEF MarkKinds
    <3>2. t[1] = a \/ t[1] \in mk[a]
      BY <1>17, <1>18, <2>2
    <3>3. t \in DOMAIN objs[a]
      BY <1>13, <3>2 DEF Takes
    <3>4. o = objs[a][t]
      BY <3>3 DEF Joined
    <3>5. ObjOK(p, nd, a, t, o)
      BY <3>3, <3>4 DEF ObjsOK
    <3>6. o.count.marks = mk[a]
      BY <1>12, CountFields
    <3>7. o.init \in InitMsgs(p) /\ o.init.from = t[1] /\ Has(nd, t[1], o.init.s, o.init.cost)
      BY <3>2, <3>5, <3>6 DEF ObjOK
    <3> QED BY <1>16, <3>1, <3>7
  <2> QED BY <2>1, <2>2
<1>19. new \in Objects(p)
  <2>1. new.count \in Counts
    BY <1>15 DEF After
  <2> QED BY <1>16, <2>1 DEF IsRecord, Objects
<1>20. t \notin DOMAIN objs[a] => a # t[1]
    BY <1>13 DEF Takes
<1> QED BY <1>3, <1>15, <1>18, <1>19, <1>20 DEF ObjOK, t

\* Snapshot u goes on when agent a joins, answers and counts in snapshot t.
Along(u, t, a, ch) ==
    /\ RoundIs(u, ch, [objs EXCEPT ![a] = Without(@, t)], count)
    /\ \A new : RoundIs(u, ch, [objs EXCEPT ![a] = With(@, t, new)], count)

\* A message of snapshot t leaves every other snapshot as it was.
LEMMA OtherSnapshots ==
    ASSUME NEW M, chan \in Channels(M), NEW a \in Agent, NEW b \in Others(a),
           chan[b][a] # <<>>, NEW t, Head(chan[b][a]).token = t, SnapMark(t, a) \in M,
           NEW marked, marked = JoinMarks(a, t, Consume(chan, b, a)),
           NEW u \in Tokens, u # t, RoundIs(u, chan, objs, count), DOMAIN objs = Agent
    PROVE  /\ marked \in Channels(M)
           /\ Along(u, t, a, marked)
           /\ \A y \in M : y.token = t => \A S : Along(u, t, a, Send(marked, a, S, y))
<1> DEFINE x == SnapMark(t, a)
           ch1 == Consume(chan, b, a)
<1>1. b \in Agent /\ b # a
    BY DEF Others
<1>2. /\ Apart(Head(chan[b][a]), u)
      /\ \A y : y.token = t => Apart(y, u)
    BY DEF Apart, Is
<1>3. RoundIs(u, ch1, objs, count)
    BY <1>1, <1>2, TokenConsume
<1>4. ch1 \in Channels(M)
  <2>1. chan[b][a] \in Seq(M)
    BY <1>1 DEF Channels
  <2>2. Tail(chan[b][a]) \in Seq(M)
    BY <2>1, TailSeq
  <2> QED BY <1>1, <2>2 DEF Channels, Consume
<1> HIDE DEF ch1
<1>5. \A ch, S, y : ch \in Channels(M) /\ y \in M /\ y.token = t
                 /\ RoundIs(u, ch, objs, count) => RoundIs(u, Send(ch, a, S, y), objs, count)
    BY <1>2, TokenSend
<1>6. marked \in Channels(M) /\ RoundIs(u, marked, objs, count)
  <2>1. CASE t \in DOMAIN objs[a]
    <3>1. marked = ch1
      BY <2>1 DEF JoinMarks, ch1
    <3> QED BY <1>3, <1>4, <3>1
  <2>2. CASE t \notin DOMAIN objs[a]
    <3>1. marked = Send(ch1, a, Others(a), x)
      BY <2>2 DEF JoinMarks, ch1
    <3>2. x \in M /\ x.token = t
      BY DEF SnapMark
    <3> HIDE DEF x
    <3>3. RoundIs(u, Send(ch1, a, Others(a), x), objs, count)
      BY <1>3, <1>4, <1>5, <3>2
    <3>4. Send(ch1, a, Others(a), x) \in Channels(M)
      <4> DEFINE c2 == Send(ch1, a, Others(a), x)
      <4>1. ASSUME NEW p \in Agent, NEW q \in Agent
            PROVE  c2[p][q] \in Seq(M)
        <5>1. ch1[p][q] \in Seq(M) /\ Append(ch1[p][q], x) \in Seq(M)
          BY <1>4, <3>2, AppendSeq DEF Channels
        <5>2. c2[p][q] = IF p = a /\ q \in Others(a) THEN Append(ch1[p][q], x) ELSE ch1[p][q]
          BY DEF Send
        <5> HIDE DEF c2
        <5> QED BY <5>1, <5>2
      <4> QED BY <4>1 DEF Send, Channels
    <3> QED BY <3>1, <3>3, <3>4
  <2> QED BY <2>1, <2>2
<1>7. ASSUME NEW ch, RoundIs(u, ch, objs, count), NEW new
      PROVE  /\ RoundIs(u, ch, [objs EXCEPT ![a] = Without(@, t)], count)
             /\ RoundIs(u, ch, [objs EXCEPT ![a] = With(@, t, new)], count)
  <2> DEFINE ob2 == [objs EXCEPT ![a] = Without(@, t)]
             ob3 == [objs EXCEPT ![a] = With(@, t, new)]
  <2>1. SameObjects(u, objs, ob2)
    BY DEF SameObjects, Without
  <2>2. SameObjects(u, objs, ob3)
    BY DEF SameObjects, With
  <2>3. NotStarted(u, count, count)
    BY DEF NotStarted
  <2> HIDE DEF ob2, ob3
  <2>4. RoundIs(u, ch, ob2, count) /\ RoundIs(u, ch, ob3, count)
    BY <1>7, <2>1, <2>2, <2>3, TokenObjects
  <2> QED BY <2>4 DEF ob2, ob3
<1>8. \A ch : RoundIs(u, ch, objs, count) => Along(u, t, a, ch)
    BY <1>7 DEF Along
<1>9. ASSUME NEW y \in M, y.token = t, NEW S
      PROVE  Along(u, t, a, Send(marked, a, S, y))
  <2>1. RoundIs(u, Send(marked, a, S, y), objs, count)
    BY <1>5, <1>6, <1>9
  <2> QED BY <1>8, <2>1
<1> QED BY <1>6, <1>8, <1>9

\* The objects that are left are as they should be.
LEMMA ObjsSet ==
    ASSUME NEW p, NEW nd, NEW ob, ObjsOK(p, nd, ob), NEW a \in Agent, NEW t \in Tokens
    PROVE  /\ ObjsOK(p, nd, [ob EXCEPT ![a] = Without(@, t)])
           /\ \A new : ObjOK(p, nd, a, t, new) =>
                 ObjsOK(p, nd, [ob EXCEPT ![a] = With(@, t, new)])
<1>1. ObjsOK(p, nd, [ob EXCEPT ![a] = Without(@, t)])
  <2> DEFINE ob2 == [ob EXCEPT ![a] = Without(@, t)]
  <2>1. /\ DOMAIN ob2 = Agent
        /\ \A c \in Agent \ {a} : ob2[c] = ob[c]
        /\ \A u \in DOMAIN ob2[a] : u \in DOMAIN ob[a] /\ ob2[a][u] = ob[a][u]
    BY DEF ObjsOK, Without
  <2> HIDE DEF ob2
  <2>2. ObjsOK(p, nd, ob2)
    BY <2>1 DEF ObjsOK
  <2> QED BY <2>2 DEF ob2
<1>2. ASSUME NEW new, ObjOK(p, nd, a, t, new)
      PROVE  ObjsOK(p, nd, [ob EXCEPT ![a] = With(@, t, new)])
  <2> DEFINE ob2 == [ob EXCEPT ![a] = With(@, t, new)]
  <2>1. /\ DOMAIN ob2 = Agent
        /\ \A c \in Agent \ {a} : ob2[c] = ob[c]
        /\ \A u \in DOMAIN ob2[a] : \/ u = t /\ ob2[a][u] = new
                                    \/ u \in DOMAIN ob[a] /\ ob2[a][u] = ob[a][u]
    BY DEF ObjsOK, With
  <2> HIDE DEF ob2
  <2>2. ObjsOK(p, nd, ob2)
    BY <1>2, <2>1 DEF ObjsOK
  <2> QED BY <2>2 DEF ob2
<1> QED BY <1>1, <1>2

\* The channels and the objects after a message of a snapshot.
SnapOK(p, nd, ch, ob) == ChansOK(p, nd, ch) /\ ObjsOK(p, nd, ob) /\ RoundsOK(ch, ob, count)

\* a has read message m of a snapshot; new is its verification then, and
\* marked are the channels.
AfterSnap(p, nd, a, m, new, marked) ==
    /\ new.count.initiator <=> m.token[1] = a
    /\ ~Obj!Finished(new.count, m.kind) =>
          SnapOK(p, nd, marked, [objs EXCEPT ![a] = With(@, m.token, new)])
    /\ Obj!Finished(new.count, m.kind) =>
          /\ new.init \in InitMsgs(p) /\ new.init.from = m.token[1]
          /\ Has(nd, new.init.from, new.init.s, new.init.cost)
          /\ new.count.initiator =>
                SnapOK(p, nd, marked, [objs EXCEPT ![a] = Without(@, m.token)])
          /\ ~new.count.initiator =>
                SnapOK(p, nd, Send(marked, a, {new.init.from},
                                   SnapResponse(m.token, a, Acks(new))),
                       [objs EXCEPT ![a] = Without(@, m.token)])

\* Whatever the message is, the channels and the objects stay valid.
LEMMA SnapshotEffect ==
    ASSUME NEW p, NEW nd, SnapOK(p, nd, chan, objs),
           NEW a \in Agent, NEW b \in Others(a), NEW m, NEW new, NEW marked,
           ReadsSnap(a, b, m, new, marked),
           list[a] \in Seq(Entries(p)), goalCost[a] \in Int
    PROVE  AfterSnap(p, nd, a, m, new, marked)
<1> DEFINE t == m.token
           M == Msgs(p)
           gone == [objs EXCEPT ![a] = Without(@, t)]
           stays == [objs EXCEPT ![a] = With(@, t, new)]
           over == Obj!Finished(new.count, m.kind)
           y == SnapResponse(m.token, a, Acks(new))
           sent == Send(marked, a, {t[1]}, y)
<1>0. /\ chan[b][a] # <<>> /\ m = Head(chan[b][a]) /\ m.kind \in Obj!SnapKinds
      /\ new = Counted(Joined(a, m.token), m)
      /\ marked = JoinMarks(a, m.token, Consume(chan, b, a))
    BY DEF ReadsSnap
<1>1. /\ ChansOK(p, nd, chan) /\ ObjsOK(p, nd, objs) /\ RoundsOK(chan, objs, count)
      /\ chan \in Channels(M) /\ DOMAIN objs = Agent
    BY DEF SnapOK, ChansOK, ObjsOK
<1>2. m \in M /\ b \in Agent /\ b # a
  <2>1. b \in Agent /\ b # a
    BY DEF Others
  <2> QED BY <1>0, <1>1, <2>1, ChansConsume
<1>3. t \in Tokens
    BY <1>0, <1>2, MsgFields DEF Obj!SnapKinds
<1>4. /\ y \in M /\ y.kind = "RESPONSE" /\ y.token = t /\ Valid(nd, a, y)
      /\ SnapMark(t, a) \in M
  <2> DEFINE ack == Acks(new)
  <2>1. ack \in BOOLEAN
    BY DEF Acks
  <2> HIDE DEF ack, t
  <2>2. y = SnapResponse(t, a, ack)
    BY DEF t, ack, y
  <2>3. /\ y \in RespMsgs /\ y.kind = "RESPONSE" /\ y.token = t /\ y.from = a
        /\ SnapMark(t, a) \in MarkMsgs
    BY <1>3, <2>1, <2>2 DEF SnapResponse, RespMsgs, SnapMark, MarkMsgs
  <2> QED BY <2>3 DEF Msgs, Valid, MarkKinds
<1> HIDE DEF y
<1>5. /\ After(t, a, new, m.kind, marked, y)
      /\ ObjOK(p, nd, a, t, new)
      /\ t \notin DOMAIN objs[a] => a # t[1]
  <2>1. y \in Msgs(p) /\ y.kind = "RESPONSE" /\ y.token = m.token
    BY <1>4
  <2>2. /\ m.token \in Tokens
        /\ After(m.token, a, new, m.kind, marked, y)
        /\ ObjOK(p, nd, a, m.token, new)
        /\ m.token \notin DOMAIN objs[a] => a # m.token[1]
    BY <1>1, <2>1, SnapshotRead
  <2> QED BY <2>2
<1>6. ChansOK(p, nd, marked)
  <2>1. ChansOK(p, nd, Consume(chan, b, a))
    BY <1>0, <1>1, <1>2, ChansConsume
  <2>2. CASE t \in DOMAIN objs[a]
    BY <1>0, <2>1, <2>2 DEF JoinMarks
  <2>3. CASE t \notin DOMAIN objs[a]
    <3>1. Valid(nd, a, SnapMark(t, a))
      BY <1>5, <2>3 DEF SnapMark, Valid, MarkKinds
    <3>2. ChansOK(p, nd, Send(Consume(chan, b, a), a, Others(a), SnapMark(t, a)))
      BY <1>4, <2>1, <3>1, ChansSend
    <3> QED BY <1>0, <2>3, <3>2 DEF JoinMarks
  <2> QED BY <2>2, <2>3
<1>7. ChansOK(p, nd, sent)
  <2> HIDE DEF t
  <2> QED BY <1>4, <1>6, ChansSend
<1>8. ObjsOK(p, nd, gone) /\ ObjsOK(p, nd, stays)
  <2> HIDE DEF t
  <2> QED BY <1>1, <1>3, <1>5, ObjsSet
<1>9. ASSUME NEW u \in Tokens, u # t
      PROVE  /\ RoundIs(u, marked, stays, count)
             /\ RoundIs(u, marked, gone, count)
             /\ RoundIs(u, sent, gone, count)
  <2>1. RoundIs(u, chan, objs, count)
    BY <1>1 DEF RoundsOK
  <2>0. Head(chan[b][a]).token = t /\ marked = JoinMarks(a, t, Consume(chan, b, a))
    BY <1>0
  <2> HIDE DEF t, M
  <2>2. /\ marked \in Channels(M)
        /\ Along(u, t, a, marked)
        /\ \A z \in M : z.token = t => \A S : Along(u, t, a, Send(marked, a, S, z))
    BY <1>0, <1>1, <1>4, <1>9, <2>0, <2>1, OtherSnapshots
  <2>3. Along(u, t, a, sent)
    BY <1>4, <2>2
  <2> HIDE DEF sent
  <2> QED BY <2>2, <2>3 DEF Along
<1> HIDE DEF gone, stays, sent
<1>10. CASE ~over
  <2>1. RoundIs(t, marked, stays, count)
    BY <1>5, <1>10 DEF After, stays
  <2>2. RoundsOK(marked, stays, count)
    BY <1>9, <2>1 DEF RoundsOK
  <2> QED BY <1>5, <1>6, <1>8, <1>10, <2>2 DEF SnapOK, After, AfterSnap, stays
<1>11. CASE over
  <2>1. t[1] = a \/ t[1] \in new.count.marks
    BY <1>5, <1>11 DEF After
  <2>2. /\ new.init \in InitMsgs(p) /\ new.init.from = t[1]
        /\ Has(nd, new.init.from, new.init.s, new.init.cost)
    BY <1>5, <2>1 DEF ObjOK
  <2>3. ASSUME new.count.initiator
        PROVE  SnapOK(p, nd, marked, gone)
    <3>1. RoundIs(t, marked, gone, count)
      BY <1>5, <1>11, <2>3 DEF After, gone
    <3>2. RoundsOK(marked, gone, count)
      BY <1>9, <3>1 DEF RoundsOK
    <3> QED BY <1>6, <1>8, <3>2 DEF SnapOK
  <2>4. ASSUME ~new.count.initiator
        PROVE  SnapOK(p, nd, sent, gone)
    <3>1. RoundIs(t, sent, gone, count)
      BY <1>5, <1>11, <2>4 DEF After, gone, sent
    <3>2. RoundsOK(sent, gone, count)
      BY <1>9, <3>1 DEF RoundsOK
    <3> QED BY <1>7, <1>8, <3>2 DEF SnapOK
  <2>5. new.count.initiator <=> t[1] = a
    BY <1>5 DEF After
  <2> QED BY <1>11, <2>2, <2>3, <2>4, <2>5 DEF AfterSnap, gone, sent, y
<1> QED BY <1>10, <1>11

-----------------------------------------------------------------------------
(* What the actions are made of *)

\* Nodes, lists and successors that may follow.
Follow(nd2, ls2, ds2) == /\ AgentsOK(problem, nd2, ls2, ds2)
                         /\ \A b \in Agent : Grown(problem, node[b], nd2[b])

\* An agent moves to other nodes, another list and other successors.
LEMMA Moves ==
    ASSUME AgentsOK(problem, node, list, doing), NEW a \in Agent, NEW m, NEW l, NEW d,
           PartOK(problem, node, a, m, l, Awaited(d)), DoingOK(problem, m, d)
    PROVE  Follow([node EXCEPT ![a] = m], [list EXCEPT ![a] = l], [doing EXCEPT ![a] = d])
BY AgentStep DEF Follow

\* The same when it has no other successors,
LEMMA MovesHere ==
    ASSUME AgentsOK(problem, node, list, doing), NEW a \in Agent, NEW m, NEW l,
           PartOK(problem, node, a, m, l, Awaited(doing[a])),
           \A x \in States : node[a][x].st # "NEW" => m[x].st # "NEW"
    PROVE  Follow([node EXCEPT ![a] = m], [list EXCEPT ![a] = l], doing)
<1>1. doing = [doing EXCEPT ![a] = doing[a]] /\ DoingOK(problem, node[a], doing[a])
    BY DEF AgentsOK
<1>2. DoingOK(problem, m, doing[a])
  <2>1. doing[a] \in Seq(Pendings(problem))
    BY <1>1 DEF DoingOK
  <2>2. ASSUME NEW k \in 1 .. Len(doing[a])
        PROVE  doing[a][k].op.from \in States
    <3>1. doing[a][k] \in Pendings(problem)
      BY <2>1
    <3> QED BY <3>1 DEF Pendings, Ops, States
  <2> QED BY <1>1, <2>2 DEF DoingOK
<1>3. Follow([node EXCEPT ![a] = m], [list EXCEPT ![a] = l], [doing EXCEPT ![a] = doing[a]])
    BY <1>2, Moves
<1> QED BY <1>1, <1>3

\* and when it puts a node into its list.
LEMMA Inserts ==
    ASSUME AgentsOK(problem, node, list, doing), NEW a \in Agent, NEW s \in States,
           NEW n \in Nodes(problem), n.cost >= 0,
           s # problem.init => Sound(node, a, n, s),
           node[a][s].st # "NEW" => n.cost <= node[a][s].cost,
           NEW r, r = InsertNode(a, node[a], list[a], n, s)
    PROVE  Follow([node EXCEPT ![a] = r.node], [list EXCEPT ![a] = r.list], doing)
<1> DEFINE W == Awaited(doing[a])
<1>1. /\ node \in [Agent -> [problem.states -> Nodes(problem)]]
      /\ PartOK(problem, node, a, node[a], list[a], W)
      /\ s \in problem.states /\ a \in Agent /\ n \in Nodes(problem) /\ n.cost >= 0
      /\ s # problem.init => Sound(node, a, n, s)
      /\ node[a][s].st # "NEW" => n.cost <= node[a][s].cost
      /\ r = InsertNode(a, node[a], list[a], n, s)
    BY DEF AgentsOK, States
<1> HIDE DEF W
<1>2. /\ PartOK(problem, node, a, r.node, r.list, W)
      /\ r.node[s].st # "NEW"
      /\ \A x \in problem.states : node[a][x].st # "NEW" => r.node[x].st # "NEW"
    BY ONLY <1>1, InsertKeeps
<1>3. /\ PartOK(problem, node, a, r.node, r.list, Awaited(doing[a]))
      /\ \A x \in States : node[a][x].st # "NEW" => r.node[x].st # "NEW"
    BY <1>2 DEF States, W
<1> QED BY <1>3, MovesHere

\* What was sent and recorded stays true.
LEMMA SnapGrown ==
    ASSUME AgentsOK(problem, node, list, doing), NEW nd2, NEW ls2, NEW ds2,
           Follow(nd2, ls2, ds2), NEW ch, NEW ob, SnapOK(problem, node, ch, ob)
    PROVE  SnapOK(problem, nd2, ch, ob)
<1>1. /\ node \in [Agent -> [problem.states -> Nodes(problem)]]
      /\ nd2 \in [Agent -> [problem.states -> Nodes(problem)]]
      /\ \A b \in Agent : Grown(problem, node[b], nd2[b])
    BY DEF Follow, AgentsOK
<1>2. ChansOK(problem, nd2, ch) /\ ObjsOK(problem, nd2, ob)
    BY <1>1, ChansGrown, ObjsGrown DEF SnapOK
<1> QED BY <1>2 DEF SnapOK

\* A message that is not of a snapshot is sent.
LEMMA SnapSend ==
    ASSUME NEW p, NEW nd, NEW ch, NEW ob, SnapOK(p, nd, ch, ob), NEW a \in Agent, NEW S,
           NEW m \in Msgs(p), Valid(nd, a, m), m.kind \in {"PUBLIC_STATE", "TRACE_PATH"}
    PROVE  SnapOK(p, nd, Send(ch, a, S, m), ob)
<1>1. ch \in Channels(Msgs(p)) /\ ChansOK(p, nd, ch) /\ RoundsOK(ch, ob, count)
    BY DEF SnapOK, ChansOK
<1>2. ChansOK(p, nd, Send(ch, a, S, m)) /\ RoundsOK(Send(ch, a, S, m), ob, count)
    BY <1>1, ChansSend, RoundsSend
<1> QED BY <1>2 DEF SnapOK

\* A message that is not of a snapshot is read.
LEMMA SnapConsume ==
    ASSUME NEW p, NEW nd, SnapOK(p, nd, chan, objs), NEW a \in Agent, NEW b \in Agent,
           chan[b][a] # <<>>, Head(chan[b][a]).kind \in {"PUBLIC_STATE", "TRACE_PATH"}
    PROVE  SnapOK(p, nd, Consume(chan, b, a), objs)
<1>1. chan \in Channels(Msgs(p)) /\ ChansOK(p, nd, chan) /\ RoundsOK(chan, objs, count)
    BY DEF SnapOK, ChansOK
<1>2. ChansOK(p, nd, Consume(chan, b, a)) /\ RoundsOK(Consume(chan, b, a), objs, count)
    BY <1>1, ChansConsume, RoundsConsume
<1> QED BY <1>2 DEF SnapOK

\* Tracing sends at most a message with the path so far.
LEMMA TraceEffect ==
    ASSUME problem \in Problems, NEW nd, NEW ch, NEW ob, SnapOK(problem, nd, ch, ob),
           NEW a \in Agent, node'[a] \in [States -> Nodes(problem)],
           NEW s \in States, NEW c \in Int, NEW w \in Agent, Trace(a, s, c, w, ch)
    PROVE  SnapOK(problem, nd, chan', ob)
<1> DEFINE root == Ancestor(node'[a], s)
           cost == c + root.cost
           from == node'[a][root.s].pub
<1>1. root.s \in States /\ cost \in Int
    BY AncestorState
<1>2. from \in Agent \cup {NoAgent}
    BY <1>1 DEF Nodes
<1> HIDE DEF root, cost, from
<1>3. \/ chan' = ch
      \/ \E x : chan' = Send(ch, a, {x}, TracePath(NoState, cost, w))
      \/ \E x : chan' = Send(ch, a, {x}, TracePath(root.s, cost, w))
    BY DEF Trace, root, cost, from
<1>4. ASSUME NEW x, NEW z \in States \cup {NoState}
      PROVE  SnapOK(problem, nd, Send(ch, a, {x}, TracePath(z, cost, w)), ob)
  <2> DEFINE m == TracePath(z, cost, w)
  <2>1. m \in Msgs(problem) /\ m.kind = "TRACE_PATH"
    BY <1>1 DEF TracePath, Msgs, TraceMsgs, States
  <2> HIDE DEF m
  <2>2. Valid(nd, a, m)
    BY <2>1 DEF Valid, MarkKinds
  <2>3. SnapOK(problem, nd, Send(ch, a, {x}, m), ob)
    BY <2>1, <2>2, SnapSend
  <2> QED BY <2>3 DEF m
<1> QED BY <1>1, <1>3, <1>4

-----------------------------------------------------------------------------
(* The actions keep the invariant *)

\* What the invariant says of a state,
LEMMA InvNow ==
    ASSUME SearchInv
    PROVE  /\ problem \in Problems
           /\ goalCost \in [Agent -> Int] /\ count \in [Agent -> Nat]
           /\ AgentsOK(problem, node, list, doing)
           /\ SnapOK(problem, node, chan, objs)
           /\ node \in [Agent -> [problem.states -> Nodes(problem)]]
           /\ list \in [Agent -> Seq(Entries(problem))]
           /\ doing \in [Agent -> Seq(Pendings(problem))]
           /\ \A a \in Agent :
                 /\ PartOK(problem, node, a, node[a], list[a], Awaited(doing[a]))
                 /\ DoingOK(problem, node[a], doing[a])
BY DEF SearchInv, SnapOK, AgentsOK

\* and what of a step it takes to keep it.
LEMMA InvNext ==
    ASSUME SearchInv, problem' = problem, goalCost' \in [Agent -> Int], count' = count,
           Follow(node', list', doing'), SnapOK(problem, node', chan', objs')
    PROVE  SearchInv'
BY DEF SearchInv, SnapOK, Follow

\* A step that only an agent's nodes, list and successors take part in.
LEMMA InvMoves ==
    ASSUME SearchInv, Follow(node', list', doing'),
           UNCHANGED <<problem, goalCost, objs, count, chan>>
    PROVE  SearchInv'
<1>1. SnapOK(problem, node', chan, objs)
    BY InvNow, SnapGrown
<1> QED BY <1>1, InvNow, InvNext

\* The first entry of the list.
LEMMA TopIs ==
    ASSUME SearchInv, NEW a \in Agent, list[a] # <<>>
    PROVE  TopIndex(list[a]) \in 1 .. Len(list[a])
<1>1. list[a] \in Seq(Entries(problem))
    BY InvNow
<1> QED BY <1>1, TopIndexIn DEF Entries

\* The entry of a state that was expanded already is dropped.
LEMMA DropInv ==
    ASSUME SearchInv, NEW a \in Agent, list[a] # <<>>,
           NEW i, i = TopIndex(list[a]), node[a][list[a][i].s].st # "OPEN",
           list' = [list EXCEPT ![a] = RemoveAt(list[a], i)],
           UNCHANGED <<problem, node, doing, goalCost, objs, count, chan>>
    PROVE  SearchInv'
<1> DEFINE W == Awaited(doing[a])
<1>1. i \in 1 .. Len(list[a]) /\ PartOK(problem, node, a, node[a], list[a], W)
    BY TopIs, InvNow
<1> HIDE DEF W
<1>2. PartOK(problem, node, a, node[a], RemoveAt(list[a], i), W)
    BY <1>1, DropKeeps
<1>3. Follow([node EXCEPT ![a] = node[a]], [list EXCEPT ![a] = RemoveAt(list[a], i)], doing)
    BY <1>2, InvNow, MovesHere DEF W
<1>4. node' = [node EXCEPT ![a] = node[a]]
    BY InvNow
<1>5. Follow(node', list', doing')
    BY <1>3, <1>4
<1> QED BY <1>5, InvMoves

\* The open state s of agent a is taken from the list, and closed: n is its
\* node and l the list then.
Closing(a, s, n, l) ==
    /\ s \in States /\ n \in Nodes(problem) /\ n.cost \in Nat
    /\ Has(node, a, s, n.cost)
    /\ PartOK(problem, node, a, [node[a] EXCEPT ![s] = n], l, {})
    /\ \A x \in States : node[a][x].st # "NEW" => [node[a] EXCEPT ![s] = n][x].st # "NEW"
    /\ [node[a] EXCEPT ![s] = n][s] = n

\* The state at the top of the list is, when it is open.
LEMMA Closes ==
    ASSUME SearchInv, NEW a \in Agent, list[a] # <<>>, doing[a] = <<>>,
           NEW i, i = TopIndex(list[a]), node[a][list[a][i].s].st = "OPEN"
    PROVE  Closing(a, list[a][i].s, [node[a][list[a][i].s] EXCEPT !.st = "CLOSED"],
                   RemoveAt(list[a], i))
<1> DEFINE s == list[a][i].s
           n == Closed(node[a][s])
           m == [node[a] EXCEPT ![s] = n]
           l == RemoveAt(list[a], i)
           W == Awaited(doing[a])
<1>1. /\ i \in 1 .. Len(list[a]) /\ W = {}
      /\ PartOK(problem, node, a, node[a], list[a], W)
      /\ node \in [Agent -> [problem.states -> Nodes(problem)]]
    BY TopIs, InvNow DEF Awaited
<1>2. s = list[a][i].s /\ node[a][s].st = "OPEN"
    OBVIOUS
<1> HIDE DEF s, W
<1>3. /\ PartOK(problem, node, a, m, l, W)
      /\ s \in problem.states /\ n \in Nodes(problem)
      /\ n.st = "CLOSED" /\ n.cost = node[a][s].cost /\ m[s] = n
      /\ \A x \in problem.states : node[a][x].st # "NEW" => m[x].st # "NEW"
  <2>1. EntryIs(list[a], i, s)
    BY <1>1, <1>2 DEF EntryIs
  <2>2. ClosedIn(problem, node, a, s, RemoveAt(list[a], i), W)
    BY <1>1, <1>2, <2>1, CloseKeeps
  <2> QED BY <2>2 DEF ClosedIn
<1>4. s \in States /\ PartOK(problem, node, a, m, l, {})
    BY <1>1, <1>3 DEF States
<1>5. node[a][s].cost \in Int /\ node[a][s].cost >= 0
  <2>1. NodeOK(problem, node, a, node[a][s], s) /\ node[a][s] \in Nodes(problem)
    BY <1>1, <1>3 DEF PartOK
  <2>2. node[a][s].st # "NEW"
    BY <1>2
  <2>3. node[a][s].cost \in Int
    BY ONLY <2>1 DEF Nodes
  <2>4. node[a][s].cost >= 0
    BY ONLY <2>1, <2>2 DEF NodeOK
  <2> QED BY <2>3, <2>4
<1> HIDE DEF n, l
<1>6. n.cost \in Nat /\ Has(node, a, s, n.cost)
  <2>1. n.cost = node[a][s].cost /\ node[a][s].st # "NEW"
    BY <1>2, <1>3
  <2> QED BY ONLY <1>5, <2>1 DEF Has
<1>7. Closing(a, s, n, l)
    BY <1>3, <1>4, <1>6 DEF Closing, States
<1> QED BY <1>7 DEF s, n, l, Closed

\* A verification is started: its INIT message goes to all others.
LEMMA StartEffect ==
    ASSUME problem \in Problems, count \in [Agent -> Nat], NEW a \in Agent,
           SnapOK(problem, node', chan, objs), NEW s \in States, NEW l \in Seq(Entries(problem)),
           goalCost'[a] \in Int, node'[a][s] \in Nodes(problem),
           node'[a][s].st # "NEW", node'[a][s].cost \in Nat, StartVerification(a, s, l)
    PROVE  /\ ChansOK(problem, node', chan') /\ ObjsOK(problem, node', objs')
           /\ RoundsOK(chan', objs', count') /\ count' \in [Agent -> Nat]
<1> DEFINE t == <<a, count[a] + 1>>
           m == SnapInit(t, s, node'[a][s], a)
           lowest == LowestCost(a, l, goalCost'[a])
           o == Verification(TRUE, lowest, m)
           M == Msgs(problem)
<1>1. /\ count' = [count EXCEPT ![a] = @ + 1]
      /\ objs' = [objs EXCEPT ![a] = [u \in DOMAIN @ \cup {t} |-> IF u = t THEN o ELSE @[u]]]
      /\ chan' = Send(chan, a, Others(a), m)
    BY DEF StartVerification
<1>2. /\ ChansOK(problem, node', chan) /\ ObjsOK(problem, node', objs)
      /\ RoundsOK(chan, objs, count) /\ chan \in Channels(M) /\ DOMAIN objs = Agent
    BY DEF SnapOK, ChansOK, ObjsOK
<1>3. t \in Tokens /\ t[1] = a /\ lowest \in Int
    BY LowestIs DEF Tokens
<1>4. t = <<a, count[a] + 1>>
    OBVIOUS
<1> HIDE DEF t, lowest
<1>5. /\ m \in InitMsgs(problem) /\ m \in M /\ m.kind = "INIT" /\ m.token = t
      /\ m.from = a /\ m.s = s /\ m.cost = node'[a][s].cost
    BY <1>3 DEF SnapInit, InitMsgs, Msgs, Nodes, States
<1> HIDE DEF m
<1>6. Has(node', a, m.s, m.cost)
    BY <1>5 DEF Has
<1>7. Valid(node', a, m)
    BY <1>3, <1>5, <1>6 DEF Valid, MarkKinds
<1>8. ChansOK(problem, node', chan')
    BY <1>1, <1>2, <1>5, <1>7, ChansSend
<1>9. /\ o.count = [initiator |-> TRUE, marks |-> {}, resps |-> {}]
      /\ o = [count |-> o.count, lowest |-> lowest, init |-> m, ack |-> TRUE]
    BY DEF Verification, Obj!NewObject
<1> HIDE DEF o
<1>10. RoundsOK(chan', objs', count')
  <2>1. Starts(a, t, o, objs, count, objs', count')
    BY <1>1, <1>4, <1>9 DEF Starts, With
  <2>2. RoundsOK(Send(chan, a, Others(a), m), objs', count')
    BY <1>2, <1>5, <2>1, RoundsStart
  <2> QED BY <1>1, <2>2
<1>11. ObjOK(problem, node', a, t, o)
  <2> DEFINE c == o.count
  <2>1. c \in Counts
    BY <1>9 DEF Counts
  <2>3. o = [count |-> c, lowest |-> lowest, init |-> m, ack |-> TRUE]
    BY <1>9
  <2> HIDE DEF c
  <2>2. o \in Objects(problem) /\ o.init = m
    BY <1>3, <1>5, <2>1, <2>3 DEF Objects
  <2> QED BY <1>3, <1>5, <1>6, <2>2 DEF ObjOK
<1>12. ObjsOK(problem, node', objs')
  <2>1. [objs EXCEPT ![a] = With(@, t, o)] = objs'
    BY <1>1 DEF With
  <2>2. ObjsOK(problem, node', [objs EXCEPT ![a] = With(@, t, o)])
    BY <1>2, <1>3, <1>11, ObjsSet
  <2> QED BY <2>1, <2>2
<1>13. count' \in [Agent -> Nat]
    BY <1>1
<1> QED BY <1>8, <1>10, <1>12, <1>13

\* A goal is reached.
LEMMA ReachInv ==
    ASSUME SearchInv, NEW a \in Agent, doing[a] = <<>>, NEW s, NEW n, NEW l,
           Closing(a, s, n, l), problem' = problem, ReachGoal(a, s, n, l)
    PROVE  SearchInv'
<1> DEFINE m == [node[a] EXCEPT ![s] = n]
<1>1. /\ node' = [node EXCEPT ![a] = m] /\ list' = [list EXCEPT ![a] = l]
      /\ doing' = doing
    BY DEF ReachGoal
<1>2. /\ s \in States /\ n \in Nodes(problem) /\ n.cost \in Nat /\ m[s] = n
      /\ Has(node, a, s, n.cost)
      /\ PartOK(problem, node, a, m, l, {})
      /\ \A x \in States : node[a][x].st # "NEW" => m[x].st # "NEW"
    BY DEF Closing
<1> HIDE DEF m
<1>3. Follow(node', list', doing')
  <2>1. PartOK(problem, node, a, m, l, Awaited(doing[a]))
    BY <1>2 DEF Awaited
  <2>2. Follow([node EXCEPT ![a] = m], [list EXCEPT ![a] = l], doing)
    BY <1>2, <2>1, InvNow, MovesHere
  <2> QED BY <1>1, <2>2
<1>4. SnapOK(problem, node', chan, objs)
    BY <1>3, InvNow, SnapGrown
<1>5. node'[a] \in [States -> Nodes(problem)] /\ node'[a][s] = n /\ n.st # "NEW"
  <2>1. node'[a] = m
    BY <1>1, InvNow
  <2>2. m \in [States -> Nodes(problem)]
    BY <1>2 DEF PartOK, States
  <2>3. n.st # "NEW"
    BY <1>2 DEF Has
  <2> QED BY <1>2, <2>1, <2>2, <2>3
<1>6. CASE ~TakesGoal(a, s, n)
  <2>1. UNCHANGED <<goalCost, objs, count, chan>>
    BY <1>6 DEF ReachGoal
  <2> QED BY <1>3, <2>1, InvMoves
<1>7. CASE TakesGoal(a, s, n)
  <2>1. goalCost' = [goalCost EXCEPT ![a] = n.cost]
    BY <1>7 DEF ReachGoal
  <2>2. goalCost' \in [Agent -> Int] /\ goalCost'[a] \in Int
    BY <1>2, <2>1, InvNow
  <2>3. CASE Verify
    <3>1. StartVerification(a, s, l)
      BY <1>7, <2>3 DEF ReachGoal
    <3>2. l \in Seq(Entries(problem))
      BY <1>2 DEF PartOK
    <3>3. /\ ChansOK(problem, node', chan') /\ ObjsOK(problem, node', objs')
          /\ RoundsOK(chan', objs', count') /\ count' \in [Agent -> Nat]
      BY <1>2, <1>4, <1>5, <2>2, <3>1, <3>2, InvNow, StartEffect
    <3> QED BY <1>3, <2>2, <3>3, InvNow DEF SearchInv, Follow
  <2>4. CASE ~Verify
    <3>1. Trace(a, s, 0, a, chan) /\ objs' = objs /\ count' = count
      BY <1>7, <2>4 DEF ReachGoal
    <3>2. SnapOK(problem, node', chan', objs)
      <4>1. /\ problem \in Problems /\ node'[a] \in [States -> Nodes(problem)]
            /\ s \in States /\ 0 \in Int /\ Trace(a, s, 0, a, chan)
        BY <1>2, <1>5, <3>1, InvNow
      <4> QED BY ONLY <1>4, <4>1, TraceEffect
    <3> QED BY <1>3, <2>2, <3>1, <3>2, InvNext
  <2> QED BY <2>3, <2>4
<1> QED BY <1>6, <1>7

\* Successors to be generated one at a time.
LEMMA PendingIs ==
    ASSUME problem \in Problems, NEW a \in Agent, NEW s \in States,
           NEW m, m[s].st # "NEW"
    PROVE  DoingOK(problem, m, Pending(OpsOf(a, s))) /\ Awaited(Pending(OpsOf(a, s))) = {}
<1> DEFINE ops == OpsOf(a, s)
           d == Pending(ops)
<1>1. ops \in Seq(Ops(problem)) /\ \A k \in 1 .. Len(ops) : ops[k].from = s
    BY ProblemFacts
<1> HIDE DEF ops
<1>2. Len(ops) \in Nat /\ DOMAIN ops = 1 .. Len(ops) /\ \A k \in 1 .. Len(ops) : ops[k] \in Ops(problem)
    BY <1>1
<1>3. d = [k \in 1 .. Len(ops) |-> [op |-> ops[k], g |-> NotAsked]]
    BY <1>2 DEF Pending
<1>4. \A k \in 1 .. Len(ops) : [op |-> ops[k], g |-> NotAsked] \in Pendings(problem)
    BY <1>2 DEF Pendings
<1>5. d \in Seq(Pendings(problem)) /\ Len(d) = Len(ops)
    BY <1>2, <1>3, <1>4
<1>6. \A k \in 1 .. Len(d) : d[k].op.from = s /\ d[k].g = NotAsked
    BY <1>1, <1>3, <1>5
<1> HIDE DEF d
<1>7. DoingOK(problem, m, d)
    BY <1>5, <1>6 DEF DoingOK
<1>8. Awaited(d) = {}
  <2>1. CASE d = <<>>
    BY <2>1 DEF Awaited
  <2>2. CASE d # <<>>
    <3>1. Head(d) = d[1] /\ 1 \in 1 .. Len(d)
      BY <1>5, <2>2
    <3>2. Head(d).g = NotAsked
      BY <1>6, <3>1
    <3> QED BY <3>2 DEF Awaited
  <2> QED BY <2>1, <2>2
<1> QED BY <1>7, <1>8 DEF d, ops

\* A state is expanded.
LEMMA ExpandInv ==
    ASSUME SearchInv, NEW a \in Agent, doing[a] = <<>>, NEW s, NEW n, NEW l,
           Closing(a, s, n, l), problem' = problem, ExpandNode(a, s, n, l)
    PROVE  SearchInv'
<1> DEFINE m == [node[a] EXCEPT ![s] = n]
           msg == PublicState(s, n, a)
<1>2. /\ s \in States /\ n \in Nodes(problem) /\ n.cost \in Nat /\ m[s] = n
      /\ Has(node, a, s, n.cost)
      /\ PartOK(problem, node, a, m, l, {})
      /\ \A x \in States : node[a][x].st # "NEW" => m[x].st # "NEW"
    BY DEF Closing
<1>3. Follow(node', list', doing')
  <2>1. CASE MAHeur
    <3> DEFINE d == Pending(OpsOf(a, s))
    <3>1. /\ node' = [node EXCEPT ![a] = m] /\ list' = [list EXCEPT ![a] = l]
          /\ doing' = [doing EXCEPT ![a] = d]
      BY <2>1 DEF ExpandNode
    <3> HIDE DEF m
    <3>2. m[s].st # "NEW"
      BY <1>2 DEF Has
    <3>3. DoingOK(problem, m, d) /\ Awaited(d) = {}
      BY <1>2, <3>2, InvNow, PendingIs
    <3>4. PartOK(problem, node, a, m, l, Awaited(d))
      BY <1>2, <3>3
    <3> HIDE DEF d
    <3>5. Follow([node EXCEPT ![a] = m], [list EXCEPT ![a] = l], [doing EXCEPT ![a] = d])
      BY <3>3, <3>4, InvNow, Moves
    <3> QED BY <3>1, <3>5
  <2>2. CASE ~MAHeur
    <3> DEFINE r == GenerateAll(a, s, m, l)
               W == Awaited(doing[a])
    <3>1. /\ node' = [node EXCEPT ![a] = r.node] /\ list' = [list EXCEPT ![a] = r.list]
          /\ doing' = doing
      BY <2>2 DEF ExpandNode
    <3> HIDE DEF m
    <3>2. PartOK(problem, node, a, m, l, W) /\ m[s].cost \in Nat /\ Has(node, a, s, m[s].cost)
      BY <1>2 DEF Awaited
    <3>3. node \in [Agent -> [States -> Nodes(problem)]]
      BY InvNow DEF States
    <3> HIDE DEF W
    <3>4. r \in Accs(problem, node, a, W)
      BY <1>2, <3>2, <3>3, InvNow, GenerateAllKeeps
    <3> HIDE DEF r
    <3>5. PartOK(problem, node, a, r.node, r.list, W)
      BY <3>4 DEF Accs
    <3>6. \A x \in States : node[a][x].st # "NEW" => r.node[x].st # "NEW"
      BY <3>5 DEF PartOK, Grown, States
    <3>7. Follow([node EXCEPT ![a] = r.node], [list EXCEPT ![a] = r.list], doing)
      BY <3>5, <3>6, InvNow, MovesHere DEF W
    <3> QED BY <3>1, <3>7
  <2> QED BY <2>1, <2>2
<1>4. SnapOK(problem, node', chan, objs)
    BY <1>3, InvNow, SnapGrown
<1>5. /\ UNCHANGED <<goalCost, objs, count>>
      /\ chan' = chan \/ chan' = Send(chan, a, Others(a), msg)
    BY DEF ExpandNode
<1>6. SnapOK(problem, node', Send(chan, a, Others(a), msg), objs)
  <2>1. /\ msg \in PubMsgs(problem) /\ msg.kind = "PUBLIC_STATE" /\ msg.from = a
        /\ msg.s = s /\ msg.cost = n.cost
    BY <1>2 DEF PublicState, PubMsgs, Nodes, States
  <2>2. Has(node', a, s, n.cost)
    <3>1. /\ node \in [Agent -> [problem.states -> Nodes(problem)]]
          /\ node' \in [Agent -> [problem.states -> Nodes(problem)]]
          /\ \A b \in Agent : Grown(problem, node[b], node'[b])
          /\ s \in problem.states /\ n.cost \in Int
      BY <1>2, <1>3, InvNow DEF Follow, AgentsOK, States
    <3> QED BY <1>2, <3>1, HasGrown
  <2> HIDE DEF msg
  <2>3. msg \in Msgs(problem) /\ Valid(node', a, msg)
    BY <2>1, <2>2 DEF Msgs, Valid, MarkKinds
  <2> QED BY <1>4, <2>1, <2>3, SnapSend
<1>7. SnapOK(problem, node', chan', objs')
    BY <1>4, <1>5, <1>6
<1>8. goalCost' \in [Agent -> Int] /\ count' = count
    BY <1>5, InvNow
<1> QED BY <1>3, <1>7, <1>8, InvNext

\* planSearchAStarStep.
LEMMA StepInv ==
    ASSUME SearchInv, NEW a \in Agent, Step(a)
    PROVE  SearchInv'
<1> DEFINE i == TopIndex(list[a])
           s == list[a][i].s
           l == RemoveAt(list[a], i)
           n == [node[a][s] EXCEPT !.st = "CLOSED"]
<1>1. /\ doing[a] = <<>> /\ list[a] # <<>> /\ problem' = problem
      /\ \/ /\ node[a][s].st # "OPEN"
            /\ list' = [list EXCEPT ![a] = l]
            /\ UNCHANGED <<node, doing, goal, goalCost, objs, count, chan, answer>>
         \/ node[a][s].st = "OPEN" /\ ReachGoal(a, s, n, l)
         \/ node[a][s].st = "OPEN" /\ ExpandNode(a, s, n, l)
    BY DEF Step
<1>2. CASE /\ node[a][s].st # "OPEN"
           /\ list' = [list EXCEPT ![a] = l]
           /\ UNCHANGED <<node, doing, goal, goalCost, objs, count, chan, answer>>
    BY <1>1, <1>2, DropInv
<1>3. ASSUME node[a][s].st = "OPEN"
      PROVE  Closing(a, s, n, l)
  <2> HIDE DEF i
  <2>1. i = TopIndex(list[a])
    BY DEF i
  <2> QED BY <1>1, <1>3, <2>1, Closes
<1> HIDE DEF s, l, n
<1>4. CASE node[a][s].st = "OPEN" /\ ReachGoal(a, s, n, l)
    BY <1>1, <1>3, <1>4, ReachInv
<1>5. CASE node[a][s].st = "OPEN" /\ ExpandNode(a, s, n, l)
    BY <1>1, <1>3, <1>5, ExpandInv
<1> QED BY <1>1, <1>2, <1>4, <1>5 DEF s, l, n

\* The first successor to be generated, and those after it.
StillReached(p, m, m2) == \A x \in p.states : m[x].st # "NEW" => m2[x].st # "NEW"

\* The first is of a state that was reached, and no value of the others is
\* awaited.
LEMMA DoingHead ==
    ASSUME NEW p, NEW m, NEW d, DoingOK(p, m, d), d # <<>>
    PROVE  /\ Head(d) \in Pendings(p) /\ m[Head(d).op.from].st # "NEW"
           /\ Awaited(Tail(d)) = {}
           /\ \A m2 : StillReached(p, m, m2) => DoingOK(p, m2, Tail(d))
<1> DEFINE u == Tail(d)
<1>1. /\ d \in Seq(Pendings(p))
      /\ \A k \in 1 .. Len(d) : m[d[k].op.from].st # "NEW" /\ (k > 1 => d[k].g = NotAsked)
    BY DEF DoingOK
<1>2. /\ u \in Seq(Pendings(p)) /\ Head(d) \in Pendings(p) /\ Head(d) = d[1]
      /\ Len(d) \in Nat /\ Len(d) >= 1 /\ Len(u) = Len(d) - 1
      /\ \A k \in 1 .. Len(u) : u[k] = d[k + 1]
    BY <1>1, TailSeq
<1> HIDE DEF u
<1>3. \A k \in 1 .. Len(u) : m[u[k].op.from].st # "NEW" /\ u[k].g = NotAsked
  <2>1. ASSUME NEW k \in 1 .. Len(u)
        PROVE  m[u[k].op.from].st # "NEW" /\ u[k].g = NotAsked
    <3>1. k + 1 \in 1 .. Len(d) /\ k + 1 > 1 /\ u[k] = d[k + 1]
      BY <1>2
    <3> QED BY <1>1, <3>1
  <2> QED BY <2>1
<1>4. \A k \in 1 .. Len(u) : u[k].op.from \in p.states
  <2>1. \A k \in 1 .. Len(u) : u[k] \in Pendings(p)
    BY <1>2
  <2>2. \A x \in Pendings(p) : x.op.from \in p.states
    BY DEF Pendings, Ops
  <2> QED BY <2>1, <2>2
<1>5. Awaited(u) = {}
  <2>1. CASE u = <<>>
    BY <2>1 DEF Awaited
  <2>2. CASE u # <<>>
    <3>1. Head(u) = u[1] /\ 1 \in 1 .. Len(u)
      BY <1>2, <2>2
    <3>2. Head(u).g = NotAsked
      BY <1>3, <3>1
    <3> QED BY <3>2 DEF Awaited
  <2> QED BY <2>1, <2>2
<1>6. \A m2 : StillReached(p, m, m2) => DoingOK(p, m2, u)
    BY <1>2, <1>3, <1>4 DEF DoingOK, StillReached
<1>7. m[Head(d).op.from].st # "NEW"
    BY <1>1, <1>2
<1> QED BY <1>2, <1>5, <1>6, <1>7 DEF u

\* The value of the first successor is asked for.
Asked(d, g) == [d EXCEPT ![1].g = g]

\* It is the one whose value is awaited then.
LEMMA DoingAsked ==
    ASSUME NEW p, NEW m, NEW d, DoingOK(p, m, d), d # <<>>, NEW g \in Nat
    PROVE  /\ Awaited(Asked(d, g)) = {<<Head(d).op.to, g>>}
           /\ \A m2 : StillReached(p, m, m2) => DoingOK(p, m2, Asked(d, g))
<1> DEFINE u == Asked(d, g)
           x == [op |-> Head(d).op, g |-> g]
<1>1. /\ d \in Seq(Pendings(p))
      /\ \A k \in 1 .. Len(d) : m[d[k].op.from].st # "NEW" /\ (k > 1 => d[k].g = NotAsked)
    BY DEF DoingOK
<1>2. /\ Head(d) \in Pendings(p) /\ Head(d) = d[1] /\ Len(d) \in Nat /\ Len(d) >= 1
    BY <1>1, TailSeq
<1>3. x \in Pendings(p) /\ x.op = Head(d).op /\ x.g = g
    BY <1>2 DEF Pendings
<1>4. [Head(d) EXCEPT !.g = g] = x
    BY <1>2 DEF Pendings
<1> HIDE DEF x
<1>5. u = [d EXCEPT ![1] = x]
    BY <1>2, <1>4 DEF Asked
<1>6. /\ u \in Seq(Pendings(p)) /\ Len(u) = Len(d) /\ u # <<>> /\ Head(u) = x
      /\ \A k \in 1 .. Len(d) : u[k] = IF k = 1 THEN x ELSE d[k]
  <2>1. /\ u \in Seq(Pendings(p)) /\ Len(u) = Len(d)
        /\ \A k \in 1 .. Len(d) : u[k] = IF k = 1 THEN x ELSE d[k]
    <3> HIDE DEF u
    <3> QED BY <1>1, <1>2, <1>3, <1>5
  <2> HIDE DEF u
  <2>2. u # <<>>
    BY <1>2, <2>1
  <2>3. Head(u) = u[1] /\ 1 \in 1 .. Len(d)
    BY <1>2, <2>1, <2>2
  <2> QED BY <2>1, <2>2, <2>3
<1> HIDE DEF u
<1>7. \A k \in 1 .. Len(d) : d[k].op.from \in p.states
  <2>1. \A k \in 1 .. Len(d) : d[k] \in Pendings(p)
    BY <1>1
  <2>2. \A y \in Pendings(p) : y.op.from \in p.states
    BY DEF Pendings, Ops
  <2> QED BY <2>1, <2>2
<1>8. Awaited(u) = {<<Head(d).op.to, g>>}
    BY <1>3, <1>6 DEF Awaited, NotAsked
<1>9. ASSUME NEW m2, StillReached(p, m, m2)
      PROVE  DoingOK(p, m2, u)
  <2>1. ASSUME NEW k \in 1 .. Len(u)
        PROVE  m2[u[k].op.from].st # "NEW" /\ (k > 1 => u[k].g = NotAsked)
    <3>1. k \in 1 .. Len(d) /\ u[k].op = d[k].op /\ (k > 1 => u[k] = d[k])
      BY <1>2, <1>3, <1>6
    <3> QED BY <1>1, <1>7, <1>9, <3>1 DEF StillReached
  <2> QED BY <1>6, <2>1 DEF DoingOK
<1> QED BY <1>8, <1>9 DEF u

\* A new node is opened, and waits for its value.
NewlyOpened(n, o, c) == Opened([n EXCEPT !.op = o, !.cost = c])

\* It is a node, reached by that operator at that cost.
LEMMA NodeOpened ==
    ASSUME NEW p, NEW n \in Nodes(p), NEW o \in Ops(p), NEW c \in Int
    PROVE  /\ NewlyOpened(n, o, c).op = o /\ NewlyOpened(n, o, c).cost = c
           /\ NewlyOpened(n, o, c) \in Nodes(p)
<1> DEFINE y == [n EXCEPT !.op = o, !.cost = c]
<1>1. y \in Nodes(p) /\ y.op = o /\ y.cost = c
    BY DEF Nodes
<1> HIDE DEF y
<1>2. NewlyOpened(n, o, c) = [y EXCEPT !.st = "OPEN"]
    BY DEF NewlyOpened, Opened, y
<1>3. [y EXCEPT !.st = "OPEN"] \in Nodes(p)
    BY <1>1 DEF Nodes
<1>4. [y EXCEPT !.st = "OPEN"].op = o /\ [y EXCEPT !.st = "OPEN"].cost = c
    BY <1>1 DEF Nodes
<1> QED BY <1>2, <1>3, <1>4

\* The new node is open and not in the list, but its value is awaited.
LEMMA OpenKeeps ==
    ASSUME NEW p, NEW nd, nd \in [Agent -> [p.states -> Nodes(p)]], NEW a \in Agent,
           NEW l, PartOK(p, nd, a, nd[a], l, {}), NEW s \in p.states, nd[a][s].st = "NEW",
           NEW x \in Nodes(p), x.cost >= 0, Sound(nd, a, x, s)
    PROVE  /\ PartOK(p, nd, a, [nd[a] EXCEPT ![s] = x], l, {<<s, x.cost>>})
           /\ StillReached(p, nd[a], [nd[a] EXCEPT ![s] = x])
<1> DEFINE m == [nd[a] EXCEPT ![s] = x]
<1>1. /\ nd[a] \in [p.states -> Nodes(p)] /\ l \in Seq(Entries(p))
      /\ \A y \in p.states : NodeOK(p, nd, a, nd[a][y], y)
      /\ AllListed(p, nd[a], l, {})
    BY DEF PartOK
<1>2. /\ m \in [p.states -> Nodes(p)]
      /\ m[s] = x /\ \A y \in p.states \ {s} : m[y] = nd[a][y]
    BY <1>1
<1> HIDE DEF m
<1>3. \A y \in p.states : NodeOK(p, nd, a, m[y], y)
    BY <1>1, <1>2 DEF NodeOK
<1>4. Grown(p, nd[a], m)
  <2>1. \A y \in p.states : nd[a][y].cost \in Int
    BY <1>1 DEF Nodes
  <2> QED BY <1>2, <2>1 DEF Grown
<1>5. AllListed(p, m, l, {<<s, x.cost>>})
  <2>1. ASSUME NEW y \in p.states, m[y].st = "OPEN"
        PROVE  Listed(l, y, m[y].cost) \/ <<y, m[y].cost>> \in {<<s, x.cost>>}
    <3>1. CASE y = s
      BY <1>2, <3>1
    <3>2. CASE y # s
      BY <1>1, <1>2, <2>1, <3>2 DEF AllListed
    <3> QED BY <3>1, <3>2
  <2> QED BY <2>1 DEF AllListed
<1>6. StillReached(p, nd[a], m)
    BY <1>2 DEF StillReached
<1> QED BY <1>1, <1>2, <1>3, <1>4, <1>5, <1>6 DEF PartOK, m

\* The value of the node that was opened is known.
LEMMA ValueKeeps ==
    ASSUME NEW p, NEW nd, nd \in [Agent -> [p.states -> Nodes(p)]], NEW a \in Agent,
           NEW l, NEW s \in p.states, NEW g \in Nat, NEW h \in Nat,
           PartOK(p, nd, a, nd[a], l, {<<s, g>>})
    PROVE  /\ PartOK(p, nd, a, [nd[a] EXCEPT ![s].heur = h], Append(l, Entry(s, g, h)), {})
           /\ StillReached(p, nd[a], [nd[a] EXCEPT ![s].heur = h])
<1> DEFINE o == nd[a][s]
           x == [o EXCEPT !.heur = h]
           m == [nd[a] EXCEPT ![s] = x]
           l2 == Append(l, Entry(s, g, h))
<1>1. /\ nd[a] \in [p.states -> Nodes(p)] /\ l \in Seq(Entries(p))
      /\ \A y \in p.states : NodeOK(p, nd, a, nd[a][y], y)
      /\ AllListed(p, nd[a], l, {<<s, g>>}) /\ o \in Nodes(p)
    BY DEF PartOK
<1>2. /\ x \in Nodes(p) /\ x.st = o.st /\ x.op = o.op /\ x.cost = o.cost /\ x.pub = o.pub
  <2> HIDE DEF o
  <2>2. o \in Nodes(p)
    BY <1>1
  <2>1. x = [st |-> o.st, op |-> o.op, cost |-> o.cost, heur |-> h, pub |-> o.pub]
    BY <2>2 DEF Nodes
  <2> HIDE DEF x
  <2> QED BY <1>1, <2>1 DEF Nodes
<1> HIDE DEF x
<1>3. /\ m \in [p.states -> Nodes(p)]
      /\ m[s] = x /\ \A y \in p.states \ {s} : m[y] = nd[a][y]
    BY <1>1, <1>2
<1>4. m = [nd[a] EXCEPT ![s].heur = h]
    BY <1>1 DEF x
<1> HIDE DEF m
<1>5. \A y \in p.states : /\ m[y].st = nd[a][y].st /\ m[y].op = nd[a][y].op
                          /\ m[y].cost = nd[a][y].cost /\ m[y].pub = nd[a][y].pub
                          /\ nd[a][y].cost \in Int
  <2>1. \A y \in p.states : nd[a][y].cost \in Int
    BY <1>1 DEF Nodes
  <2> QED BY <1>2, <1>3, <2>1
<1>6. \A y \in p.states : NodeOK(p, nd, a, m[y], y)
    BY <1>1, <1>5 DEF NodeOK, Sound
<1>7. Grown(p, nd[a], m) /\ StillReached(p, nd[a], m)
    BY <1>5 DEF Grown, StillReached
<1>8. /\ l2 \in Seq(Entries(p)) /\ Listed(l2, s, g)
      /\ \A y, c : Listed(l, y, c) => Listed(l2, y, c)
    BY <1>1, ListedAppend
<1> HIDE DEF l2
<1>9. AllListed(p, m, l2, {})
  <2>1. ASSUME NEW y \in p.states, m[y].st = "OPEN"
        PROVE  Listed(l2, y, m[y].cost)
    <3>1. Listed(l, y, nd[a][y].cost) \/ <<y, nd[a][y].cost>> \in {<<s, g>>}
      BY <1>1, <1>5, <2>1 DEF AllListed
    <3>2. CASE Listed(l, y, nd[a][y].cost)
      BY <1>5, <1>8, <3>2
    <3>3. CASE <<y, nd[a][y].cost>> \in {<<s, g>>}
      <4>1. y = s /\ nd[a][y].cost = g
        BY <3>3
      <4> QED BY <1>5, <1>8, <4>1
    <3> QED BY <3>1, <3>2, <3>3
  <2> QED BY <2>1 DEF AllListed
<1>10. PartOK(p, nd, a, m, l2, {})
    BY <1>3, <1>6, <1>7, <1>8, <1>9 DEF PartOK
<1> QED BY <1>4, <1>7, <1>10 DEF l2

\* Successors are generated one by one (astarInsertState), and a new one waits
\* for its value.
LEMMA GoesOnInv ==
    ASSUME SearchInv, NEW a \in Agent, StepGoesOn(a)
    PROVE  SearchInv'
<1> DEFINE d == doing[a]
           o == Head(d).op
           g == node[a][o.from].cost + o.cost
           acc == [node |-> node[a], list |-> list[a]]
           gen == Generate(acc, o, a, g - o.cost)
           n == node[a][o.to]
           x == Opened([n EXCEPT !.op = o, !.cost = g])
<1>1. /\ d # <<>> /\ ~Waits(a)
      /\ UNCHANGED <<problem, goalCost, objs, count, chan>>
      /\ \/ /\ n.st = "NEW"
            /\ node' = [node EXCEPT ![a][o.to] = x]
            /\ doing' = [doing EXCEPT ![a][1].g = g]
            /\ UNCHANGED list
         \/ /\ n.st # "NEW"
            /\ node' = [node EXCEPT ![a] = gen.node]
            /\ list' = [list EXCEPT ![a] = gen.list]
            /\ doing' = [doing EXCEPT ![a] = Tail(@)]
    BY DEF StepGoesOn
<1>2. /\ problem \in Problems /\ node \in [Agent -> [problem.states -> Nodes(problem)]]
      /\ PartOK(problem, node, a, node[a], list[a], Awaited(d))
      /\ DoingOK(problem, node[a], d) /\ AgentsOK(problem, node, list, doing)
    BY InvNow
<1>3. Awaited(d) = {}
    BY <1>1 DEF Awaited, Waits
<1>4. /\ Head(d) \in Pendings(problem) /\ node[a][Head(d).op.from].st # "NEW"
      /\ Awaited(Tail(d)) = {}
      /\ \A m2 : StillReached(problem, node[a], m2) => DoingOK(problem, m2, Tail(d))
  <2> HIDE DEF d
  <2> QED BY <1>1, <1>2, DoingHead
<1>5. /\ o \in Ops(problem) /\ o.from \in problem.states /\ o.to \in problem.states
      /\ o.cost \in Nat /\ o # NoOp
  <2>1. o \in Ops(problem)
    BY <1>4 DEF Pendings
  <2> HIDE DEF o
  <2> QED BY <1>2, <2>1, OpIsOp DEF Ops
<1> HIDE DEF o
<1>6. /\ node[a][o.from].st # "NEW" /\ node[a][o.from].cost \in Nat
      /\ g \in Nat /\ g - o.cost = node[a][o.from].cost
  <2>1. node[a][o.from].st # "NEW"
    BY <1>4 DEF o
  <2>2. node[a][o.from] \in Nodes(problem) /\ NodeOK(problem, node, a, node[a][o.from], o.from)
    BY <1>2, <1>5 DEF PartOK
  <2>3. node[a][o.from].cost \in Nat
    BY <2>1, <2>2 DEF NodeOK, Nodes
  <2> QED BY <1>5, <2>1, <2>3
<1>7. Has(node, a, o.from, g - o.cost)
    BY <1>6 DEF Has
<1>8. CASE n.st = "NEW"
  <2>1. n \in Nodes(problem)
    BY <1>2, <1>5
  <2>2. /\ node' = [node EXCEPT ![a][o.to] = x] /\ doing' = [doing EXCEPT ![a][1].g = g]
        /\ list' = list
    BY <1>1, <1>8
  <2>3. x \in Nodes(problem) /\ x.op = o /\ x.cost = g
    <3>1. g \in Int /\ x = NewlyOpened(n, o, g)
      BY <1>6 DEF NewlyOpened
    <3> HIDE DEF n, g, x
    <3> QED BY <1>5, <2>1, <3>1, NodeOpened
  <2>4. Sound(node, a, x, o.to) /\ x.cost >= 0
    <3> HIDE DEF x, g
    <3> QED BY <1>5, <1>6, <1>7, <2>3 DEF Sound
  <2> DEFINE m == [node[a] EXCEPT ![o.to] = x]
             d2 == Asked(d, g)
  <2>5. /\ PartOK(problem, node, a, m, list[a], {<<o.to, x.cost>>})
        /\ StillReached(problem, node[a], m)
    <3>1. PartOK(problem, node, a, node[a], list[a], {})
      BY <1>2, <1>3
    <3> HIDE DEF x
    <3> QED BY <1>2, <1>5, <1>8, <2>3, <2>4, <3>1, OpenKeeps
  <2>6. /\ Awaited(d2) = {<<Head(d).op.to, g>>}
        /\ \A m2 : StillReached(problem, node[a], m2) => DoingOK(problem, m2, d2)
    <3> HIDE DEF d, g
    <3> QED BY <1>1, <1>2, <1>6, DoingAsked
  <2> HIDE DEF m, x, d2, g
  <2>7. PartOK(problem, node, a, m, list[a], Awaited(d2)) /\ DoingOK(problem, m, d2)
    BY <2>3, <2>5, <2>6 DEF o
  <2>8. Follow([node EXCEPT ![a] = m], [list EXCEPT ![a] = list[a]], [doing EXCEPT ![a] = d2])
    BY <1>2, <2>7, Moves
  <2>9. /\ node' = [node EXCEPT ![a] = m] /\ list' = [list EXCEPT ![a] = list[a]]
        /\ doing' = [doing EXCEPT ![a] = d2]
    BY <2>2, InvNow DEF m, d2, Asked
  <2>10. Follow(node', list', doing')
    BY <2>8, <2>9
  <2> QED BY <1>1, <2>10, InvMoves
<1>9. CASE n.st # "NEW"
  <2>2. /\ node' = [node EXCEPT ![a] = gen.node] /\ list' = [list EXCEPT ![a] = gen.list]
        /\ doing' = [doing EXCEPT ![a] = Tail(d)]
    BY <1>1, <1>9
  <2>3. acc \in Accs(problem, node, a, {})
    <3>1. PartOK(problem, node, a, node[a], list[a], {})
      BY <1>2, <1>3
    <3> QED BY <3>1 DEF Accs, PartOK
  <2>4. gen \in Accs(problem, node, a, {})
    <3>1. g - o.cost \in Nat /\ node \in [Agent -> [States -> Nodes(problem)]]
      BY <1>2, <1>6 DEF States
    <3> DEFINE g0 == g - o.cost
    <3> HIDE DEF acc, g0
    <3>2. Generate(acc, o, a, g0) \in Accs(problem, node, a, {})
      <4>1. g0 \in Nat /\ Has(node, a, o.from, g0)
        BY <1>7, <3>1 DEF g0
      <4> QED BY <1>2, <1>5, <2>3, <3>1, <4>1, GenerateKeeps
    <3> QED BY <3>2 DEF g0
  <2> HIDE DEF gen
  <2>5. PartOK(problem, node, a, gen.node, gen.list, {})
    BY <2>4 DEF Accs
  <2>6. StillReached(problem, node[a], gen.node)
    BY <2>5 DEF PartOK, Grown, StillReached
  <2>7. PartOK(problem, node, a, gen.node, gen.list, Awaited(Tail(d)))
        /\ DoingOK(problem, gen.node, Tail(d))
    BY <1>4, <2>5, <2>6
  <2>8. Follow([node EXCEPT ![a] = gen.node], [list EXCEPT ![a] = gen.list],
               [doing EXCEPT ![a] = Tail(d)])
    <3> HIDE DEF d
    <3> QED BY <1>2, <2>7, Moves
  <2>9. Follow(node', list', doing')
    BY <2>2, <2>8
  <2> QED BY <1>1, <2>9, InvMoves
<1> QED BY <1>8, <1>9

\* searchMAHeur returns the value.
LEMMA HeurInv ==
    ASSUME SearchInv, NEW a \in Agent, HeurKnown(a)
    PROVE  SearchInv'
<1> DEFINE d == doing[a]
           s == Head(d).op.to
           g == Head(d).g
           h == Heur(a, s)
           m == [node[a] EXCEPT ![s].heur = h]
           l == Append(list[a], Entry(s, g, h))
<1>1. /\ d # <<>> /\ g # NotAsked
      /\ UNCHANGED <<problem, goalCost, objs, count, chan>>
      /\ node' = [node EXCEPT ![a][s].heur = h]
      /\ list' = [list EXCEPT ![a] = Append(@, Entry(s, g, h))]
      /\ doing' = [doing EXCEPT ![a] = Tail(@)]
    BY DEF HeurKnown, Waits
<1>2. /\ problem \in Problems /\ node \in [Agent -> [problem.states -> Nodes(problem)]]
      /\ PartOK(problem, node, a, node[a], list[a], Awaited(d))
      /\ DoingOK(problem, node[a], d) /\ AgentsOK(problem, node, list, doing)
    BY InvNow
<1>3. Awaited(d) = {<<s, g>>}
    BY <1>1 DEF Awaited
<1>4. /\ Head(d) \in Pendings(problem) /\ node[a][Head(d).op.from].st # "NEW"
      /\ Awaited(Tail(d)) = {}
      /\ \A m2 : StillReached(problem, node[a], m2) => DoingOK(problem, m2, Tail(d))
  <2> HIDE DEF d
  <2> QED BY <1>1, <1>2, DoingHead
<1>5. s \in problem.states /\ g \in Nat /\ h \in Nat
  <2>1. s \in problem.states /\ g \in Nat
    BY <1>1, <1>4 DEF Pendings, Ops
  <2> HIDE DEF s
  <2> QED BY <1>2, <2>1, ProblemFacts DEF States
<1>6. PartOK(problem, node, a, node[a], list[a], {<<s, g>>})
    BY <1>2, <1>3
<1>7. /\ PartOK(problem, node, a, m, l, {})
      /\ StillReached(problem, node[a], m)
  <2> HIDE DEF s, g, h
  <2> QED BY <1>2, <1>5, <1>6, ValueKeeps
<1>8. PartOK(problem, node, a, m, l, Awaited(Tail(d))) /\ DoingOK(problem, m, Tail(d))
    BY <1>4, <1>7
<1>9. Follow([node EXCEPT ![a] = m], [list EXCEPT ![a] = l], [doing EXCEPT ![a] = Tail(d)])
  <2> HIDE DEF m, l, d
  <2> QED BY <1>2, <1>8, Moves
<1>10. /\ node' = [node EXCEPT ![a] = m] /\ list' = [list EXCEPT ![a] = l]
       /\ doing' = [doing EXCEPT ![a] = Tail(d)]
    BY <1>1
<1>11. Follow(node', list', doing')
    BY <1>9, <1>10
<1> QED BY <1>1, <1>11, InvMoves

\* A node that another agent sent.
ReceivedNode(n, c, h, b) == [n EXCEPT !.op = NoOp, !.cost = c, !.heur = h, !.pub = b]

\* It is a node that came from that agent, at that cost.
LEMMA NodeReceived ==
    ASSUME NEW p, NEW n \in Nodes(p), NEW c \in Int, NEW h \in Int, NEW b \in Agent
    PROVE  /\ ReceivedNode(n, c, h, b) \in Nodes(p)
           /\ ReceivedNode(n, c, h, b).cost = c /\ ReceivedNode(n, c, h, b).op = NoOp
           /\ ReceivedNode(n, c, h, b).pub = b
BY DEF Nodes, ReceivedNode

\* A public state may lower what a verification has as the lowest cost.
LEMMA UpdatedIs ==
    ASSUME NEW p, NEW o \in Objects(p), NEW b, NEW c \in Int
    PROVE  /\ Updated(o, b, c) \in Objects(p)
           /\ Updated(o, b, c).count = o.count /\ Updated(o, b, c).init = o.init
<1> DEFINE x == Lesser(o.lowest, c)
<1>1. x \in Int
    BY DEF Objects, Lesser
<1>2. Updated(o, b, c) = o \/ Updated(o, b, c) = [o EXCEPT !.lowest = x]
    BY DEF Updated
<1> HIDE DEF x
<1>3. /\ [o EXCEPT !.lowest = x] \in Objects(p)
      /\ [o EXCEPT !.lowest = x].count = o.count /\ [o EXCEPT !.lowest = x].init = o.init
    BY <1>1 DEF Objects
<1> QED BY <1>2, <1>3

\* Nothing else of the verifications changes.
LEMMA SnapUpdated ==
    ASSUME NEW p, NEW nd, NEW ch, NEW ob, SnapOK(p, nd, ch, ob), NEW a \in Agent,
           NEW b, NEW c \in Int
    PROVE  SnapOK(p, nd, ch, [ob EXCEPT ![a] = [t \in DOMAIN @ |-> Updated(@[t], b, c)]])
<1> DEFINE ob2 == [ob EXCEPT ![a] = [t \in DOMAIN @ |-> Updated(@[t], b, c)]]
<1>1. ChansOK(p, nd, ch) /\ ObjsOK(p, nd, ob) /\ RoundsOK(ch, ob, count)
    BY DEF SnapOK
<1>2. /\ DOMAIN ob2 = Agent /\ DOMAIN ob2[a] = DOMAIN ob[a]
      /\ \A x \in Agent \ {a} : ob2[x] = ob[x]
      /\ \A t \in DOMAIN ob[a] : ob2[a][t] = Updated(ob[a][t], b, c)
    BY <1>1 DEF ObjsOK
<1> HIDE DEF ob2
<1>3. ASSUME NEW t \in DOMAIN ob[a]
      PROVE  /\ t \in Tokens /\ ObjOK(p, nd, a, t, ob2[a][t])
             /\ ob2[a][t].count = ob[a][t].count
  <2>1. t \in Tokens /\ ObjOK(p, nd, a, t, ob[a][t])
    BY <1>1 DEF ObjsOK
  <2>2. ob[a][t] \in Objects(p)
    BY <2>1 DEF ObjOK
  <2>3. /\ Updated(ob[a][t], b, c) \in Objects(p)
        /\ Updated(ob[a][t], b, c).count = ob[a][t].count
        /\ Updated(ob[a][t], b, c).init = ob[a][t].init
    BY <2>2, UpdatedIs
  <2> QED BY <1>2, <2>1, <2>3 DEF ObjOK
<1>4. ObjsOK(p, nd, ob2)
  <2>1. ASSUME NEW x \in Agent, NEW t \in DOMAIN ob2[x]
        PROVE  t \in Tokens /\ ObjOK(p, nd, x, t, ob2[x][t])
    <3>1. CASE x = a
      BY <1>2, <1>3, <3>1
    <3>2. CASE x # a
      BY <1>1, <1>2, <3>2 DEF ObjsOK
    <3> QED BY <3>1, <3>2
  <2> QED BY <1>2, <2>1 DEF ObjsOK
<1>5. ASSUME NEW t \in Tokens
      PROVE  RoundIs(t, ch, ob2, count)
  <2>1. SameObjects(t, ob, ob2)
    BY <1>2, <1>3 DEF SameObjects
  <2>2. NotStarted(t, count, count) /\ RoundIs(t, ch, ob, count)
    BY <1>1 DEF NotStarted, RoundsOK
  <2> QED BY <2>1, <2>2, TokenObjects
<1>6. SnapOK(p, nd, ch, ob2)
    BY <1>1, <1>4, <1>5 DEF SnapOK, RoundsOK
<1> QED BY <1>6 DEF ob2

\* publicStateRecv.
Arrives(a, b, m, ch) == chan[b][a] # <<>> /\ m = Head(chan[b][a]) /\ ch = Consume(chan, b, a)

\* A better public state is opened, and listed.
LEMMA PublicInv ==
    ASSUME SearchInv, NEW a \in Agent, NEW b \in Others(a), NEW m, NEW ch,
           Arrives(a, b, m, ch), RecvPublicState(a, m, ch), UNCHANGED <<problem, doing>>
    PROVE  SearchInv'
<1> DEFINE n == node[a][m.s]
           better == [n EXCEPT !.op = NoOp, !.cost = m.cost,
                               !.heur = IF @ = -1 THEN m.heur ELSE Larger(m.heur, @),
                               !.pub = m.from]
           ins == InsertNode(a, node[a], list[a], better, m.s)
           ob2 == [objs EXCEPT ![a] = [t \in DOMAIN @ |-> Updated(@[t], b, m.cost)]]
<1>1. /\ chan[b][a] # <<>> /\ m = Head(chan[b][a]) /\ ch = Consume(chan, b, a)
      /\ b \in Agent /\ b # a
    BY DEF Arrives, Others
<1>2. SnapOK(problem, node, chan, objs) /\ ChansOK(problem, node, chan)
    BY InvNow DEF SnapOK
<1>3. m.kind = "PUBLIC_STATE" /\ m \in Msgs(problem) /\ Valid(node, b, m)
    BY <1>1, <1>2, ChansConsume DEF RecvPublicState
<1>4. /\ m.s \in States /\ m.cost \in Nat /\ m.heur \in Int /\ m.from = b
      /\ Has(node, b, m.s, m.cost)
    BY <1>3, MsgFields DEF Valid, States
<1>5. SnapOK(problem, node, chan', objs')
  <2>1. SnapOK(problem, node, ch, objs)
    BY <1>1, <1>2, <1>3, SnapConsume
  <2>2. SnapOK(problem, node, ch, ob2)
    BY <1>4, <2>1, SnapUpdated
  <2>3. chan' = ch /\ objs' = ob2
    BY <1>4 DEF RecvPublicState
  <2> HIDE DEF ob2
  <2> QED BY <2>2, <2>3
<1>6. /\ goalCost' = goalCost /\ count' = count /\ doing' = doing /\ problem' = problem
      /\ \/ node' = node /\ list' = list
         \/ /\ Improves(n, m.cost)
            /\ node' = [node EXCEPT ![a] = ins.node]
            /\ list' = [list EXCEPT ![a] = ins.list]
    BY DEF RecvPublicState
<1>7. CASE node' = node /\ list' = list
  <2>1. SearchInv'
    BY <1>2, <1>5, <1>6, <1>7 DEF SearchInv, SnapOK
  <2> QED BY <2>1
<1>8. CASE /\ Improves(n, m.cost)
           /\ node' = [node EXCEPT ![a] = ins.node]
           /\ list' = [list EXCEPT ![a] = ins.list]
  <2>1. n \in Nodes(problem)
    BY <1>4, InvNow DEF States
  <2>2. /\ better \in Nodes(problem) /\ better.cost = m.cost /\ better.op = NoOp
        /\ better.pub = b
    <3> DEFINE h == IF n.heur = -1 THEN m.heur ELSE Larger(m.heur, n.heur)
    <3>1. h \in Int
      BY <1>4, <2>1 DEF Larger, Nodes
    <3>2. better = ReceivedNode(n, m.cost, h, b)
      BY <1>4 DEF ReceivedNode
    <3> HIDE DEF h, n, better
    <3> QED BY <1>1, <1>4, <2>1, <3>1, <3>2, NodeReceived
  <2>3. Sound(node, a, better, m.s)
    <3> HIDE DEF better
    <3> QED BY <1>4, <2>2 DEF Sound
  <2>4. n.st # "NEW" => better.cost <= n.cost
    <3> HIDE DEF better
    <3>1. n.cost \in Int
      BY <2>1 DEF Nodes
    <3> QED BY <1>4, <1>8, <2>2, <3>1 DEF Improves
  <2>5. Follow([node EXCEPT ![a] = ins.node], [list EXCEPT ![a] = ins.list], doing)
    <3>1. better.cost >= 0
      <4> HIDE DEF better
      <4> QED BY <1>4, <2>2
    <3> HIDE DEF better
    <3> QED BY <1>4, <2>2, <2>3, <2>4, <3>1, InvNow, Inserts
  <2>6. Follow(node', list', doing')
    BY <1>6, <1>8, <2>5
  <2>7. SnapOK(problem, node', chan', objs')
    BY <1>5, <2>6, InvNow, SnapGrown
  <2> QED BY <1>6, <2>6, <2>7, InvNow, InvNext
<1> QED BY <1>6, <1>7, <1>8

\* tracePathProcessMsg.
LEMMA TraceInv ==
    ASSUME SearchInv, NEW a \in Agent, NEW b \in Others(a), NEW m, NEW ch,
           Arrives(a, b, m, ch), RecvTracePath(a, m, ch), UNCHANGED <<problem, doing>>
    PROVE  SearchInv'
<1>1. /\ chan[b][a] # <<>> /\ m = Head(chan[b][a]) /\ ch = Consume(chan, b, a)
      /\ b \in Agent /\ b # a
    BY DEF Arrives, Others
<1>2. SnapOK(problem, node, chan, objs) /\ ChansOK(problem, node, chan)
    BY InvNow DEF SnapOK
<1>3. m.kind = "TRACE_PATH" /\ m \in Msgs(problem)
    BY <1>1, <1>2, ChansConsume DEF RecvTracePath
<1>4. m.s \in States \cup {NoState} /\ m.cost \in Int /\ m.init \in Agent
    BY <1>3, MsgKinds DEF TraceMsgs, States
<1>5. SnapOK(problem, node, ch, objs)
    BY <1>1, <1>2, <1>3, SnapConsume
<1>6. /\ UNCHANGED <<problem, node, list, doing, goalCost, objs, count>>
      /\ \/ m.s = NoState /\ chan' = ch
         \/ m.s # NoState /\ Trace(a, m.s, m.cost, m.init, ch)
    BY DEF RecvTracePath
<1>7. SnapOK(problem, node, chan', objs)
  <2>1. CASE m.s = NoState
    BY <1>5, <1>6, <2>1
  <2>2. CASE m.s # NoState
    <3>1. /\ problem \in Problems /\ node'[a] \in [States -> Nodes(problem)]
          /\ m.s \in States /\ Trace(a, m.s, m.cost, m.init, ch)
      BY <1>4, <1>6, <2>2, InvNow DEF States
    <3> QED BY ONLY <1>4, <1>5, <3>1, TraceEffect
  <2> QED BY <2>1, <2>2
<1> QED BY <1>6, <1>7 DEF SearchInv, SnapOK

\* Nothing is put back into the list,
LEMMA ReinsertNothing ==
    ASSUME SearchInv, NEW a \in Agent
    PROVE  Follow([node EXCEPT ![a] = node[a]], [list EXCEPT ![a] = list[a]], doing)
<1>1. /\ AgentsOK(problem, node, list, doing)
      /\ PartOK(problem, node, a, node[a], list[a], Awaited(doing[a]))
    BY InvNow
<1> QED BY <1>1, MovesHere

\* A solution that is not acknowledged is kept (reinsertNAckedSolution).
LEMMA ReinsertFollows ==
    ASSUME SearchInv, NEW a \in Agent, NEW m \in InitMsgs(problem), m.from \in Others(a),
           Has(node, m.from, m.s, m.cost)
    PROVE  Follow([node EXCEPT ![a] = Reinserted(a, m).node],
                  [list EXCEPT ![a] = Reinserted(a, m).list], doing)
<1> DEFINE n == node[a][m.s]
           better == [n EXCEPT !.op = NoOp, !.cost = m.cost, !.heur = m.heur, !.pub = m.from]
           x == IF Improves(n, m.cost) THEN better ELSE n
           r == InsertNode(a, node[a], list[a], x, m.s)
<1>1. /\ m.s \in States /\ m.cost \in Nat /\ m.heur \in Int /\ m.from \in Agent
    BY DEF InitMsgs, States
<1>2. AgentsOK(problem, node, list, doing)
    BY InvNow
<1>3. CASE m.cost > goalCost[a]
  <2>1. Reinserted(a, m) = [node |-> node[a], list |-> list[a]]
    BY <1>3 DEF Reinserted
  <2>2. Follow([node EXCEPT ![a] = node[a]], [list EXCEPT ![a] = list[a]], doing)
    BY ReinsertNothing
  <2> QED BY <2>1, <2>2
<1>4. CASE ~(m.cost > goalCost[a])
  <2>1. Reinserted(a, m) = r
    BY <1>4 DEF Reinserted
  <2>2. n \in Nodes(problem) /\ n.cost \in Int /\ NodeOK(problem, node, a, n, m.s)
    <3>1. n \in Nodes(problem)
      BY <1>1, InvNow DEF States
    <3>2. NodeOK(problem, node, a, n, m.s)
      BY <1>1, InvNow DEF PartOK, States
    <3> HIDE DEF n
    <3> QED BY <3>1, <3>2 DEF Nodes
  <2>3. /\ x \in Nodes(problem) /\ x.cost >= 0
        /\ m.s # problem.init => Sound(node, a, x, m.s)
        /\ n.st # "NEW" => x.cost <= n.cost
    <3>1. CASE Improves(n, m.cost)
      <4>1. /\ better \in Nodes(problem) /\ better.cost = m.cost /\ better.op = NoOp
            /\ better.pub = m.from
        <5>1. better = ReceivedNode(n, m.cost, m.heur, m.from)
          BY DEF ReceivedNode
        <5> HIDE DEF better, n
        <5> QED BY <1>1, <2>2, <5>1, NodeReceived
      <4>2. x = better
        BY <3>1
      <4> HIDE DEF better, x
      <4>3. Sound(node, a, x, m.s)
        BY <4>1, <4>2 DEF Sound
      <4>4. n.st # "NEW" => x.cost <= n.cost
        <5> HIDE DEF n
        <5> QED BY <1>1, <2>2, <3>1, <4>1, <4>2 DEF Improves
      <4> QED BY <1>1, <4>1, <4>2, <4>3, <4>4
    <3>2. CASE ~Improves(n, m.cost)
      <4>1. x = n
        BY <3>2
      <4> HIDE DEF x, n
      <4>2. n.st # "NEW"
        BY <3>2 DEF Improves
      <4> QED BY <2>2, <4>1, <4>2 DEF NodeOK
    <3> QED BY <3>1, <3>2
  <2> HIDE DEF x
  <2>4. Follow([node EXCEPT ![a] = r.node], [list EXCEPT ![a] = r.list], doing)
    BY <1>1, <1>2, <2>3, Inserts
  <2> QED BY <2>1, <2>4
<1> QED BY <1>3, <1>4

\* A message of a verification.
LEMMA SnapshotInv ==
    ASSUME SearchInv, NEW a \in Agent, NEW b \in Others(a), NEW m, NEW ch,
           Arrives(a, b, m, ch), RecvSnapshot(a, m, ch), UNCHANGED <<problem, doing>>
    PROVE  SearchInv'
<1> DEFINE new == Counted(Joined(a, m.token), m)
           marked == JoinMarks(a, m.token, ch)
           y == SnapResponse(m.token, a, Acks(new))
           gone == [objs EXCEPT ![a] = Without(@, m.token)]
           stays == [objs EXCEPT ![a] = With(@, m.token, new)]
           over == Obj!Finished(new.count, m.kind)
           sent == Send(marked, a, {new.init.from}, y)
<1>1. /\ chan[b][a] # <<>> /\ m = Head(chan[b][a]) /\ ch = Consume(chan, b, a)
      /\ b \in Agent /\ b # a
    BY DEF Arrives, Others
<1>2. /\ m.kind \in Obj!SnapKinds /\ count' = count /\ problem' = problem /\ doing' = doing
      /\ \/ VerificationGoesOn(a, m, new, marked)
         \/ VerificationAnswered(a, m, new, marked)
         \/ VerificationDone(a, m, new, marked)
    BY DEF RecvSnapshot
<1>3. ReadsSnap(a, b, m, new, marked)
    BY <1>1, <1>2 DEF ReadsSnap
<1> HIDE DEF new, marked, y
<1>5. /\ new.count.initiator <=> m.token[1] = a
      /\ ~over => SnapOK(problem, node, marked, stays)
      /\ over => /\ new.init \in InitMsgs(problem) /\ new.init.from = m.token[1]
                 /\ Has(node, new.init.from, new.init.s, new.init.cost)
                 /\ new.count.initiator => SnapOK(problem, node, marked, gone)
                 /\ ~new.count.initiator => SnapOK(problem, node, sent, gone)
  <2>1. SnapOK(problem, node, chan, objs) /\ list[a] \in Seq(Entries(problem))
        /\ goalCost[a] \in Int
    BY InvNow
  <2>2. AfterSnap(problem, node, a, m, new, marked)
    BY <1>3, <2>1, SnapshotEffect
  <2> QED BY <2>2 DEF AfterSnap, y
<1> HIDE DEF gone, stays, over, sent
<1>6. CASE VerificationGoesOn(a, m, new, marked)
  <2>1. /\ ~over /\ objs' = stays /\ chan' = marked
        /\ UNCHANGED <<node, list, goalCost>>
    BY <1>6 DEF VerificationGoesOn, over, stays
  <2> QED BY <1>2, <1>5, <2>1 DEF SearchInv, SnapOK
<1>7. CASE VerificationAnswered(a, m, new, marked)
  <2> DEFINE ins == IF Acks(new) THEN [node |-> node[a], list |-> list[a]]
                    ELSE Reinserted(a, new.init)
  <2>1. /\ over /\ ~new.count.initiator /\ objs' = gone /\ chan' = sent
        /\ node' = [node EXCEPT ![a] = ins.node] /\ list' = [list EXCEPT ![a] = ins.list]
        /\ goalCost' = goalCost
    BY <1>7 DEF VerificationAnswered, over, gone, sent, y
  <2>2. Follow([node EXCEPT ![a] = ins.node], [list EXCEPT ![a] = ins.list], doing)
    <3>1. CASE Acks(new)
      <4>1. ins = [node |-> node[a], list |-> list[a]]
        BY <3>1
      <4>2. Follow([node EXCEPT ![a] = node[a]], [list EXCEPT ![a] = list[a]], doing)
        BY ReinsertNothing
      <4>3. ins.node = node[a] /\ ins.list = list[a]
        BY <4>1
      <4> HIDE DEF ins
      <4> QED BY <4>2, <4>3
    <3>2. CASE ~Acks(new)
      <4>1. ins = Reinserted(a, new.init)
        BY <3>2
      <4>2. new.init.from \in Others(a)
        <5>1. new.init.from \in Agent
          BY <1>5, <2>1 DEF InitMsgs
        <5> QED BY <1>5, <2>1, <5>1 DEF Others
      <4>3. Follow([node EXCEPT ![a] = Reinserted(a, new.init).node],
                   [list EXCEPT ![a] = Reinserted(a, new.init).list], doing)
        BY <1>5, <2>1, <4>2, ReinsertFollows
      <4> QED BY <4>1, <4>3
    <3> QED BY <3>1, <3>2
  <2> HIDE DEF ins
  <2>3. Follow(node', list', doing')
    BY <1>2, <2>1, <2>2
  <2>4. SnapOK(problem, node, chan', objs')
    BY <1>5, <2>1
  <2>5. SnapOK(problem, node', chan', objs')
    BY <2>3, <2>4, InvNow, SnapGrown
  <2> QED BY <1>2, <2>1, <2>3, <2>5, InvNow, InvNext
<1>8. CASE VerificationDone(a, m, new, marked)
  <2> DEFINE s == new.init.s
             ins == InsertNode(a, node[a], list[a], node[a][s], s)
  <2>1. /\ over /\ new.count.initiator /\ objs' = gone
        /\ \/ chan' = marked /\ UNCHANGED <<node, list, goalCost>>
           \/ /\ goalCost' = [goalCost EXCEPT ![a] = new.init.cost]
              /\ UNCHANGED <<node, list>> /\ Trace(a, s, 0, a, marked)
           \/ /\ node' = [node EXCEPT ![a] = ins.node] /\ list' = [list EXCEPT ![a] = ins.list]
              /\ chan' = marked /\ goalCost' = goalCost
    BY <1>8 DEF VerificationDone, over, gone
  <2>2. /\ new.init \in InitMsgs(problem) /\ Has(node, a, s, new.init.cost)
        /\ SnapOK(problem, node, marked, gone)
    BY <1>5, <2>1
  <2>3. s \in States /\ new.init.cost \in Int
    BY <2>2 DEF InitMsgs, States
  <2> HIDE DEF ins, s
  <2>4. CASE chan' = marked /\ UNCHANGED <<node, list, goalCost>>
    BY <1>2, <2>1, <2>2, <2>4 DEF SearchInv, SnapOK
  <2>5. CASE /\ goalCost' = [goalCost EXCEPT ![a] = new.init.cost]
             /\ UNCHANGED <<node, list>> /\ Trace(a, s, 0, a, marked)
    <3>1. /\ problem \in Problems /\ node'[a] \in [States -> Nodes(problem)]
          /\ 0 \in Int /\ Trace(a, s, 0, a, marked)
      BY <2>5, InvNow DEF States
    <3>2. SnapOK(problem, node, chan', gone)
      BY ONLY <2>2, <2>3, <3>1, TraceEffect
    <3>3. goalCost' \in [Agent -> Int]
      BY <2>3, <2>5, InvNow
    <3> QED BY <1>2, <2>1, <2>5, <3>2, <3>3 DEF SearchInv, SnapOK
  <2>6. CASE /\ node' = [node EXCEPT ![a] = ins.node] /\ list' = [list EXCEPT ![a] = ins.list]
             /\ chan' = marked /\ goalCost' = goalCost
    <3>1. /\ node[a][s] \in Nodes(problem) /\ NodeOK(problem, node, a, node[a][s], s)
          /\ node[a][s].st # "NEW" /\ node[a][s].cost \in Int
      <4>1. node[a][s] \in Nodes(problem)
        BY <2>3, InvNow DEF States
      <4>2. NodeOK(problem, node, a, node[a][s], s)
        BY <2>3, InvNow DEF PartOK, States
      <4>3. node[a][s].st # "NEW"
        BY <2>2 DEF Has
      <4> QED BY <4>1, <4>2, <4>3 DEF Nodes
    <3>2. /\ node[a][s].cost >= 0 /\ node[a][s].cost <= node[a][s].cost
          /\ s # problem.init => Sound(node, a, node[a][s], s)
      BY <3>1 DEF NodeOK
    <3>3. Follow([node EXCEPT ![a] = ins.node], [list EXCEPT ![a] = ins.list], doing)
      BY <2>3, <3>1, <3>2, InvNow, Inserts DEF ins
    <3>4. Follow(node', list', doing')
      BY <1>2, <2>6, <3>3
    <3>5. SnapOK(problem, node', chan', objs')
      BY <2>1, <2>2, <2>6, <3>4, InvNow, SnapGrown
    <3> QED BY <1>2, <2>6, <3>4, <3>5, InvNow, InvNext
  <2> QED BY <2>1, <2>4, <2>5, <2>6
<1> QED BY <1>2, <1>6, <1>7, <1>8

\* processMsg.
LEMMA ReceiveInv ==
    ASSUME SearchInv, NEW a \in Agent, NEW b \in Others(a), Receive(a, b)
    PROVE  SearchInv'
<1> DEFINE m == Head(chan[b][a])
           ch == Consume(chan, b, a)
<1>1. /\ Arrives(a, b, m, ch) /\ UNCHANGED <<problem, doing>>
      /\ \/ RecvPublicState(a, m, ch)
         \/ RecvTracePath(a, m, ch)
         \/ RecvSnapshot(a, m, ch)
    BY DEF Receive, Arrives
<1> HIDE DEF m, ch
<1>2. CASE RecvPublicState(a, m, ch)
    BY <1>1, <1>2, PublicInv
<1>3. CASE RecvTracePath(a, m, ch)
    BY <1>1, <1>3, TraceInv
<1>4. CASE RecvSnapshot(a, m, ch)
    BY <1>1, <1>4, SnapshotInv
<1> QED BY <1>1, <1>2, <1>3, <1>4

\* Nothing happens.
LEMMA StutterInv ==
    ASSUME SearchInv, UNCHANGED vars
    PROVE  SearchInv'
<1>1. /\ problem' = problem /\ goalCost' = goalCost /\ count' = count /\ node' = node
      /\ list' = list /\ doing' = doing /\ objs' = objs /\ chan' = chan
    BY DEF vars
<1> QED BY <1>1 DEF SearchInv, RoundsOK

\* Every step keeps it.
LEMMA NextInv ==
    ASSUME SearchInv, [Next]_vars
    PROVE  SearchInv'
<1>1. ASSUME NEW a \in Agent, Step(a)
      PROVE  SearchInv'
    BY <1>1, StepInv
<1>2. ASSUME NEW a \in Agent, StepGoesOn(a)
      PROVE  SearchInv'
    BY <1>2, GoesOnInv
<1>3. ASSUME NEW a \in Agent, HeurKnown(a)
      PROVE  SearchInv'
    BY <1>3, HeurInv
<1>4. ASSUME NEW a \in Agent, NEW b \in Others(a), Receive(a, b)
      PROVE  SearchInv'
    BY <1>4, ReceiveInv
<1>5. CASE UNCHANGED vars
    BY <1>5, StutterInv
<1> QED BY <1>1, <1>2, <1>3, <1>4, <1>5 DEF Next, Finish

-----------------------------------------------------------------------------
(* The first state *)

\* The node of the initial state.
FirstNode(n, h) == [n EXCEPT !.st = "OPEN", !.cost = 0, !.heur = h]

\* It is open, at no cost.
LEMMA NodeFirst ==
    ASSUME NEW p, NEW n \in Nodes(p), NEW h \in Nat
    PROVE  FirstNode(n, h) \in Nodes(p) /\ FirstNode(n, h).st = "OPEN"
           /\ FirstNode(n, h).cost = 0
<1> DEFINE x == [n EXCEPT !.st = "OPEN"]
           y == [x EXCEPT !.cost = 0]
           z == [y EXCEPT !.heur = h]
<1>1. x \in Nodes(p) /\ x.st = "OPEN"
    BY DEF Nodes
<1> HIDE DEF x
<1>2. y \in Nodes(p) /\ y.st = "OPEN" /\ y.cost = 0
    BY <1>1 DEF Nodes
<1> HIDE DEF y
<1>3. z \in Nodes(p) /\ z.st = "OPEN" /\ z.cost = 0
    BY <1>2 DEF Nodes
<1>4. FirstNode(n, h) = z
    BY DEF FirstNode, Nodes, x, y
<1> HIDE DEF z
<1> QED BY <1>3, <1>4

\* The nodes and lists of the agents: the initial state is open, and listed.
LEMMA InitAgents ==
    ASSUME Init
    PROVE  AgentsOK(problem, node, list, doing)
<1> DEFINE i == problem.init
           first(a) == [NewNode EXCEPT !.st = "OPEN", !.cost = 0, !.heur = Heur(a, i)]
<1>1. /\ problem \in Problems /\ i \in States
      /\ \A a \in Agent : Heur(a, i) \in Nat
  <2>1. problem \in Problems
    BY DEF Init
  <2>2. i \in States
    BY <2>1, ProblemAssumption DEF States
  <2> HIDE DEF i
  <2> QED BY <2>1, <2>2, ProblemFacts
<1>2. /\ NewNode \in Nodes(problem) /\ NewNode.st = "NEW"
      /\ \A a \in Agent : /\ first(a) \in Nodes(problem)
                          /\ first(a).st = "OPEN" /\ first(a).cost = 0
  <2>1. NewNode \in Nodes(problem) /\ NewNode.st = "NEW"
    BY DEF NewNode, Nodes
  <2>2. ASSUME NEW a \in Agent
        PROVE  first(a) \in Nodes(problem) /\ first(a).st = "OPEN" /\ first(a).cost = 0
    <3>1. Heur(a, i) \in Nat
      BY <1>1
    <3> DEFINE n == FirstNode(NewNode, Heur(a, i))
    <3>2. n \in Nodes(problem) /\ n.st = "OPEN" /\ n.cost = 0
      <4> HIDE DEF i
      <4> QED BY <2>1, <3>1, NodeFirst
    <3> QED BY <3>2 DEF FirstNode
  <2> HIDE DEF first
  <2> QED BY <2>1, <2>2
<1>3. /\ node = [a \in Agent |-> [s \in States |-> IF s = i THEN first(a) ELSE NewNode]]
      /\ list = [a \in Agent |-> <<Entry(i, 0, Heur(a, i))>>]
      /\ doing = [a \in Agent |-> <<>>]
  <2>1. /\ node = [a \in Agent |-> [s \in States |->
                     IF s = problem.init
                     THEN [NewNode EXCEPT !.st = "OPEN", !.cost = 0,
                                          !.heur = Heur(a, s)]
                     ELSE NewNode]]
        /\ list = [a \in Agent |-> <<Entry(problem.init, 0, Heur(a, problem.init))>>]
        /\ doing = [a \in Agent |-> <<>>]
    BY DEF Init
  <2>2. [a \in Agent |-> [s \in States |->
                     IF s = problem.init
                     THEN [NewNode EXCEPT !.st = "OPEN", !.cost = 0,
                                          !.heur = Heur(a, s)]
                     ELSE NewNode]]
        = [a \in Agent |-> [s \in States |-> IF s = i THEN first(a) ELSE NewNode]]
    OBVIOUS
  <2> QED BY <2>1, <2>2
<1> HIDE DEF first
<1>4. ASSUME NEW a \in Agent
      PROVE  /\ node[a] \in [States -> Nodes(problem)]
             /\ \A s \in States : node[a][s].st # "NEW" => s = i /\ node[a][s].cost = 0
             /\ list[a] \in Seq(Entries(problem)) /\ Listed(list[a], i, 0)
             /\ doing[a] = <<>>
  <2>1. node[a] = [s \in States |-> IF s = i THEN first(a) ELSE NewNode]
    BY <1>3
  <2>2. list[a] = <<Entry(i, 0, Heur(a, i))>>
    BY <1>3
  <2>3. \A h \in Nat : /\ Entry(i, 0, h) \in Entries(problem)
                       /\ Entry(i, 0, h).s = i /\ Entry(i, 0, h).f - Entry(i, 0, h).h = 0
    <3> HIDE DEF i
    <3> QED BY <1>1 DEF Entry, Entries, States
  <2> HIDE DEF i
  <2>4. /\ list[a] \in Seq(Entries(problem)) /\ Len(list[a]) = 1
        /\ list[a][1].s = i /\ list[a][1].f - list[a][1].h = 0
    <3> DEFINE e == Entry(i, 0, Heur(a, i))
    <3>1. e \in Entries(problem) /\ e.s = i /\ e.f - e.h = 0 /\ list[a] = <<e>>
      BY <1>1, <2>2, <2>3
    <3> HIDE DEF e
    <3> QED BY <3>1
  <2>5. Listed(list[a], i, 0)
    BY <2>4 DEF Listed
  <2>6. node[a] \in [States -> Nodes(problem)]
    BY <1>2, <2>1
  <2>7. \A s \in States : node[a][s].st # "NEW" => s = i /\ node[a][s].cost = 0
    BY <1>2, <2>1
  <2>8. doing[a] = <<>>
    BY <1>3
  <2> QED BY <2>4, <2>5, <2>6, <2>7, <2>8
<1>5. /\ node \in [Agent -> [States -> Nodes(problem)]]
      /\ list \in [Agent -> Seq(Entries(problem))]
      /\ doing \in [Agent -> Seq(Pendings(problem))]
  <2>1. /\ node = [a \in Agent |-> node[a]] /\ list = [a \in Agent |-> list[a]]
        /\ doing = [a \in Agent |-> doing[a]]
    BY <1>3
  <2>2. \A a \in Agent : doing[a] \in Seq(Pendings(problem))
    <3>1. ASSUME NEW a \in Agent
          PROVE  doing[a] \in Seq(Pendings(problem))
      <4>1. doing[a] = <<>>
        BY <1>4
      <4> QED BY ONLY <4>1
    <3> QED BY ONLY <3>1
  <2>3. \A a \in Agent : /\ node[a] \in [States -> Nodes(problem)]
                         /\ list[a] \in Seq(Entries(problem))
    BY <1>4
  <2> QED BY ONLY <2>1, <2>2, <2>3
<1>6. ASSUME NEW a \in Agent
      PROVE  /\ PartOK(problem, node, a, node[a], list[a], Awaited(doing[a]))
             /\ DoingOK(problem, node[a], doing[a])
  <2>1. \A s \in States : NodeOK(problem, node, a, node[a][s], s)
    BY <1>4 DEF NodeOK
  <2>2. Grown(problem, node[a], node[a])
    <3>1. \A s \in States : node[a][s].cost \in Int
      BY <1>4 DEF Nodes
    <3> QED BY <3>1 DEF Grown, States
  <2>3. AllListed(problem, node[a], list[a], Awaited(doing[a]))
    BY <1>4 DEF AllListed, States
  <2>4. DoingOK(problem, node[a], doing[a])
    <3>1. doing[a] = <<>>
      BY <1>4
    <3>2. doing[a] \in Seq(Pendings(problem)) /\ Len(doing[a]) = 0
      BY ONLY <3>1
    <3> QED BY <3>2 DEF DoingOK
  <2> QED BY <1>4, <2>1, <2>2, <2>3, <2>4 DEF PartOK, States
<1> QED BY <1>5, <1>6 DEF AgentsOK, States

\* The first state is one of them: no message is on its way, and no
\* verification has begun.
LEMMA InitInv ==
    ASSUME Init
    PROVE  SearchInv
<1>1. /\ problem \in Problems /\ goalCost = [a \in Agent |-> MaxCost]
      /\ objs = [a \in Agent |-> <<>>] /\ count = [a \in Agent |-> 0] /\ chan = NoMsgs
    BY DEF Init
<1>2. goalCost \in [Agent -> Int] /\ count \in [Agent -> Nat]
    BY <1>1, CostAssumption
<1>3. /\ chan \in [Agent -> [Agent -> Seq(Msgs(problem))]]
      /\ \A b \in Agent : \A q \in Agent : chan[b][q] = <<>> /\ Len(chan[b][q]) = 0
    BY <1>1 DEF NoMsgs
<1>4. ChansOK(problem, node, chan)
    BY <1>3 DEF ChansOK, Channels
<1>5. \A a \in Agent : DOMAIN objs[a] = {}
    BY <1>1
<1>6. ObjsOK(problem, node, objs)
    BY <1>1, <1>5 DEF ObjsOK
<1>7. ASSUME NEW t \in Tokens
      PROVE  RoundIs(t, chan, objs, count)
  <2> DEFINE ph == [a \in Agent |-> "out"]
             none == [a \in Agent |-> {}]
  <2>1. t[1] \in Agent
    BY DEF Tokens
  <2>2. AllHeard(t[1], ph, none, none)
    BY <2>1 DEF AllHeard, Heard, Phases
  <2>3. \A p \in Agent : \A q \in Others(p) :
          /\ MarkWay(chan[p][q], t, KindOf(p, t[1]), FALSE)
          /\ RespWay(chan[p][q], t, FALSE)
    BY <1>3 DEF MarkWay, RespWay, Free, Others
  <2>4. Round(chan, t, t[1], ph, none, none)
    BY <2>1, <2>2, <2>3 DEF Round, Others
  <2>5. Matches(t, ph, none, none, objs, count)
    BY <1>5, <2>1 DEF Matches
  <2> QED BY <2>4, <2>5 DEF RoundIs
<1>8. AgentsOK(problem, node, list, doing)
    BY InitAgents
<1> QED BY <1>1, <1>2, <1>4, <1>6, <1>7, <1>8 DEF SearchInv, RoundsOK

-----------------------------------------------------------------------------
(* What it implies *)

\* Where a node was reached from is known, and cheap enough.
LEMMA InvParents ==
    ASSUME SearchInv
    PROVE  ParentsKnown
<1>1. ASSUME NEW a \in Agent, NEW s \in States \ {problem.init}, node[a][s].st # "NEW",
             node[a][s].op # NoOp
      PROVE  /\ node[a][node[a][s].op.from].st # "NEW"
             /\ node[a][node[a][s].op.from].cost + node[a][s].op.cost <= node[a][s].cost
  <2> DEFINE n == node[a][s]
             o == n.op
  <2>1. /\ node[a] \in [States -> Nodes(problem)] /\ n \in Nodes(problem)
        /\ NodeOK(problem, node, a, n, s)
    BY InvNow DEF PartOK, States
  <2>2. Has(node, a, o.from, n.cost - o.cost)
    BY <1>1, <2>1 DEF NodeOK, Sound
  <2>3. n.cost \in Int /\ o \in Ops(problem)
    <3> HIDE DEF n
    <3> QED BY <1>1, <2>1 DEF Nodes, n
  <2>4. o.cost \in Nat /\ o.from \in States
    <3> HIDE DEF o
    <3> QED BY <2>3 DEF Ops, States
  <2>5. node[a][o.from].cost \in Int
    <3> HIDE DEF o
    <3>1. node[a][o.from] \in Nodes(problem)
      BY <2>1, <2>4
    <3> QED BY <3>1 DEF Nodes
  <2> HIDE DEF o
  <2>6. /\ node[a][o.from].st # "NEW"
        /\ node[a][o.from].cost + o.cost <= n.cost
    <3> HIDE DEF n
    <3> QED BY <2>2, <2>3, <2>4, <2>5 DEF Has
  <2> QED BY <2>6 DEF o
<1>2. ASSUME NEW a \in Agent, NEW s \in States \ {problem.init}, node[a][s].st # "NEW",
             node[a][s].op = NoOp
      PROVE  /\ node[a][s].pub \in Others(a) /\ node[node[a][s].pub][s].st # "NEW"
             /\ node[node[a][s].pub][s].cost <= node[a][s].cost
  <2>1. NodeOK(problem, node, a, node[a][s], s)
    BY InvNow DEF PartOK, States
  <2> QED BY <1>2, <2>1 DEF NodeOK, Sound, Has
<1> QED BY <1>1, <1>2 DEF ParentsKnown

\* An open state is listed.
LEMMA InvListed ==
    ASSUME SearchInv
    PROVE  OpenIsListed
<1>1. ASSUME NEW a \in Agent, NEW s \in States, node[a][s].st = "OPEN"
      PROVE  \/ \E i \in DOMAIN list[a] :
                   list[a][i].s = s /\ list[a][i].f - list[a][i].h = node[a][s].cost
             \/ Waits(a) /\ Head(doing[a]).op.to = s
  <2>1. AllListed(problem, node[a], list[a], Awaited(doing[a]))
    BY InvNow DEF PartOK
  <2>2. CASE Listed(list[a], s, node[a][s].cost)
    <3>1. list[a] \in Seq(Entries(problem))
      BY InvNow
    <3>2. DOMAIN list[a] = 1 .. Len(list[a])
      BY <3>1
    <3> QED BY <2>2, <3>2 DEF Listed
  <2>3. CASE <<s, node[a][s].cost>> \in Awaited(doing[a])
    BY <2>3 DEF Awaited, Waits
  <2> QED BY <1>1, <2>1, <2>2, <2>3 DEF AllListed, States
<1> QED BY <1>1 DEF OpenIsListed

\* For any number of agents, any planning problems and however steps, values
\* and messages interleave: a node that was reached has the node it was
\* reached from, at the same agent or at the one that published it, and is no
\* cheaper than the way through that.  The nodes that tracePath goes through
\* exist, and what it adds up never exceeds the cost of the node it began
\* with.
THEOREM ParentsKnownAlways == Spec => []ParentsKnown
<1>1. Init => SearchInv
    BY InitInv
<1>2. SearchInv /\ [Next]_vars => SearchInv'
    BY NextInv
<1>3. SearchInv => ParentsKnown
    BY InvParents
<1> QED BY <1>1, <1>2, <1>3, PTL DEF Spec

\* For any number of agents, any planning problems and however steps, values
\* and messages interleave: an open state is in the open list at its present
\* cost, or its heuristic value is the one being awaited.  No state that was
\* reached anew is lost for the search, and the cost at the top of the list
\* that a snapshot compares with misses none of them.
THEOREM OpenIsListedAlways == Spec => []OpenIsListed
<1>1. Init => SearchInv
    BY InitInv
<1>2. SearchInv /\ [Next]_vars => SearchInv'
    BY NextInv
<1>3. SearchInv => OpenIsListed
    BY InvListed
<1> QED BY <1>1, <1>2, <1>3, PTL DEF Spec

=============================================================================
