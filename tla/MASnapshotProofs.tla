------------------------- MODULE MASnapshotProofs -------------------------
(* Proofs about distributed snapshots, for every number of agents, items    *)
(* and snapshots: who takes part in a snapshot and what is in the channels  *)
(* because of it, and where every item is, are one inductive invariant.     *)
EXTENDS MASnapshot, FiniteSetTheorems, TLAPS

SnapMsgs == [kind : Obj!SnapKinds, token : Token]
ItemMsgs == [kind : {"PUBLIC_STATE"}, item : Item]
Msgs == SnapMsgs \cup ItemMsgs
Chans == [Agent -> [Agent -> Seq(Msgs)]]

\* What the model keeps besides TypeOK.
Typed == /\ TypeOK
         /\ chan \in Chans
         /\ objs = [a \in Agent |-> objs[a]]

-----------------------------------------------------------------------------
(* An agent and a snapshot *)

\* The agent has deleted its object; it has one, or had one.
Done(a, t) == cut[t][a] # NoCut
TakesPart(a, t) == t \in DOMAIN objs[a] \/ Done(a, t)

Marks(a, t) == objs[a][t].count.marks
Resps(a, t) == objs[a][t].count.resps

\* What the agent has recorded so far.
Rec(a, t) == IF t \in DOMAIN objs[a] THEN objs[a][t].rec
             ELSE IF Done(a, t) THEN cut[t][a] ELSE {}

\* q has read the mark of p, or its answer.
MarkRead(p, q, t) == Done(q, t) \/ (t \in DOMAIN objs[q] /\ p \in Marks(q, t))
RespRead(p, q, t) == Done(q, t) \/ (t \in DOMAIN objs[q] /\ p \in Resps(q, t))

Objects ==
    \A a \in Agent : \A t \in DOMAIN objs[a] :
       /\ cut[t][a] = NoCut
       /\ a # started[t] => Resps(a, t) = {} /\ Marks(a, t) # Others(a)
       /\ a = started[t] => Resps(a, t) # Others(a)
       /\ Resps(a, t) \subseteq Marks(a, t)
       /\ started[t] \in Marks(a, t) \cup {a} => objs[a][t].init = started[t]
       /\ \A p \in Marks(a, t) : TakesPart(p, t)
       /\ \A p \in Resps(a, t) : Done(p, t)

Progress ==
    /\ \A t \in Token \ DOMAIN started : \A a \in Agent : ~Done(a, t)
    /\ \A t \in DOMAIN started :
          /\ TakesPart(started[t], t)
          /\ \A a \in Agent : Done(a, t) => \A p \in Agent : TakesPart(p, t)
          /\ Done(started[t], t) => \A p \in Agent : Done(p, t)

-----------------------------------------------------------------------------
(* A channel and a snapshot: the mark an agent sent when it began to take    *)
(* part is there until it is read, and its answer, which comes after it.     *)

MarkKinds == {"INIT", "MARK"}
MarkKind(p, t) == IF p = started[t] THEN "INIT" ELSE "MARK"
RespKinds == {"RESPONSE"}

Is(m, K, t) == m.kind \in K /\ m.token = t
Free(s, K, t) == \A k \in 1 .. Len(s) : ~Is(s[k], K, t)
Only(s, K, t, j) == /\ j \in 1 .. Len(s) /\ Is(s[j], K, t)
                    /\ \A k \in 1 .. Len(s) : Is(s[k], K, t) => k = j

MarkOn(s, t, kind) == \E j \in 1 .. Len(s) : Only(s, MarkKinds, t, j) /\ s[j].kind = kind
RespOn(s, t) == \E j \in 1 .. Len(s) :
                   /\ Only(s, RespKinds, t, j)
                   /\ \A k \in 1 .. Len(s) : Is(s[k], MarkKinds, t) => k < j

MarkShape(p, q, t) ==
    IF TakesPart(p, t) /\ ~MarkRead(p, q, t)
    THEN MarkOn(chan[p][q], t, MarkKind(p, t))
    ELSE Free(chan[p][q], MarkKinds, t)

RespShape(p, q, t) ==
    IF Done(p, t) /\ q = started[t] /\ ~RespRead(p, q, t)
    THEN RespOn(chan[p][q], t)
    ELSE Free(chan[p][q], RespKinds, t)

Shapes ==
    \A p \in Agent :
       /\ chan[p][p] = <<>>
       /\ \A q \in Others(p) : \A t \in Token : MarkShape(p, q, t) /\ RespShape(p, q, t)

-----------------------------------------------------------------------------
(* An item and a snapshot: an item is at one place.  Nobody has recorded it   *)
(* while it is with an agent that takes no part, or ahead of the mark of such *)
(* an agent in a channel; anywhere else exactly one agent has.               *)

ItemIs(m, i) == m.kind = "PUBLIC_STATE" /\ m.item = i
NoItem(s, i) == \A k \in 1 .. Len(s) : ~ItemIs(s[k], i)
OneItem(s, i, k) == /\ k \in 1 .. Len(s) /\ ItemIs(s[k], i)
                    /\ \A j \in 1 .. Len(s) : ItemIs(s[j], i) => j = k

Never(i, t) == \A a \in Agent : i \notin Rec(a, t)
Once(i, t) == \E a \in Agent : i \in Rec(a, t) /\ \A b \in Agent : i \in Rec(b, t) => b = a

MarkAfter(s, k, t) == \E j \in 1 .. Len(s) : j > k /\ Is(s[j], MarkKinds, t)
Unmarked(p, q, k, t) == ~TakesPart(p, t) \/ MarkAfter(chan[p][q], k, t)

Held(i, a) ==
    /\ \A b \in Agent : i \in hold[b] <=> b = a
    /\ \A p, q \in Agent : NoItem(chan[p][q], i)
    /\ \A t \in DOMAIN started : IF TakesPart(a, t) THEN Once(i, t) ELSE Never(i, t)
Sent(i, p, q, k) ==
    /\ \A b \in Agent : i \notin hold[b]
    /\ OneItem(chan[p][q], i, k)
    /\ \A x, y \in Agent : ~(x = p /\ y = q) => NoItem(chan[x][y], i)
    /\ \A t \in DOMAIN started : IF Unmarked(p, q, k, t) THEN Never(i, t) ELSE Once(i, t)

Items == \A i \in Item :
            \/ \E a \in Agent : Held(i, a)
            \/ \E p, q \in Agent : \E k \in 1 .. Len(chan[p][q]) : Sent(i, p, q, k)

SnapInv == Typed /\ Objects /\ Progress /\ Shapes /\ Items

-----------------------------------------------------------------------------
(* Sequences *)

LEMMA AppendSeq ==
    ASSUME NEW M, NEW s \in Seq(M), NEW x \in M
    PROVE  /\ Append(s, x) \in Seq(M)
           /\ Len(s) \in Nat /\ Len(Append(s, x)) = Len(s) + 1
           /\ Append(s, x)[Len(s) + 1] = x
           /\ \A i \in 1 .. Len(s) : Append(s, x)[i] = s[i]
OBVIOUS

\* The head and the rest of a sequence.
LEMMA TailSeq ==
    ASSUME NEW M, NEW s \in Seq(M), s # <<>>
    PROVE  /\ Tail(s) \in Seq(M) /\ Head(s) \in M /\ Head(s) = s[1]
           /\ Len(s) \in Nat /\ Len(s) >= 1 /\ Len(Tail(s)) = Len(s) - 1
           /\ \A i \in 1 .. Len(Tail(s)) : Tail(s)[i] = s[i + 1]
OBVIOUS

\* Messages of a kind in a channel to which one is added,
LEMMA FreeAppend ==
    ASSUME NEW s \in Seq(Msgs), NEW x \in Msgs, NEW K, NEW t
    PROVE  /\ Free(s, K, t) /\ ~Is(x, K, t) => Free(Append(s, x), K, t)
           /\ \A j : Only(s, K, t, j) /\ ~Is(x, K, t) => Only(Append(s, x), K, t, j)
           /\ Free(s, K, t) /\ Is(x, K, t) => Only(Append(s, x), K, t, Len(s) + 1)
<1> DEFINE u == Append(s, x)
<1>1. /\ Len(s) \in Nat /\ Len(u) = Len(s) + 1 /\ u[Len(s) + 1] = x
      /\ \A i \in 1 .. Len(s) : u[i] = s[i]
    BY AppendSeq
<1> HIDE DEF u
<1>2. Free(s, K, t) /\ ~Is(x, K, t) => Free(u, K, t)
    BY <1>1 DEF Free
<1>3. \A j : Only(s, K, t, j) /\ ~Is(x, K, t) => Only(u, K, t, j)
    BY <1>1 DEF Only
<1>4. Free(s, K, t) /\ Is(x, K, t) => Only(u, K, t, Len(s) + 1)
    BY <1>1 DEF Free, Only
<1> QED BY <1>2, <1>3, <1>4 DEF u

\* and from which one is read.
LEMMA FreeTail ==
    ASSUME NEW s \in Seq(Msgs), s # <<>>, NEW K, NEW t
    PROVE  /\ Free(s, K, t) => Free(Tail(s), K, t) /\ ~Is(Head(s), K, t)
           /\ \A j : Only(s, K, t, j) =>
                 \/ j = 1 /\ Is(Head(s), K, t) /\ Free(Tail(s), K, t)
                 \/ j > 1 /\ ~Is(Head(s), K, t) /\ Only(Tail(s), K, t, j - 1)
<1> DEFINE u == Tail(s)
<1>1. /\ Len(s) \in Nat /\ Len(s) >= 1 /\ Len(u) = Len(s) - 1 /\ Head(s) = s[1]
      /\ \A i \in 1 .. Len(u) : u[i] = s[i + 1]
    BY TailSeq
<1> HIDE DEF u
<1>2. Free(s, K, t) => Free(u, K, t) /\ ~Is(Head(s), K, t)
    BY <1>1 DEF Free
<1>3. ASSUME NEW j, Only(s, K, t, j)
      PROVE  \/ j = 1 /\ Is(Head(s), K, t) /\ Free(u, K, t)
             \/ j > 1 /\ ~Is(Head(s), K, t) /\ Only(u, K, t, j - 1)
  <2>1. CASE j = 1
    BY <1>1, <1>3, <2>1 DEF Only, Free
  <2>2. CASE j > 1
    BY <1>1, <1>3, <2>2 DEF Only
  <2> QED BY <1>3, <2>1, <2>2 DEF Only
<1> QED BY <1>2, <1>3 DEF u

\* A mark stays where another message is added, and is there once it was sent.
LEMMA MarkAppend ==
    ASSUME NEW s \in Seq(Msgs), NEW x \in Msgs, NEW t, NEW kind
    PROVE  /\ MarkOn(s, t, kind) /\ ~Is(x, MarkKinds, t) => MarkOn(Append(s, x), t, kind)
           /\ Free(s, MarkKinds, t) /\ Is(x, MarkKinds, t) => MarkOn(Append(s, x), t, x.kind)
<1>1. /\ Len(s) \in Nat /\ Append(s, x)[Len(s) + 1] = x
      /\ Len(Append(s, x)) = Len(s) + 1
      /\ \A i \in 1 .. Len(s) : Append(s, x)[i] = s[i]
    BY AppendSeq
<1>2. ASSUME NEW j \in 1 .. Len(s), Only(s, MarkKinds, t, j), s[j].kind = kind,
             ~Is(x, MarkKinds, t)
      PROVE  MarkOn(Append(s, x), t, kind)
  <2>1. Only(Append(s, x), MarkKinds, t, j)
    BY <1>2, FreeAppend
  <2> QED BY <1>1, <1>2, <2>1 DEF MarkOn
<1>3. ASSUME Free(s, MarkKinds, t), Is(x, MarkKinds, t)
      PROVE  MarkOn(Append(s, x), t, x.kind)
  <2>1. Only(Append(s, x), MarkKinds, t, Len(s) + 1)
    BY <1>3, FreeAppend
  <2> QED BY <1>1, <2>1 DEF MarkOn
<1> QED BY <1>2, <1>3 DEF MarkOn

\* The mark is the message that is read, or it stays.
LEMMA MarkTail ==
    ASSUME NEW s \in Seq(Msgs), s # <<>>, NEW t, NEW kind, MarkOn(s, t, kind)
    PROVE  \/ /\ Is(Head(s), MarkKinds, t) /\ Head(s).kind = kind
              /\ Free(Tail(s), MarkKinds, t)
           \/ ~Is(Head(s), MarkKinds, t) /\ MarkOn(Tail(s), t, kind)
<1>1. PICK j \in 1 .. Len(s) : Only(s, MarkKinds, t, j) /\ s[j].kind = kind
    BY DEF MarkOn
<1>2. /\ Head(s) = s[1] /\ Len(Tail(s)) = Len(s) - 1 /\ Len(s) \in Nat
      /\ \A i \in 1 .. Len(Tail(s)) : Tail(s)[i] = s[i + 1]
    BY TailSeq
<1>3. CASE Is(Head(s), MarkKinds, t)
  <2>1. j = 1 /\ Free(Tail(s), MarkKinds, t)
    BY <1>1, <1>3, FreeTail
  <2> QED BY <1>1, <1>2, <1>3, <2>1
<1>4. CASE ~Is(Head(s), MarkKinds, t)
  <2>1. j > 1 /\ Only(Tail(s), MarkKinds, t, j - 1)
    BY <1>1, <1>4, FreeTail
  <2>2. j - 1 \in 1 .. Len(Tail(s)) /\ Tail(s)[j - 1].kind = kind
    BY <1>1, <1>2, <2>1
  <2> QED BY <1>4, <2>1, <2>2 DEF MarkOn
<1> QED BY <1>3, <1>4

\* The same for an answer: nothing but the mark of its sender goes before it.
LEMMA RespAppend ==
    ASSUME NEW s \in Seq(Msgs), NEW x \in Msgs, NEW t
    PROVE  /\ RespOn(s, t) /\ ~Is(x, RespKinds, t) /\ ~Is(x, MarkKinds, t)
              => RespOn(Append(s, x), t)
           /\ Free(s, RespKinds, t) /\ Is(x, RespKinds, t) => RespOn(Append(s, x), t)
<1>1. /\ Len(s) \in Nat /\ Append(s, x)[Len(s) + 1] = x
      /\ Len(Append(s, x)) = Len(s) + 1
      /\ \A i \in 1 .. Len(s) : Append(s, x)[i] = s[i]
    BY AppendSeq
<1>2. ASSUME NEW j \in 1 .. Len(s), Only(s, RespKinds, t, j),
             \A k \in 1 .. Len(s) : Is(s[k], MarkKinds, t) => k < j,
             ~Is(x, RespKinds, t), ~Is(x, MarkKinds, t)
      PROVE  RespOn(Append(s, x), t)
  <2>1. Only(Append(s, x), RespKinds, t, j)
    BY <1>2, FreeAppend
  <2>2. \A k \in 1 .. Len(Append(s, x)) : Is(Append(s, x)[k], MarkKinds, t) => k < j
    BY <1>1, <1>2
  <2> QED BY <1>1, <1>2, <2>1, <2>2 DEF RespOn
<1>3. ASSUME Free(s, RespKinds, t), Is(x, RespKinds, t)
      PROVE  RespOn(Append(s, x), t)
  <2>1. Only(Append(s, x), RespKinds, t, Len(s) + 1)
    BY <1>3, FreeAppend
  <2>2. ~Is(x, MarkKinds, t)
    BY <1>3 DEF Is, RespKinds, MarkKinds
  <2>3. \A k \in 1 .. Len(Append(s, x)) :
           Is(Append(s, x)[k], MarkKinds, t) => k < Len(s) + 1
    BY <1>1, <2>2
  <2> QED BY <1>1, <2>1, <2>3 DEF RespOn
<1> QED BY <1>2, <1>3 DEF RespOn

\* When the answer is read, the mark was read already.
LEMMA RespTail ==
    ASSUME NEW s \in Seq(Msgs), s # <<>>, NEW t, RespOn(s, t)
    PROVE  \/ /\ Is(Head(s), RespKinds, t) /\ Free(Tail(s), RespKinds, t)
              /\ Free(s, MarkKinds, t)
           \/ ~Is(Head(s), RespKinds, t) /\ RespOn(Tail(s), t)
<1>1. PICK j \in 1 .. Len(s) : /\ Only(s, RespKinds, t, j)
                               /\ \A k \in 1 .. Len(s) : Is(s[k], MarkKinds, t) => k < j
    BY DEF RespOn
<1>2. /\ Head(s) = s[1] /\ Len(Tail(s)) = Len(s) - 1 /\ Len(s) \in Nat
      /\ \A i \in 1 .. Len(Tail(s)) : Tail(s)[i] = s[i + 1]
    BY TailSeq
<1>3. CASE Is(Head(s), RespKinds, t)
  <2>1. j = 1 /\ Free(Tail(s), RespKinds, t)
    BY <1>1, <1>3, FreeTail
  <2>2. Free(s, MarkKinds, t)
    BY <1>1, <1>2, <2>1 DEF Free
  <2> QED BY <1>3, <2>1, <2>2
<1>4. CASE ~Is(Head(s), RespKinds, t)
  <2>1. j > 1 /\ Only(Tail(s), RespKinds, t, j - 1)
    BY <1>1, <1>4, FreeTail
  <2>2. \A k \in 1 .. Len(Tail(s)) : Is(Tail(s)[k], MarkKinds, t) => k < j - 1
    BY <1>1, <1>2
  <2>3. j - 1 \in 1 .. Len(Tail(s))
    BY <1>1, <1>2, <2>1
  <2> QED BY <1>4, <2>1, <2>2, <2>3 DEF RespOn
<1> QED BY <1>3, <1>4

-----------------------------------------------------------------------------
(* Messages and objects *)

LEMMA MsgKinds ==
    /\ \A t \in Token : \A k \in Obj!SnapKinds : SnapMsg(k, t) \in SnapMsgs
    /\ \A i \in Item : Item2Msg(i) \in ItemMsgs
    /\ SnapMsgs \subseteq Msgs /\ ItemMsgs \subseteq Msgs
    /\ MarkKinds \cup RespKinds = Obj!SnapKinds
    /\ \A k \in MarkKinds : k \notin RespKinds /\ k # "RESPONSE"
    /\ "PUBLIC_STATE" \notin Obj!SnapKinds
    /\ \A p, t : MarkKind(p, t) \in MarkKinds
BY DEF SnapMsg, SnapMsgs, Item2Msg, ItemMsgs, Msgs, MarkKinds, RespKinds, Obj!SnapKinds,
       MarkKind

\* A message is a snapshot's or an item's.
LEMMA MsgSplit ==
    ASSUME NEW m \in Msgs
    PROVE  /\ m.kind \in Obj!SnapKinds <=> m \in SnapMsgs
           /\ m.kind = "PUBLIC_STATE" <=> m \in ItemMsgs
           /\ m \in SnapMsgs => m.token \in Token /\ m.kind \in MarkKinds \cup RespKinds
           /\ m \in ItemMsgs => m.item \in Item
BY DEF Msgs, SnapMsgs, ItemMsgs, Obj!SnapKinds, MarkKinds, RespKinds

\* A message for a snapshot is about one token, and no item.
LEMMA ItemApart ==
    ASSUME NEW m, m.kind = "PUBLIC_STATE"
    PROVE  \A K \in {MarkKinds, RespKinds} : \A t : ~Is(m, K, t)
BY DEF Is, MarkKinds, RespKinds

\* There are N - 1 others.
LEMMA AgentsFinite ==
    /\ IsFiniteSet(Agent)
    /\ \A a \in Agent : IsFiniteSet(Others(a)) /\ Cardinality(Others(a)) = N - 1
<1>1. N - 1 \in Int /\ 0 \in Int /\ N \in Nat /\ ~(0 > N - 1)
    BY SizeAssumption
<1>2. IsFiniteSet(Agent) /\ Cardinality(Agent) = N
  <2>1. \A e \in Int : /\ IsFiniteSet(0 .. e)
                       /\ Cardinality(0 .. e) = IF 0 > e THEN 0 ELSE e - 0 + 1
    BY <1>1, FS_Interval
  <2>2. Cardinality(Agent) = N - 1 - 0 + 1
    BY <1>1, <2>1 DEF Agent
  <2> QED BY <1>1, <2>1, <2>2 DEF Agent
<1>3. ASSUME NEW a \in Agent
      PROVE  IsFiniteSet(Others(a)) /\ Cardinality(Others(a)) = N - 1
    BY <1>2, <1>3, FS_RemoveElement DEF Others
<1> QED BY <1>2, <1>3

\* mark_remain and resp_remain reach zero when all others were heard.
LEMMA ObjCardinality == \A S : Obj!Cardinality(S) = Cardinality(S)
BY DEF Obj!Cardinality, Cardinality

\* Who has heard N - 1 others has heard all.
LEMMA HeardAll ==
    ASSUME NEW a \in Agent, NEW S \in SUBSET Agent, a \notin S
    PROVE  Cardinality(S) = N - 1 <=> S = Others(a)
<1>1. S \subseteq Others(a)
    BY DEF Others
<1>2. IsFiniteSet(Others(a)) /\ Cardinality(Others(a)) = N - 1
    BY AgentsFinite
<1> QED BY <1>1, <1>2, FS_Subset

\* A record is no NoCut.
LEMMA NoCutApart ==
    \A r \in SUBSET Item : r # NoCut
BY ItemAssumption DEF NoCut

-----------------------------------------------------------------------------
(* What follows from the invariant about the message at the head of a channel *)

LEMMA StartedTokens ==
    ASSUME TypeOK
    PROVE  DOMAIN started \subseteq Token /\ \A t \in DOMAIN started : started[t] \in Agent
<1>1. started \in Seq(Agent) /\ Len(started) <= MaxSnap
    BY DEF TypeOK
<1> QED BY <1>1, SnapAssumption DEF Token

\* Agents take part in snapshots that were started.
LEMMA TokenStarted ==
    ASSUME TypeOK, Progress, NEW a \in Agent, NEW t \in Token, TakesPart(a, t)
    PROVE  t \in DOMAIN started
BY DEF TypeOK, Progress, TakesPart

\* A mark that arrives is the only one on its way, and comes in time.
LEMMA HeadMark ==
    ASSUME Typed, Objects, Progress, Shapes, NEW a \in Agent, NEW b \in Others(a),
           chan[b][a] # <<>>, NEW t \in Token, Is(Head(chan[b][a]), MarkKinds, t)
    PROVE  /\ TakesPart(b, t) /\ ~MarkRead(b, a, t) /\ t \in DOMAIN started
           /\ Head(chan[b][a]).kind = MarkKind(b, t)
           /\ Free(Tail(chan[b][a]), MarkKinds, t)
           /\ ~Done(a, t)
<1>1. chan[b][a] \in Seq(Msgs) /\ MarkShape(b, a, t) /\ b \in Agent
    BY DEF Typed, Chans, Shapes, Others
<1>2. TakesPart(b, t) /\ ~MarkRead(b, a, t) /\ MarkOn(chan[b][a], t, MarkKind(b, t))
    BY <1>1, FreeTail DEF MarkShape
<1>3. /\ Head(chan[b][a]).kind = MarkKind(b, t)
      /\ Free(Tail(chan[b][a]), MarkKinds, t)
    BY <1>1, <1>2, MarkTail
<1>4. t \in DOMAIN started
    BY <1>1, <1>2, TokenStarted DEF Typed
<1> QED BY <1>2, <1>3, <1>4 DEF MarkRead

\* So is an answer; it arrives at the initiator, after the mark.
LEMMA HeadResp ==
    ASSUME Typed, Objects, Progress, Shapes, NEW a \in Agent, NEW b \in Others(a),
           chan[b][a] # <<>>, NEW t \in Token, Is(Head(chan[b][a]), RespKinds, t)
    PROVE  /\ Done(b, t) /\ ~RespRead(b, a, t) /\ t \in DOMAIN started
           /\ a = started[t] /\ t \in DOMAIN objs[a] /\ b \in Marks(a, t)
           /\ Free(Tail(chan[b][a]), RespKinds, t)
           /\ ~Done(a, t)
<1>1. chan[b][a] \in Seq(Msgs) /\ MarkShape(b, a, t) /\ RespShape(b, a, t) /\ b \in Agent
    BY DEF Typed, Chans, Shapes, Others
<1>2. Done(b, t) /\ a = started[t] /\ ~RespRead(b, a, t) /\ RespOn(chan[b][a], t)
    BY <1>1, FreeTail DEF RespShape
<1>3. Free(Tail(chan[b][a]), RespKinds, t) /\ Free(chan[b][a], MarkKinds, t)
    BY <1>1, <1>2, RespTail
<1>4. t \in DOMAIN started
    BY <1>1, <1>2, TokenStarted DEF Typed, TakesPart
<1>5. t \in DOMAIN objs[a] /\ ~Done(a, t)
    BY <1>2, <1>4 DEF Progress, TakesPart, RespRead
<1>6. MarkRead(b, a, t)
  <2>1. ~MarkOn(chan[b][a], t, MarkKind(b, t))
    BY <1>3 DEF MarkOn, Only, Free
  <2> QED BY <1>1, <1>2, <2>1 DEF MarkShape, TakesPart
<1> QED BY <1>2, <1>3, <1>4, <1>5, <1>6 DEF MarkRead

-----------------------------------------------------------------------------
(* How an item fares in a channel *)

\* i is still there, or is still not; of the tokens, those of T got a mark
\* behind it.
Keeps(s, u, i, T) ==
    /\ NoItem(s, i) => NoItem(u, i)
    /\ \A k : OneItem(s, i, k) =>
          \E l : /\ OneItem(u, i, l)
                 /\ \A t : MarkAfter(u, l, t) <=> MarkAfter(s, k, t) \/ t \in T

\* A channel that does not change.
LEMMA KeepsSame ==
    ASSUME NEW s, NEW i
    PROVE  Keeps(s, s, i, {})
BY DEF Keeps

\* An item in a channel to which a message is added,
LEMMA ItemAppend ==
    ASSUME NEW s \in Seq(Msgs), NEW x \in Msgs, NEW i
    PROVE  /\ NoItem(s, i) /\ ~ItemIs(x, i) => NoItem(Append(s, x), i)
           /\ NoItem(s, i) /\ ItemIs(x, i) => OneItem(Append(s, x), i, Len(s) + 1)
           /\ \A k : OneItem(s, i, k) /\ ~ItemIs(x, i) => OneItem(Append(s, x), i, k)
           /\ \A t : ~MarkAfter(Append(s, x), Len(s) + 1, t)
           /\ \A t : \A k \in 1 .. Len(s) :
                 MarkAfter(Append(s, x), k, t) <=> MarkAfter(s, k, t) \/ Is(x, MarkKinds, t)
<1> DEFINE u == Append(s, x)
<1>1. /\ Len(s) \in Nat /\ Len(u) = Len(s) + 1 /\ u[Len(s) + 1] = x
      /\ \A j \in 1 .. Len(s) : u[j] = s[j]
    BY AppendSeq
<1> HIDE DEF u
<1>2. NoItem(s, i) /\ ~ItemIs(x, i) => NoItem(u, i)
    BY <1>1 DEF NoItem
<1>3. NoItem(s, i) /\ ItemIs(x, i) => OneItem(u, i, Len(s) + 1)
    BY <1>1 DEF NoItem, OneItem
<1>4. \A k : OneItem(s, i, k) /\ ~ItemIs(x, i) => OneItem(u, i, k)
    BY <1>1 DEF OneItem
<1>5. \A t : ~MarkAfter(u, Len(s) + 1, t)
    BY <1>1 DEF MarkAfter
<1>6. ASSUME NEW t, NEW k \in 1 .. Len(s)
      PROVE  MarkAfter(u, k, t) <=> MarkAfter(s, k, t) \/ Is(x, MarkKinds, t)
  <2>1. ASSUME MarkAfter(u, k, t), ~Is(x, MarkKinds, t) PROVE MarkAfter(s, k, t)
    BY <1>1, <2>1 DEF MarkAfter
  <2>2. ASSUME MarkAfter(s, k, t) PROVE MarkAfter(u, k, t)
    BY <1>1, <2>2 DEF MarkAfter
  <2>3. ASSUME Is(x, MarkKinds, t) PROVE MarkAfter(u, k, t)
    <3>1. Len(s) + 1 \in 1 .. Len(u) /\ Len(s) + 1 > k
      BY <1>1
    <3> QED BY <1>1, <2>3, <3>1 DEF MarkAfter
  <2> QED BY <2>1, <2>2, <2>3
<1> QED BY <1>2, <1>3, <1>4, <1>5, <1>6 DEF u

\* and from which one is read.
LEMMA ItemTail ==
    ASSUME NEW s \in Seq(Msgs), s # <<>>, NEW i
    PROVE  /\ NoItem(s, i) => NoItem(Tail(s), i)
           /\ \A k : OneItem(s, i, k) =>
                 \/ k = 1 /\ ItemIs(Head(s), i) /\ NoItem(Tail(s), i)
                 \/ k > 1 /\ ~ItemIs(Head(s), i) /\ OneItem(Tail(s), i, k - 1)
           /\ \A t : \A k \in 2 .. Len(s) :
                 MarkAfter(Tail(s), k - 1, t) <=> MarkAfter(s, k, t)
<1> DEFINE u == Tail(s)
<1>1. /\ Len(s) \in Nat /\ Len(s) >= 1 /\ Len(u) = Len(s) - 1 /\ Head(s) = s[1]
      /\ \A j \in 1 .. Len(u) : u[j] = s[j + 1]
    BY TailSeq
<1> HIDE DEF u
<1>2. NoItem(s, i) => NoItem(u, i)
    BY <1>1 DEF NoItem
<1>3. ASSUME NEW k, OneItem(s, i, k)
      PROVE  \/ k = 1 /\ ItemIs(Head(s), i) /\ NoItem(u, i)
             \/ k > 1 /\ ~ItemIs(Head(s), i) /\ OneItem(u, i, k - 1)
  <2>1. CASE k = 1
    BY <1>1, <1>3, <2>1 DEF OneItem, NoItem
  <2>2. CASE k > 1
    BY <1>1, <1>3, <2>2 DEF OneItem
  <2> QED BY <1>3, <2>1, <2>2 DEF OneItem
<1>4. ASSUME NEW t, NEW k \in 2 .. Len(s)
      PROVE  MarkAfter(u, k - 1, t) <=> MarkAfter(s, k, t)
  <2>1. ASSUME NEW j \in 1 .. Len(u), j > k - 1, Is(u[j], MarkKinds, t)
        PROVE  MarkAfter(s, k, t)
    <3>1. j + 1 \in 1 .. Len(s) /\ j + 1 > k /\ s[j + 1] = u[j]
      BY <1>1, <2>1
    <3> QED BY <2>1, <3>1 DEF MarkAfter
  <2>2. ASSUME NEW j \in 1 .. Len(s), j > k, Is(s[j], MarkKinds, t)
        PROVE  MarkAfter(u, k - 1, t)
    <3>1. j - 1 \in 1 .. Len(u) /\ j - 1 > k - 1 /\ s[j] = u[j - 1]
      BY <1>1, <2>2
    <3> QED BY <2>2, <3>1 DEF MarkAfter
  <2> QED BY <2>1, <2>2 DEF MarkAfter
<1> QED BY <1>2, <1>3, <1>4 DEF u

\* Another message is added: if it is a mark, then behind the item.
LEMMA KeepsAppend ==
    ASSUME NEW s \in Seq(Msgs), NEW x \in Msgs, NEW i, ~ItemIs(x, i)
    PROVE  /\ \A t0 : x.kind \in MarkKinds /\ x.token = t0
                      => Keeps(s, Append(s, x), i, {t0})
           /\ x.kind \notin MarkKinds => Keeps(s, Append(s, x), i, {})
<1>1. /\ NoItem(s, i) => NoItem(Append(s, x), i)
      /\ \A k : OneItem(s, i, k) => OneItem(Append(s, x), i, k) /\ k \in 1 .. Len(s)
      /\ \A t : \A k \in 1 .. Len(s) :
            MarkAfter(Append(s, x), k, t) <=> MarkAfter(s, k, t) \/ Is(x, MarkKinds, t)
    BY ItemAppend DEF OneItem
<1>2. ASSUME NEW t0, x.kind \in MarkKinds, x.token = t0
      PROVE  Keeps(s, Append(s, x), i, {t0})
  <2>1. \A t : Is(x, MarkKinds, t) <=> t \in {t0}
    BY <1>2 DEF Is
  <2> QED BY <1>1, <2>1 DEF Keeps
<1>3. ASSUME x.kind \notin MarkKinds
      PROVE  Keeps(s, Append(s, x), i, {})
  <2>1. \A t : ~Is(x, MarkKinds, t)
    BY <1>3 DEF Is
  <2> QED BY <1>1, <2>1 DEF Keeps
<1> QED BY <1>2, <1>3

\* Another message is read: it was in front of the item.
LEMMA KeepsTail ==
    ASSUME NEW s \in Seq(Msgs), s # <<>>, NEW i, ~ItemIs(Head(s), i)
    PROVE  Keeps(s, Tail(s), i, {})
<1>1. NoItem(s, i) => NoItem(Tail(s), i)
    BY ItemTail
<1>2. ASSUME NEW k, OneItem(s, i, k)
      PROVE  \E l : /\ OneItem(Tail(s), i, l)
                    /\ \A t : MarkAfter(Tail(s), l, t) <=> MarkAfter(s, k, t)
  <2>1. k > 1 /\ OneItem(Tail(s), i, k - 1)
    BY <1>2, ItemTail
  <2>2. k \in 2 .. Len(s)
    BY <1>2, <2>1 DEF OneItem
  <2>3. \A t : MarkAfter(Tail(s), k - 1, t) <=> MarkAfter(s, k, t)
    BY <2>2, ItemTail
  <2> QED BY <2>1, <2>3
<1> QED BY <1>1, <1>2 DEF Keeps

\* One after the other.
LEMMA KeepsBoth ==
    ASSUME NEW s, NEW u, NEW v, NEW i, NEW T,
           Keeps(s, u, i, T), Keeps(u, v, i, {})
    PROVE  Keeps(s, v, i, T)
<1>1. NoItem(s, i) => NoItem(v, i)
    BY DEF Keeps
<1>2. ASSUME NEW k, OneItem(s, i, k)
      PROVE  \E l : /\ OneItem(v, i, l)
                    /\ \A t : MarkAfter(v, l, t) <=> MarkAfter(s, k, t) \/ t \in T
  <2>1. PICK j : /\ OneItem(u, i, j)
                 /\ \A t : MarkAfter(u, j, t) <=> MarkAfter(s, k, t) \/ t \in T
    BY <1>2 DEF Keeps
  <2>2. PICK l : /\ OneItem(v, i, l)
                 /\ \A t : MarkAfter(v, l, t) <=> MarkAfter(u, j, t)
    BY <2>1 DEF Keeps
  <2> QED BY <2>1, <2>2
<1> QED BY <1>1, <1>2 DEF Keeps

\* What a step in which a begins to take part in the snapshots of T does to the
\* records of an item.
RecordsOf(i, a, T) ==
    /\ \A t \in DOMAIN started' \ T :
          /\ t \in DOMAIN started
          /\ \A p \in Agent : TakesPart(p, t)' <=> TakesPart(p, t)
          /\ (Never(i, t) => Never(i, t)') /\ (Once(i, t) => Once(i, t)')
    /\ \A t \in T :
          /\ ~TakesPart(a, t)
          /\ \A p \in Agent : TakesPart(p, t)' <=> TakesPart(p, t) \/ p = a
          /\ t \in DOMAIN started \/ (Never(i, t) /\ \A p \in Agent : ~TakesPart(p, t))
          /\ i \in hold[a] /\ Never(i, t) => Once(i, t)'
          /\ i \notin hold[a] => /\ Never(i, t) => Never(i, t)'
                                 /\ Once(i, t) => Once(i, t)'

Located(i) ==
    \/ \E a \in Agent : Held(i, a)
    \/ \E p, q \in Agent : \E k \in 1 .. Len(chan[p][q]) : Sent(i, p, q, k)

\* An item that the step does not move.
LEMMA ItemStays ==
    ASSUME NEW i, Located(i), NEW a \in Agent, NEW T, RecordsOf(i, a, T),
           \A b \in Agent : i \in hold'[b] <=> i \in hold[b],
           \A p, q \in Agent :
              Keeps(chan[p][q], chan'[p][q], i, IF p = a THEN T ELSE {})
    PROVE  Located(i)'
<1>1. ASSUME NEW c \in Agent, Held(i, c)
      PROVE  Held(i, c)'
  <2>1. \A b \in Agent : i \in hold'[b] <=> b = c
    BY <1>1 DEF Held
  <2>2. \A p, q \in Agent : NoItem(chan'[p][q], i)
    BY <1>1 DEF Held, Keeps
  <2>3. ASSUME NEW t \in DOMAIN started'
        PROVE  IF TakesPart(c, t)' THEN Once(i, t)' ELSE Never(i, t)'
    <3>1. CASE t \notin T
      BY <1>1, <3>1 DEF RecordsOf, Held
    <3>2. CASE t \in T /\ c = a
      BY <1>1, <3>2 DEF RecordsOf, Held
    <3>3. CASE t \in T /\ c # a
      <4>1. i \notin hold[a]
        BY <1>1, <3>3 DEF Held
      <4>2. /\ TakesPart(c, t)' <=> TakesPart(c, t)
            /\ Never(i, t) => Never(i, t)'
            /\ Once(i, t) => Once(i, t)'
        BY <3>3, <4>1 DEF RecordsOf
      <4>3. t \in DOMAIN started \/ (Never(i, t) /\ ~TakesPart(c, t))
        BY <3>3 DEF RecordsOf
      <4> QED BY <1>1, <4>2, <4>3 DEF Held
    <3> QED BY <3>1, <3>2, <3>3
  <2> QED BY <2>1, <2>2, <2>3 DEF Held
<1>2. ASSUME NEW p \in Agent, NEW q \in Agent, NEW k \in 1 .. Len(chan[p][q]),
             Sent(i, p, q, k)
      PROVE  \E l \in 1 .. Len(chan'[p][q]) : Sent(i, p, q, l)'
  <2>1. PICK l : /\ OneItem(chan'[p][q], i, l)
                 /\ \A t : MarkAfter(chan'[p][q], l, t)
                           <=> \/ MarkAfter(chan[p][q], k, t)
                               \/ t \in IF p = a THEN T ELSE {}
    BY <1>2 DEF Sent, Keeps
  <2>2. \A b \in Agent : i \notin hold'[b] /\ i \notin hold[b]
    BY <1>2 DEF Sent
  <2>3. \A x, y \in Agent : ~(x = p /\ y = q) => NoItem(chan'[x][y], i)
    BY <1>2 DEF Sent, Keeps
  <2>4. ASSUME NEW t \in DOMAIN started'
        PROVE  IF Unmarked(p, q, l, t)' THEN Never(i, t)' ELSE Once(i, t)'
    <3>1. CASE t \notin T
      <4>1. /\ TakesPart(p, t)' <=> TakesPart(p, t)
            /\ (Never(i, t) => Never(i, t)') /\ (Once(i, t) => Once(i, t)')
            /\ t \in DOMAIN started
        BY <3>1 DEF RecordsOf
      <4>2. MarkAfter(chan'[p][q], l, t) <=> MarkAfter(chan[p][q], k, t)
        BY <2>1, <3>1
      <4> QED BY <1>2, <4>1, <4>2 DEF Sent, Unmarked
    <3>2. CASE t \in T
      <4>1. /\ ~TakesPart(a, t)
            /\ TakesPart(p, t)' <=> TakesPart(p, t) \/ p = a
            /\ (Never(i, t) => Never(i, t)') /\ (Once(i, t) => Once(i, t)')
            /\ t \in DOMAIN started \/ (Never(i, t) /\ ~TakesPart(p, t))
        BY <2>2, <3>2 DEF RecordsOf
      <4>2. CASE p = a
        <5>1. MarkAfter(chan'[p][q], l, t)
          BY <2>1, <3>2, <4>2
        <5>2. Never(i, t)
          BY <1>2, <4>1, <4>2 DEF Sent, Unmarked
        <5> QED BY <4>1, <5>1, <5>2 DEF Unmarked
      <4>3. CASE p # a
        <5>1. MarkAfter(chan'[p][q], l, t) <=> MarkAfter(chan[p][q], k, t)
          BY <2>1, <4>3
        <5> QED BY <1>2, <4>1, <4>3, <5>1 DEF Sent, Unmarked
      <4> QED BY <4>2, <4>3
    <3> QED BY <3>1, <3>2
  <2> QED BY <2>1, <2>2, <2>3, <2>4 DEF Sent, OneItem
<1> QED BY <1>1, <1>2 DEF Located

-----------------------------------------------------------------------------
(* Steps that move an item leave the snapshots as they are, but for records *)

Steady ==
    /\ \A a \in Agent :
          /\ DOMAIN objs'[a] = DOMAIN objs[a]
          /\ \A t \in DOMAIN objs[a] : /\ objs'[a][t].count = objs[a][t].count
                                       /\ objs'[a][t].init = objs[a][t].init
    /\ cut' = cut /\ started' = started

\* Such a step keeps who takes part, and what was read,
LEMMA SteadyFacts ==
    ASSUME Steady
    PROVE  \A a \in Agent : \A t :
              /\ Done(a, t)' <=> Done(a, t)
              /\ TakesPart(a, t)' <=> TakesPart(a, t)
              /\ \A p \in Agent : /\ MarkRead(p, a, t)' <=> MarkRead(p, a, t)
                                  /\ RespRead(p, a, t)' <=> RespRead(p, a, t)
BY DEF Steady, Done, TakesPart, MarkRead, RespRead, Marks, Resps

\* the registries,
LEMMA SteadyObjects ==
    ASSUME TypeOK, Objects, Progress, Steady
    PROVE  Objects' /\ Progress'
<1>1. \A a \in Agent : \A t : /\ Done(a, t)' <=> Done(a, t)
                              /\ TakesPart(a, t)' <=> TakesPart(a, t)
    BY SteadyFacts
<1>2. ASSUME NEW a \in Agent, NEW t \in DOMAIN objs'[a]
      PROVE  /\ t \in DOMAIN objs[a] /\ cut'[t][a] = cut[t][a]
             /\ Resps(a, t)' = Resps(a, t) /\ Marks(a, t)' = Marks(a, t)
             /\ objs'[a][t].init = objs[a][t].init /\ started'[t] = started[t]
             /\ Marks(a, t) \subseteq Agent /\ Resps(a, t) \subseteq Agent
  <2>1. t \in DOMAIN objs[a]
    BY <1>2 DEF Steady
  <2>2. objs[a][t].count.marks \subseteq Agent /\ objs[a][t].count.resps \subseteq Agent
    BY <2>1 DEF TypeOK, ObjectType
  <2> QED BY <1>2, <2>1, <2>2 DEF Steady, Marks, Resps
<1>3. Objects'
    BY <1>1, <1>2 DEF Objects
<1>4. \A t \in DOMAIN started : started[t] \in Agent
    BY DEF TypeOK
<1>5. Progress'
    BY <1>1, <1>4 DEF Progress, Steady
<1> QED BY <1>3, <1>5

\* A channel to which an item was added, from which one was read, or neither.
LEMMA SteadyShape ==
    ASSUME Steady, NEW p \in Agent, NEW q \in Agent, NEW t,
           chan[p][q] \in Seq(Msgs), MarkShape(p, q, t), RespShape(p, q, t),
           \/ chan'[p][q] = chan[p][q]
           \/ \E x \in ItemMsgs : chan'[p][q] = Append(chan[p][q], x)
           \/ /\ chan[p][q] # <<>> /\ Head(chan[p][q]) \in ItemMsgs
              /\ chan'[p][q] = Tail(chan[p][q])
    PROVE  MarkShape(p, q, t)' /\ RespShape(p, q, t)'
<1>1. /\ TakesPart(p, t)' <=> TakesPart(p, t)
      /\ Done(p, t)' <=> Done(p, t)
      /\ MarkRead(p, q, t)' <=> MarkRead(p, q, t)
      /\ RespRead(p, q, t)' <=> RespRead(p, q, t)
      /\ started' = started /\ MarkKind(p, t)' = MarkKind(p, t)
    BY SteadyFacts DEF Steady, MarkKind
<1>2. \A x \in ItemMsgs : x \in Msgs /\ ~Is(x, MarkKinds, t) /\ ~Is(x, RespKinds, t)
    BY ItemApart DEF ItemMsgs, Msgs
<1>3. /\ MarkOn(chan[p][q], t, MarkKind(p, t)) => MarkOn(chan'[p][q], t, MarkKind(p, t))
      /\ RespOn(chan[p][q], t) => RespOn(chan'[p][q], t)
      /\ \A K \in {MarkKinds, RespKinds} : Free(chan[p][q], K, t) => Free(chan'[p][q], K, t)
  <2>1. CASE chan'[p][q] = chan[p][q]
    BY <2>1
  <2>2. ASSUME NEW x \in ItemMsgs, chan'[p][q] = Append(chan[p][q], x)
        PROVE  <1>3!1 /\ <1>3!2 /\ <1>3!3
    BY <1>2, <2>2, MarkAppend, RespAppend, FreeAppend
  <2>3. CASE /\ chan[p][q] # <<>> /\ Head(chan[p][q]) \in ItemMsgs
             /\ chan'[p][q] = Tail(chan[p][q])
    BY <1>2, <2>3, MarkTail, RespTail, FreeTail
  <2> QED BY <2>1, <2>2, <2>3
<1> QED BY <1>1, <1>3 DEF MarkShape, RespShape

\* and the records of all other items.
LEMMA SteadyRecords ==
    ASSUME Steady, NEW i,
           \A a \in Agent : \A t \in DOMAIN objs[a] :
              i \in objs'[a][t].rec <=> i \in objs[a][t].rec
    PROVE  \A a \in Agent : RecordsOf(i, a, {})
<1>1. \A a \in Agent : \A t : i \in Rec(a, t)' <=> i \in Rec(a, t)
    BY DEF Steady, Rec, Done
<1>2. \A t : (Never(i, t)' <=> Never(i, t)) /\ (Once(i, t)' <=> Once(i, t))
    BY <1>1 DEF Never, Once
<1> QED BY <1>2, SteadyFacts DEF RecordsOf, Steady

\* Two items are not one.
LEMMA ItemMsg ==
    ASSUME NEW i \in Item
    PROVE  /\ Item2Msg(i) \in ItemMsgs /\ Item2Msg(i) \in Msgs
           /\ ItemIs(Item2Msg(i), i)
           /\ \A j \in Item : ItemIs(Item2Msg(i), j) => j = i
           /\ Item2Msg(i).kind \notin MarkKinds
BY DEF Item2Msg, ItemMsgs, Msgs, ItemIs, MarkKinds

\* An agent sends an item away, which is recorded if its sender has begun to record.
LEMMA SendItemStep ==
    ASSUME SnapInv, NEW a \in Agent, NEW b \in Others(a), SendItem(a, b)
    PROVE  SnapInv'
<1>0. TypeOK /\ chan \in Chans /\ Objects /\ Progress /\ Shapes /\ b \in Agent /\ a # b
    BY DEF SnapInv, Typed, Others
<1>1. PICK x \in Item : /\ x \in hold[a]
                        /\ hold' = [hold EXCEPT ![a] = @ \ {x}]
                        /\ chan' = Send(chan, a, {b}, Item2Msg(x))
    BY <1>0 DEF SendItem, TypeOK
<1>2. \A p, q \in Agent : chan'[p][q] = IF p = a /\ q = b
                                        THEN Append(chan[p][q], Item2Msg(x)) ELSE chan[p][q]
    BY <1>1 DEF Send
<1>3. Steady /\ objs' = objs
    BY DEF SendItem, Steady
<1>4. Typed'
  <2>1. ASSUME NEW p \in Agent, NEW q \in Agent
        PROVE  chan'[p][q] \in Seq(Msgs)
    <3>1. chan[p][q] \in Seq(Msgs) /\ Item2Msg(x) \in Msgs
      BY <1>0, ItemMsg DEF Chans
    <3>2. Append(chan[p][q], Item2Msg(x)) \in Seq(Msgs)
      BY <3>1, AppendSeq
    <3> QED BY <1>2, <3>1, <3>2
  <2>2. chan' \in Chans
    BY <1>1, <1>2, <2>1 DEF Send, Chans
  <2>3. hold' \in [Agent -> SUBSET Item]
    BY <1>0, <1>1 DEF TypeOK
  <2>4. TypeOK'
    BY <1>0, <1>3, <2>3 DEF TypeOK, Steady
  <2> QED BY <1>3, <2>2, <2>4 DEF SnapInv, Typed
<1>5. Objects' /\ Progress'
    BY <1>0, <1>3, SteadyObjects
<1>6. Shapes'
  <2>1. ASSUME NEW p \in Agent, NEW q \in Others(p), NEW t \in Token
        PROVE  MarkShape(p, q, t)' /\ RespShape(p, q, t)'
    <3>1. /\ q \in Agent /\ chan[p][q] \in Seq(Msgs)
          /\ MarkShape(p, q, t) /\ RespShape(p, q, t)
      BY <1>0 DEF Shapes, Others, Chans
    <3>2. \/ chan'[p][q] = chan[p][q]
          \/ \E y \in ItemMsgs : chan'[p][q] = Append(chan[p][q], y)
      BY <1>2, <3>1, ItemMsg
    <3> QED BY <1>3, <3>1, <3>2, SteadyShape
  <2>2. \A p \in Agent : chan'[p][p] = <<>>
    BY <1>0, <1>2 DEF Shapes
  <2> QED BY <2>1, <2>2 DEF Shapes
<1>7. ASSUME NEW i \in Item, i # x
      PROVE  Located(i)'
  <2>1. Located(i)
    BY DEF SnapInv, Items, Located
  <2>2. RecordsOf(i, a, {})
    BY <1>3, SteadyRecords
  <2>3. \A c \in Agent : i \in hold'[c] <=> i \in hold[c]
    BY <1>0, <1>1, <1>7 DEF TypeOK
  <2>4. \A p, q \in Agent : Keeps(chan[p][q], chan'[p][q], i, IF p = a THEN {} ELSE {})
    <3>1. ASSUME NEW p \in Agent, NEW q \in Agent
          PROVE  Keeps(chan[p][q], chan'[p][q], i, {})
      <4>1. ~ItemIs(Item2Msg(x), i) /\ Item2Msg(x) \in Msgs
            /\ Item2Msg(x).kind \notin MarkKinds /\ chan[p][q] \in Seq(Msgs)
        BY <1>0, <1>7, ItemMsg DEF Chans
      <4>2. Keeps(chan[p][q], Append(chan[p][q], Item2Msg(x)), i, {})
        BY <4>1, KeepsAppend
      <4> QED BY <1>2, <4>2, KeepsSame
    <3> QED BY <3>1
  <2> QED BY <2>1, <2>2, <2>3, <2>4, ItemStays
<1>8. Located(x)'
  <2>1. Held(x, a)
    <3>1. Located(x)
      BY DEF SnapInv, Items, Located
    <3> QED BY <1>1, <3>1 DEF Located, Held, Sent
  <2>0. PICK l : l = Len(chan[a][b]) + 1
    OBVIOUS
  <2>2. OneItem(chan'[a][b], x, l) /\ \A t : ~MarkAfter(chan'[a][b], l, t)
    <3>1. NoItem(chan[a][b], x) /\ chan[a][b] \in Seq(Msgs)
      BY <1>0, <2>1 DEF Held, Chans
    <3> QED BY <1>0, <1>2, <2>0, <3>1, ItemMsg, ItemAppend
  <2>3. \A c \in Agent : x \notin hold'[c]
    BY <1>0, <1>1, <2>1 DEF TypeOK, Held
  <2>4. \A p, q \in Agent : ~(p = a /\ q = b) => NoItem(chan'[p][q], x)
    BY <1>2, <2>1 DEF Held
  <2>5. ASSUME NEW t \in DOMAIN started'
        PROVE  IF Unmarked(a, b, l, t)' THEN Never(x, t)' ELSE Once(x, t)'
    <3>1. RecordsOf(x, a, {})
      BY <1>3, SteadyRecords
    <3>2. /\ t \in DOMAIN started
          /\ TakesPart(a, t)' <=> TakesPart(a, t)
          /\ (Never(x, t) => Never(x, t)') /\ (Once(x, t) => Once(x, t)')
      BY <2>5, <3>1 DEF RecordsOf
    <3>3. IF TakesPart(a, t) THEN Once(x, t) ELSE Never(x, t)
      BY <2>1, <3>2 DEF Held
    <3>4. ~MarkAfter(chan'[a][b], l, t)
      BY <2>2
    <3> QED BY <3>2, <3>3, <3>4 DEF Unmarked
  <2>6. l \in 1 .. Len(chan'[a][b])
    BY <2>2 DEF OneItem
  <2>7. Sent(x, a, b, l)'
    BY <2>2, <2>3, <2>4, <2>5 DEF Sent
  <2> QED BY <1>0, <2>6, <2>7 DEF Located
<1>9. Items'
    BY <1>7, <1>8 DEF Items, Located
<1> QED BY <1>4, <1>5, <1>6, <1>9 DEF SnapInv

\* An item arrives: if a has begun the snapshot but not seen the mark behind the
\* item, this is the moment at which the item is recorded.
LEMMA RecvItemStep ==
    ASSUME SnapInv, NEW a \in Agent, NEW b \in Others(a), RecvItem(a, b)
    PROVE  SnapInv'
<1>0. TypeOK /\ chan \in Chans /\ Objects /\ Progress /\ Shapes /\ b \in Agent /\ a # b
    BY DEF SnapInv, Typed, Others
<1>1. PICK x \in Item :
         /\ chan[b][a] # <<>> /\ Head(chan[b][a]) \in ItemMsgs
         /\ Head(chan[b][a]).item = x /\ ItemIs(Head(chan[b][a]), x)
         /\ objs' = [objs EXCEPT ![a] =
                       [t \in DOMAIN objs[a] |-> Updated(objs[a][t], b, x)]]
         /\ hold' = [hold EXCEPT ![a] = @ \cup {x}]
         /\ chan' = Consume(chan, b, a)
         /\ started' = started /\ cut' = cut
  <2>1. chan[b][a] # <<>> /\ chan[b][a] \in Seq(Msgs) /\ Head(chan[b][a]).kind = "PUBLIC_STATE"
    BY <1>0 DEF RecvItem, Chans
  <2>2. Head(chan[b][a]) \in ItemMsgs /\ Head(chan[b][a]).item \in Item
    BY <2>1, MsgSplit, TailSeq
  <2> QED BY <2>1, <2>2 DEF RecvItem, ItemIs
<1>2. \A p, q \in Agent : chan'[p][q] = IF p = b /\ q = a
                                        THEN Tail(chan[p][q]) ELSE chan[p][q]
    BY <1>0, <1>1 DEF Consume, Chans
<1>3. /\ \A c \in Agent \ {a} : objs'[c] = objs[c]
      /\ objs'[a] = [t \in DOMAIN objs[a] |-> Updated(objs[a][t], b, x)]
      /\ objs' = [c \in Agent |-> objs'[c]]
    BY <1>1 DEF SnapInv, Typed
<1>4. \A t \in DOMAIN objs[a] :
         /\ objs[a][t] \in ObjectType
         /\ objs'[a][t].count = objs[a][t].count
         /\ objs'[a][t].init = objs[a][t].init
         /\ objs'[a][t].rec = IF b \in Marks(a, t) THEN objs[a][t].rec
                                                   ELSE objs[a][t].rec \cup {x}
  <2>1. ASSUME NEW o \in ObjectType
        PROVE  /\ Updated(o, b, x).count = o.count /\ Updated(o, b, x).init = o.init
               /\ Updated(o, b, x).rec = IF b \in o.count.marks THEN o.rec ELSE o.rec \cup {x}
               /\ Updated(o, b, x) \in ObjectType
    BY DEF ObjectType, Updated, Obj!Updates
  <2> TAKE t \in DOMAIN objs[a]
  <2>2. objs[a][t] \in ObjectType
    BY <1>0 DEF TypeOK
  <2>3. objs'[a][t] = Updated(objs[a][t], b, x)
    BY <1>3
  <2> QED BY <2>1, <2>2, <2>3 DEF Marks
<1>5. Steady
  <2>1. \A c \in Agent : DOMAIN objs'[c] = DOMAIN objs[c]
    BY <1>3
  <2>2. ASSUME NEW c \in Agent, NEW t \in DOMAIN objs[c]
        PROVE  objs'[c][t].count = objs[c][t].count /\ objs'[c][t].init = objs[c][t].init
    <3>1. CASE c = a
      BY <1>4, <2>2, <3>1
    <3>2. CASE c # a
      BY <1>3, <3>2
    <3> QED BY <3>1, <3>2
  <2> QED BY <1>1, <2>1, <2>2 DEF Steady
<1>6. Typed'
  <2>1. ASSUME NEW p \in Agent, NEW q \in Agent
        PROVE  chan'[p][q] \in Seq(Msgs)
    <3>1. chan[p][q] \in Seq(Msgs) /\ chan[b][a] \in Seq(Msgs)
      BY <1>0 DEF Chans
    <3>2. Tail(chan[b][a]) \in Seq(Msgs)
      BY <1>1, <3>1, TailSeq
    <3> QED BY <1>2, <3>1, <3>2
  <2>2. chan' \in Chans
    <3>1. chan' = [p \in Agent |-> [q \in Agent |-> chan'[p][q]]]
      BY <1>0, <1>1 DEF Consume, Chans
    <3> QED BY <2>1, <3>1 DEF Chans
  <2>3. hold' \in [Agent -> SUBSET Item]
    BY <1>0, <1>1 DEF TypeOK
  <2>4. ASSUME NEW c \in Agent
        PROVE  /\ DOMAIN objs'[c] \subseteq DOMAIN started'
               /\ \A t \in DOMAIN objs'[c] :
                     /\ objs'[c][t] \in ObjectType
                     /\ objs'[c][t].count.initiator <=> started'[t] = c
                     /\ c \notin objs'[c][t].count.marks \cup objs'[c][t].count.resps
    <3>1. /\ DOMAIN objs[c] \subseteq DOMAIN started
          /\ \A t \in DOMAIN objs[c] :
                /\ objs[c][t] \in ObjectType
                /\ objs[c][t].count.initiator <=> started[t] = c
                /\ c \notin objs[c][t].count.marks \cup objs[c][t].count.resps
      BY <1>0 DEF TypeOK
    <3>2. CASE c # a
      BY <1>1, <1>3, <3>1, <3>2
    <3>3. CASE c = a
      <4>1. \A o \in ObjectType : Updated(o, b, x) \in ObjectType
        BY DEF ObjectType, Updated
      <4>2. DOMAIN objs'[a] = DOMAIN objs[a]
        BY <1>3
      <4>3. ASSUME NEW t \in DOMAIN objs[a]
            PROVE  /\ objs'[a][t] \in ObjectType
                   /\ objs'[a][t].count.initiator <=> started'[t] = a
                   /\ a \notin objs'[a][t].count.marks \cup objs'[a][t].count.resps
        <5>1. objs'[a][t] = Updated(objs[a][t], b, x)
          BY <1>3
        <5>2. objs'[a][t] \in ObjectType
          BY <3>1, <3>3, <4>1, <5>1
        <5>3. objs'[a][t].count = objs[a][t].count
          BY <1>4
        <5> QED BY <1>1, <3>1, <3>3, <5>2, <5>3
      <4> QED BY <1>1, <3>1, <3>3, <4>2, <4>3
    <3> QED BY <3>2, <3>3
  <2>5. TypeOK'
    BY <1>0, <1>1, <2>3, <2>4 DEF TypeOK
  <2> QED BY <1>3, <2>2, <2>5 DEF Typed
<1>7. Objects' /\ Progress'
    BY <1>0, <1>5, SteadyObjects
<1>8. Shapes'
  <2>1. ASSUME NEW p \in Agent, NEW q \in Others(p), NEW t \in Token
        PROVE  MarkShape(p, q, t)' /\ RespShape(p, q, t)'
    <3>1. /\ q \in Agent /\ chan[p][q] \in Seq(Msgs)
          /\ MarkShape(p, q, t) /\ RespShape(p, q, t)
      BY <1>0 DEF Shapes, Others, Chans
    <3>2. \/ chan'[p][q] = chan[p][q]
          \/ /\ chan[p][q] # <<>> /\ Head(chan[p][q]) \in ItemMsgs
             /\ chan'[p][q] = Tail(chan[p][q])
      BY <1>1, <1>2, <3>1
    <3> QED BY <1>5, <3>1, <3>2, SteadyShape
  <2>2. \A p \in Agent : chan'[p][p] = <<>>
    BY <1>0, <1>2 DEF Shapes
  <2> QED BY <2>1, <2>2 DEF Shapes
<1>9. \A i \in Item \ {x} : ~ItemIs(Head(chan[b][a]), i)
    BY <1>1 DEF ItemIs
<1>10. ASSUME NEW i \in Item, i # x
       PROVE  Located(i)'
  <2>1. Located(i)
    BY DEF SnapInv, Items, Located
  <2>2. RecordsOf(i, a, {})
    <3>1. \A c \in Agent : \A t \in DOMAIN objs[c] :
             i \in objs'[c][t].rec <=> i \in objs[c][t].rec
      <4> TAKE c \in Agent
      <4> TAKE t \in DOMAIN objs[c]
      <4>1. CASE c = a
        <5>1. objs'[a][t].rec = IF b \in Marks(a, t) THEN objs[a][t].rec
                                                   ELSE objs[a][t].rec \cup {x}
          BY <1>4, <4>1
        <5> QED BY <1>10, <4>1, <5>1
      <4>2. CASE c # a
        BY <1>3, <4>2
      <4> QED BY <4>1, <4>2
    <3> QED BY <1>5, <3>1, SteadyRecords
  <2>3. \A c \in Agent : i \in hold'[c] <=> i \in hold[c]
    BY <1>0, <1>1, <1>10 DEF TypeOK
  <2>4. \A p, q \in Agent : Keeps(chan[p][q], chan'[p][q], i, IF p = a THEN {} ELSE {})
    <3>1. ASSUME NEW p \in Agent, NEW q \in Agent
          PROVE  Keeps(chan[p][q], chan'[p][q], i, {})
      <4>1. CASE p = b /\ q = a
        <5>1. chan[b][a] \in Seq(Msgs) /\ ~ItemIs(Head(chan[b][a]), i)
          BY <1>0, <1>9, <1>10 DEF Chans
        <5>2. Keeps(chan[b][a], Tail(chan[b][a]), i, {})
          BY <1>1, <5>1, KeepsTail
        <5> QED BY <1>2, <4>1, <5>2
      <4>2. CASE ~(p = b /\ q = a)
        BY <1>2, <4>2, KeepsSame
      <4> QED BY <4>1, <4>2
    <3> QED BY <3>1
  <2> QED BY <2>1, <2>2, <2>3, <2>4, ItemStays
<1>11. chan[b][a] \in Seq(Msgs) /\ Head(chan[b][a]) = chan[b][a][1] /\ Len(chan[b][a]) >= 1
       /\ Len(chan[b][a]) \in Nat
    BY <1>0, <1>1, TailSeq DEF Chans
\* The item was in the channel, with a mark behind it or not.
<1>12. Sent(x, b, a, 1)
  <2>1. ItemIs(chan[b][a][1], x) /\ 1 \in 1 .. Len(chan[b][a])
    BY <1>1, <1>11
  <2>2. ~NoItem(chan[b][a], x)
    BY <2>1 DEF NoItem
  <2>3. Located(x)
    BY DEF SnapInv, Items, Located
  <2>4. PICK p \in Agent, q \in Agent : \E k \in 1 .. Len(chan[p][q]) : Sent(x, p, q, k)
    BY <1>0, <2>2, <2>3 DEF Located, Held
  <2>5. p = b /\ q = a
    BY <1>0, <2>2, <2>4 DEF Sent
  <2> QED BY <2>1, <2>4, <2>5 DEF Sent, OneItem
<1>13. ASSUME NEW t \in DOMAIN started'
       PROVE  IF TakesPart(a, t)' THEN Once(x, t)' ELSE Never(x, t)'
  <2>1. t \in DOMAIN started /\ t \in Token
    BY <1>0, <1>1, <1>13, StartedTokens
  <2>2. IF Unmarked(b, a, 1, t) THEN Never(x, t) ELSE Once(x, t)
    BY <1>12, <2>1 DEF Sent
  <2>3. TakesPart(a, t)' <=> TakesPart(a, t)
    BY <1>5, SteadyFacts
  <2>4. MarkShape(b, a, t)
    BY <1>0, <2>1 DEF Shapes, Others
  <2>5. \A c \in Agent \ {a} : x \in Rec(c, t)' <=> x \in Rec(c, t)
    BY <1>1, <1>3 DEF Rec, Done
  \* It belongs to the snapshot, and a records it.
  <2>6. CASE t \in DOMAIN objs[a] /\ b \notin Marks(a, t)
    <3>1. ~Done(a, t)
      BY <1>0, <2>6 DEF Objects, Done
    <3>2. Unmarked(b, a, 1, t)
      <4>1. CASE TakesPart(b, t)
        <5>1. MarkOn(chan[b][a], t, MarkKind(b, t))
          BY <2>4, <2>6, <3>1, <4>1 DEF MarkShape, MarkRead
        <5>2. PICK j \in 1 .. Len(chan[b][a]) : Is(chan[b][a][j], MarkKinds, t)
          BY <5>1 DEF MarkOn, Only
        <5>3. j # 1
          <6>1. ~Is(chan[b][a][1], MarkKinds, t)
            BY <1>1, <1>11, ItemApart DEF ItemIs
          <6> QED BY <5>2, <6>1
        <5>4. j > 1
          BY <5>3, <1>11
        <5> QED BY <5>2, <5>4 DEF Unmarked, MarkAfter
      <4> QED BY <4>1 DEF Unmarked
    <3>3. \A c \in Agent : x \notin Rec(c, t)
      BY <2>2, <3>2 DEF Never
    <3>4. x \in Rec(a, t)'
      BY <1>3, <1>4, <2>6 DEF Rec
    <3>5. Once(x, t)'
      BY <2>5, <3>3, <3>4 DEF Once
    <3> QED BY <2>3, <2>6, <3>5 DEF TakesPart
  \* It does not.
  <2>7. CASE ~(t \in DOMAIN objs[a] /\ b \notin Marks(a, t))
    <3>1. x \in Rec(a, t)' <=> x \in Rec(a, t)
      <4>1. DOMAIN objs'[a] = DOMAIN objs[a] /\ (Done(a, t)' <=> Done(a, t))
            /\ cut' = cut
        BY <1>1, <1>3, SteadyFacts, <1>5
      <4>2. t \in DOMAIN objs[a] => objs'[a][t].rec = objs[a][t].rec
        BY <1>4, <2>7
      <4> QED BY <4>1, <4>2 DEF Rec
    <3>2. (Never(x, t)' <=> Never(x, t)) /\ (Once(x, t)' <=> Once(x, t))
      BY <2>5, <3>1 DEF Never, Once
    <3>3. TakesPart(a, t) <=> ~Unmarked(b, a, 1, t)
      <4>1. ASSUME TakesPart(a, t) PROVE TakesPart(b, t) /\ MarkRead(b, a, t)
        <5>1. CASE t \in DOMAIN objs[a]
          BY <1>0, <2>7, <5>1 DEF Objects, MarkRead
        <5>2. CASE Done(a, t)
          BY <1>0, <2>1, <5>2 DEF Progress, MarkRead
        <5> QED BY <4>1, <5>1, <5>2 DEF TakesPart
      <4>2. ASSUME TakesPart(a, t) PROVE ~Unmarked(b, a, 1, t)
        <5>1. Free(chan[b][a], MarkKinds, t)
          BY <2>4, <4>1, <4>2 DEF MarkShape
        <5> QED BY <4>1, <4>2, <5>1 DEF Unmarked, MarkAfter, Free
      <4>3. ASSUME ~Unmarked(b, a, 1, t) PROVE TakesPart(a, t)
        <5>1. TakesPart(b, t) /\ ~MarkAfter(chan[b][a], 1, t)
          BY <4>3 DEF Unmarked
        <5>2. ~Is(chan[b][a][1], MarkKinds, t)
          BY <1>1, <1>11, ItemApart DEF ItemIs
        <5>3. ~MarkOn(chan[b][a], t, MarkKind(b, t))
          BY <1>11, <5>1, <5>2 DEF MarkOn, Only, MarkAfter
        <5> QED BY <2>4, <5>1, <5>3 DEF MarkShape, MarkRead, TakesPart
      <4> QED BY <4>2, <4>3
    <3> QED BY <2>2, <2>3, <3>2, <3>3
  <2> QED BY <2>6, <2>7
<1>14. Located(x)'
  <2>1. \A c \in Agent : x \in hold'[c] <=> c = a
    BY <1>0, <1>1, <1>12 DEF Sent, TypeOK
  <2>2. NoItem(Tail(chan[b][a]), x)
    BY <1>1, <1>11, <1>12, ItemTail DEF Sent
  <2>3. \A p, q \in Agent : NoItem(chan'[p][q], x)
    BY <1>2, <1>12, <2>2 DEF Sent
  <2>4. Held(x, a)'
    BY <1>13, <2>1, <2>3 DEF Held
  <2> QED BY <2>4 DEF Located
<1>15. Items'
    BY <1>10, <1>14 DEF Items, Located
<1> QED BY <1>6, <1>7, <1>8, <1>15 DEF SnapInv

-----------------------------------------------------------------------------
(* A snapshot begins *)

LEMMA StartEffect ==
    ASSUME TypeOK, chan \in Chans, objs = [c \in Agent |-> objs[c]], Progress,
           NEW a \in Agent, StartSnapshot(a)
    PROVE  \E t \in Token :
              /\ t \notin DOMAIN started /\ started' \in Seq(Agent)
              /\ Len(started') <= MaxSnap
              /\ DOMAIN started' = DOMAIN started \cup {t} /\ started'[t] = a
              /\ \A u \in DOMAIN started : started'[u] = started[u]
              /\ objs' = [c \in Agent |-> objs'[c]]
              /\ \A c \in Agent \ {a} : objs'[c] = objs[c]
              /\ DOMAIN objs'[a] = DOMAIN objs[a] \cup {t}
              /\ \A u \in DOMAIN objs[a] : objs'[a][u] = objs[a][u]
              /\ objs'[a][t] = [count |-> [initiator |-> TRUE, marks |-> {}, resps |-> {}],
                                init |-> a, rec |-> hold[a]]
              /\ chan' = Send(chan, a, Others(a), SnapMsg("INIT", t))
              /\ cut' = cut /\ hold' = hold
<1>1. PICK t : t = Len(started) + 1
    OBVIOUS
<1>2. /\ started \in Seq(Agent) /\ Len(started) \in Nat /\ Len(started) < MaxSnap
      /\ DOMAIN started = 1 .. Len(started)
    BY DEF TypeOK, StartSnapshot
<1>3. started' = Append(started, a)
    BY DEF StartSnapshot
<1>4. /\ t \in Token /\ t \notin DOMAIN started /\ started' \in Seq(Agent)
      /\ Len(started') <= MaxSnap
      /\ DOMAIN started' = DOMAIN started \cup {t} /\ started'[t] = a
      /\ \A u \in DOMAIN started : started'[u] = started[u]
    BY <1>1, <1>2, <1>3, SnapAssumption DEF Token
<1>5. PICK o : o = [Object(TRUE, hold[a]) EXCEPT !.init = a]
    OBVIOUS
<1>6. o = [count |-> [initiator |-> TRUE, marks |-> {}, resps |-> {}],
           init |-> a, rec |-> hold[a]]
    BY <1>5 DEF Object, Obj!NewObject
<1>7. objs' = [objs EXCEPT ![a] = [u \in DOMAIN objs[a] \cup {t} |->
                                     IF u = t THEN o ELSE objs[a][u]]]
    BY <1>1, <1>5 DEF StartSnapshot
<1>8. /\ objs' = [c \in Agent |-> objs'[c]]
      /\ \A c \in Agent \ {a} : objs'[c] = objs[c]
      /\ objs'[a] = [u \in DOMAIN objs[a] \cup {t} |-> IF u = t THEN o ELSE objs[a][u]]
    BY <1>7
<1>9. t \notin DOMAIN objs[a]
    BY <1>4 DEF TypeOK
<1>10. /\ DOMAIN objs'[a] = DOMAIN objs[a] \cup {t}
       /\ \A u \in DOMAIN objs[a] : objs'[a][u] = objs[a][u]
       /\ objs'[a][t] = o
    BY <1>8, <1>9
<1>11. /\ chan' = Send(chan, a, Others(a), SnapMsg("INIT", t))
       /\ cut' = cut /\ hold' = hold
    BY <1>1 DEF StartSnapshot
<1> QED BY <1>4, <1>6, <1>8, <1>10, <1>11

\* Sending keeps the types of the channels.
LEMMA SendChans ==
    ASSUME NEW ch \in Chans, NEW a \in Agent, NEW S, NEW m \in Msgs
    PROVE  Send(ch, a, S, m) \in Chans
<1>1. ASSUME NEW p \in Agent, NEW q \in Agent
      PROVE  (IF p = a /\ q \in S THEN Append(ch[p][q], m) ELSE ch[p][q]) \in Seq(Msgs)
    BY DEF Chans
<1> QED BY <1>1 DEF Send, Chans

\* The initiator records what it holds; its marks are behind what it sent before.
LEMMA StartStep ==
    ASSUME SnapInv, NEW a \in Agent, StartSnapshot(a)
    PROVE  SnapInv'
<1>0. /\ TypeOK /\ chan \in Chans /\ objs = [c \in Agent |-> objs[c]]
      /\ Objects /\ Progress /\ Shapes
    BY DEF SnapInv, Typed
<1>1. PICK t \in Token :
              /\ t \notin DOMAIN started /\ started' \in Seq(Agent)
              /\ Len(started') <= MaxSnap
              /\ DOMAIN started' = DOMAIN started \cup {t} /\ started'[t] = a
              /\ \A u \in DOMAIN started : started'[u] = started[u]
              /\ objs' = [c \in Agent |-> objs'[c]]
              /\ \A c \in Agent \ {a} : objs'[c] = objs[c]
              /\ DOMAIN objs'[a] = DOMAIN objs[a] \cup {t}
              /\ \A u \in DOMAIN objs[a] : objs'[a][u] = objs[a][u]
              /\ objs'[a][t] = [count |-> [initiator |-> TRUE, marks |-> {}, resps |-> {}],
                                init |-> a, rec |-> hold[a]]
              /\ chan' = Send(chan, a, Others(a), SnapMsg("INIT", t))
              /\ cut' = cut /\ hold' = hold
    BY <1>0, StartEffect
<1>2. PICK x \in SnapMsgs : x = SnapMsg("INIT", t) /\ x.kind = "INIT" /\ x.token = t
    BY MsgKinds DEF SnapMsg, Obj!SnapKinds
<1>3. \A p, q \in Agent : chan'[p][q] = IF p = a /\ q # a
                                        THEN Append(chan[p][q], x) ELSE chan[p][q]
    BY <1>1, <1>2 DEF Send, Others
<1>4. \A c \in Agent : t \notin DOMAIN objs[c] /\ ~Done(c, t)
    BY <1>0, <1>1 DEF TypeOK, Progress
<1>5. \A c \in Agent : \A u \in Token \ {t} :
         /\ u \in DOMAIN objs'[c] <=> u \in DOMAIN objs[c]
         /\ u \in DOMAIN objs[c] => objs'[c][u] = objs[c][u]
         /\ cut'[u][c] = cut[u][c]
    BY <1>1
<1>6. \A c \in Agent : \A u \in Token \ {t} :
         /\ Done(c, u)' <=> Done(c, u)
         /\ TakesPart(c, u)' <=> TakesPart(c, u)
         /\ Rec(c, u)' = Rec(c, u)
         /\ \A p \in Agent : /\ MarkRead(p, c, u)' <=> MarkRead(p, c, u)
                             /\ RespRead(p, c, u)' <=> RespRead(p, c, u)
    BY <1>5 DEF Done, TakesPart, Rec, MarkRead, RespRead, Marks, Resps
<1>7. \A c \in Agent :
         /\ ~Done(c, t)'
         /\ TakesPart(c, t)' <=> c = a
         /\ Rec(c, t)' = IF c = a THEN hold[a] ELSE {}
         /\ \A p \in Agent : ~MarkRead(p, c, t)'
  <2> TAKE c \in Agent
  <2>1. ~Done(c, t)'
    BY <1>1, <1>4 DEF Done
  <2>2. CASE c # a
    BY <1>1, <1>4, <2>1, <2>2 DEF TakesPart, Rec, MarkRead
  <2>3. CASE c = a
    BY <1>1, <2>1, <2>3 DEF TakesPart, Rec, MarkRead, Marks
  <2> QED BY <2>1, <2>2, <2>3
<1>8. DOMAIN started \subseteq Token /\ \A u \in DOMAIN started : started[u] \in Agent
    BY <1>0, StartedTokens
<1>9. \A c \in Agent : \A u \in DOMAIN objs[c] : u \in DOMAIN started /\ u \in Token /\ u # t
    BY <1>0, <1>1, <1>8 DEF TypeOK
<1>10. Others(a) # {} /\ \A p \in Agent : Others(p) \subseteq Agent
  <2>1. (IF a = 0 THEN 1 ELSE 0) \in Others(a)
    BY SizeAssumption DEF Others, Agent
  <2> QED BY <2>1 DEF Others
<1>11. Typed'
  <2>1. chan' \in Chans
    BY <1>0, <1>1, <1>2, SendChans DEF Msgs
  <2>2. ASSUME NEW c \in Agent
        PROVE  /\ DOMAIN objs'[c] \subseteq DOMAIN started'
               /\ \A u \in DOMAIN objs'[c] :
                     /\ objs'[c][u] \in ObjectType
                     /\ objs'[c][u].count.initiator <=> started'[u] = c
                     /\ c \notin objs'[c][u].count.marks \cup objs'[c][u].count.resps
    <3>1. /\ DOMAIN objs[c] \subseteq DOMAIN started
          /\ \A u \in DOMAIN objs[c] :
                /\ objs[c][u] \in ObjectType
                /\ objs[c][u].count.initiator <=> started[u] = c
                /\ c \notin objs[c][u].count.marks \cup objs[c][u].count.resps
      BY <1>0 DEF TypeOK
    <3>2. \A u \in DOMAIN objs[c] :
                /\ objs'[c][u] = objs[c][u] /\ started'[u] = started[u]
      BY <1>1, <1>5, <1>9
    <3>3. CASE c # a
      <4>1. DOMAIN objs'[c] = DOMAIN objs[c]
        BY <1>1, <3>3
      <4> QED BY <1>1, <3>1, <3>2, <4>1
    <3>4. CASE c = a
      <4>1. objs'[a][t] \in ObjectType
        BY <1>0, <1>1 DEF ObjectType, TypeOK
      <4>2. /\ objs'[a][t].count.initiator <=> started'[t] = a
            /\ a \notin objs'[a][t].count.marks \cup objs'[a][t].count.resps
        BY <1>1
      <4> QED BY <1>1, <3>1, <3>2, <3>4, <4>1, <4>2
    <3> QED BY <3>3, <3>4
  <2>3. TypeOK'
    BY <1>0, <1>1, <2>2 DEF TypeOK
  <2> QED BY <1>1, <2>1, <2>3 DEF Typed
<1>12. Objects'
  <2> SUFFICES ASSUME NEW c \in Agent, NEW u \in DOMAIN objs'[c]
               PROVE  /\ cut'[u][c] = NoCut
                      /\ c # started'[u] => Resps(c, u)' = {} /\ Marks(c, u)' # Others(c)
                      /\ c = started'[u] => Resps(c, u)' # Others(c)
                      /\ Resps(c, u)' \subseteq Marks(c, u)'
                      /\ started'[u] \in Marks(c, u)' \cup {c} => objs'[c][u].init = started'[u]
                      /\ \A p \in Marks(c, u)' : TakesPart(p, u)'
                      /\ \A p \in Resps(c, u)' : Done(p, u)'
    BY DEF Objects
  <2>1. CASE u = t
    <3>1. c = a
      BY <1>1, <1>4, <2>1
    <3>2. Marks(c, u)' = {} /\ Resps(c, u)' = {} /\ objs'[c][u].init = a
      BY <1>1, <2>1, <3>1 DEF Marks, Resps
    <3>3. cut'[u][c] = NoCut
      BY <1>7, <2>1 DEF Done
    <3> QED BY <1>1, <1>10, <2>1, <3>1, <3>2, <3>3
  <2>2. CASE u # t
    <3>1. u \in DOMAIN objs[c]
      BY <1>1, <2>2
    <3>2. /\ u \in DOMAIN started /\ u \in Token \ {t}
          /\ Marks(c, u) \subseteq Agent /\ Resps(c, u) \subseteq Agent
      BY <1>0, <1>9, <3>1 DEF TypeOK, ObjectType, Marks, Resps
    <3>3. /\ objs'[c][u] = objs[c][u] /\ cut'[u][c] = cut[u][c]
          /\ started'[u] = started[u]
          /\ Marks(c, u)' = Marks(c, u) /\ Resps(c, u)' = Resps(c, u)
      BY <1>1, <1>5, <3>1, <3>2 DEF Marks, Resps
    <3>4. \A p \in Agent : (Done(p, u)' <=> Done(p, u)) /\ (TakesPart(p, u)' <=> TakesPart(p, u))
      BY <1>6, <3>2
    <3> QED BY <1>0, <3>1, <3>2, <3>3, <3>4 DEF Objects
  <2> QED BY <2>1, <2>2
<1>13. Progress'
  <2>1. \A u \in Token \ DOMAIN started' : \A c \in Agent : ~Done(c, u)'
    BY <1>0, <1>1, <1>6 DEF Progress
  <2>2. ASSUME NEW u \in DOMAIN started'
        PROVE  /\ \A c \in Agent : c = started'[u] =>
                     TakesPart(c, u)' /\ (Done(c, u)' => \A p \in Agent : Done(p, u)')
               /\ \A c \in Agent : Done(c, u)' => \A p \in Agent : TakesPart(p, u)'
               /\ started'[u] \in Agent
    <3>1. CASE u = t
      BY <1>1, <1>7, <3>1
    <3>2. CASE u # t
      <4>1. u \in DOMAIN started /\ u \in Token \ {t} /\ started'[u] = started[u]
            /\ started[u] \in Agent
        BY <1>1, <1>8, <3>2
      <4>2. /\ TakesPart(started[u], u)
            /\ \A c \in Agent : Done(c, u) => \A p \in Agent : TakesPart(p, u)
            /\ Done(started[u], u) => \A p \in Agent : Done(p, u)
        BY <1>0, <4>1 DEF Progress
      <4>3. \A c \in Agent : /\ Done(c, u)' <=> Done(c, u)
                             /\ TakesPart(c, u)' <=> TakesPart(c, u)
        BY <1>6, <4>1
      <4> QED BY <4>1, <4>2, <4>3
    <3> QED BY <3>1, <3>2
  <2> QED BY <2>1, <2>2 DEF Progress
<1>14. Shapes'
  <2>1. ASSUME NEW p \in Agent, NEW q \in Others(p), NEW u \in Token
        PROVE  MarkShape(p, q, u)' /\ RespShape(p, q, u)'
    <3>1. /\ q \in Agent /\ p # q /\ chan[p][q] \in Seq(Msgs) /\ x \in Msgs
          /\ MarkShape(p, q, u) /\ RespShape(p, q, u)
      BY <1>0 DEF Shapes, Others, Chans, Msgs
    <3>2. ~Is(x, RespKinds, u) /\ (Is(x, MarkKinds, u) <=> u = t)
      BY <1>2 DEF Is, RespKinds, MarkKinds
    <3>3. CASE u = t
      <4>1. Free(chan[p][q], MarkKinds, t) /\ Free(chan[p][q], RespKinds, t)
        BY <1>4, <3>1, <3>3 DEF MarkShape, RespShape, TakesPart
      <4>2. Free(chan'[p][q], RespKinds, t)
        BY <1>3, <3>1, <3>2, <3>3, <4>1, FreeAppend
      <4>3. CASE p = a
        <5>1. MarkOn(chan'[p][q], t, "INIT")
          BY <1>2, <1>3, <3>1, <3>2, <3>3, <4>1, <4>3, MarkAppend
        <5>2. MarkKind(p, t)' = "INIT"
          BY <1>1, <4>3 DEF MarkKind
        <5> QED BY <1>7, <3>1, <3>3, <4>2, <4>3, <5>1, <5>2 DEF MarkShape, RespShape
      <4>4. CASE p # a
        BY <1>3, <1>7, <3>1, <3>3, <4>1, <4>2, <4>4 DEF MarkShape, RespShape
      <4> QED BY <4>3, <4>4
    <3>4. CASE u # t
      <4>1. /\ TakesPart(p, u)' <=> TakesPart(p, u)
            /\ Done(p, u)' <=> Done(p, u)
            /\ MarkRead(p, q, u)' <=> MarkRead(p, q, u)
            /\ RespRead(p, q, u)' <=> RespRead(p, q, u)
        BY <1>6, <3>1, <3>4
      <4>2. TakesPart(p, u) => u \in DOMAIN started /\ started'[u] = started[u]
                               /\ MarkKind(p, u)' = MarkKind(p, u)
        BY <1>0, <1>1, TokenStarted DEF MarkKind
      <4>3. /\ MarkOn(chan[p][q], u, MarkKind(p, u)) => MarkOn(chan'[p][q], u, MarkKind(p, u))
            /\ RespOn(chan[p][q], u) => RespOn(chan'[p][q], u)
            /\ \A K \in {MarkKinds, RespKinds} :
                  Free(chan[p][q], K, u) => Free(chan'[p][q], K, u)
        BY <1>3, <3>1, <3>2, <3>4, MarkAppend, RespAppend, FreeAppend
      <4>4. MarkShape(p, q, u)'
        BY <3>1, <4>1, <4>2, <4>3 DEF MarkShape
      <4>5. Done(p, u) => TakesPart(p, u)
        BY DEF TakesPart
      <4>6. RespShape(p, q, u)'
        BY <3>1, <4>1, <4>2, <4>3, <4>5 DEF RespShape
      <4> QED BY <4>4, <4>6
    <3> QED BY <3>3, <3>4
  <2>2. \A p \in Agent : chan'[p][p] = <<>>
    BY <1>0, <1>3 DEF Shapes
  <2> QED BY <2>1, <2>2 DEF Shapes
<1>15. ASSUME NEW i \in Item
       PROVE  Located(i)'
  <2>1. Located(i)
    BY DEF SnapInv, Items, Located
  <2>2. RecordsOf(i, a, {t})
    <3>1. \A u \in Token \ {t} : (Never(i, u)' <=> Never(i, u)) /\ (Once(i, u)' <=> Once(i, u))
      BY <1>6 DEF Never, Once
    <3>2. \A u \in DOMAIN started' \ {t} : u \in DOMAIN started /\ u \in Token \ {t}
      BY <1>1, <1>8
    <3>3. Never(i, t) /\ \A p \in Agent : ~TakesPart(p, t)
      BY <1>4 DEF Never, Rec, TakesPart
    <3>4. ~Once(i, t)
      BY <3>3 DEF Never, Once
    <3>5. i \in hold[a] => Once(i, t)'
      BY <1>7 DEF Once
    <3>6. i \notin hold[a] => Never(i, t)'
      BY <1>7 DEF Never
    <3> QED BY <1>6, <1>7, <3>1, <3>2, <3>3, <3>4, <3>5, <3>6 DEF RecordsOf
  <2>3. \A c \in Agent : i \in hold'[c] <=> i \in hold[c]
    BY <1>1
  <2>4. ASSUME NEW p \in Agent, NEW q \in Agent
        PROVE  Keeps(chan[p][q], chan'[p][q], i, IF p = a THEN {t} ELSE {})
    <3>1. x \in Msgs /\ ~ItemIs(x, i) /\ x.kind \in MarkKinds /\ chan[p][q] \in Seq(Msgs)
      BY <1>0, <1>2 DEF Msgs, ItemIs, MarkKinds, Chans
    <3>2. Keeps(chan[p][q], Append(chan[p][q], x), i, {t})
      BY <1>2, <3>1, KeepsAppend
    <3>3. CASE p = a /\ q # a
      BY <1>3, <3>2, <3>3
    <3>4. CASE p = a /\ q = a
      <4>1. chan[p][q] = <<>> /\ chan'[p][q] = <<>>
        BY <1>0, <1>3, <3>4 DEF Shapes
      <4>2. Keeps(<<>>, <<>>, i, {t})
        BY DEF Keeps, OneItem
      <4> QED BY <3>4, <4>1, <4>2
    <3>5. CASE p # a
      BY <1>3, <3>5, KeepsSame
    <3> QED BY <3>3, <3>4, <3>5
  <2> QED BY <2>1, <2>2, <2>3, <2>4, ItemStays
<1>16. Items'
    BY <1>15 DEF Items, Located
<1> QED BY <1>11, <1>12, <1>13, <1>14, <1>16 DEF SnapInv

-----------------------------------------------------------------------------
(* A mark or an answer arrives *)

\* The object of an agent before it counts the message, made for it if need be.
OldMarks(a, t) == IF Known(a, t) THEN Marks(a, t) ELSE {}
OldResps(a, t) == IF Known(a, t) THEN Resps(a, t) ELSE {}
OldRec(a, t)   == IF Known(a, t) THEN objs[a][t].rec ELSE hold[a]

\* The message is the last the agent waited for, and its object o is deleted.
Over(a, m, t, o) ==
    \/ a # started[t] /\ m.kind \in MarkKinds /\ o.count.marks = Others(a)
    \/ m.kind \in RespKinds /\ o.count.resps = Others(a)

\* What the agent sends to q.
Marked(a, q, t) == IF Known(a, t) THEN chan[a][q] ELSE Append(chan[a][q], SnapMsg("MARK", t))
Reply(a, q, m, t, o) ==
    IF Over(a, m, t, o) /\ a # started[t] /\ q = started[t]
    THEN Append(Marked(a, q, t), SnapMsg("RESPONSE", t)) ELSE Marked(a, q, t)

\* The message m, of token t, that a reads from b, and the object that counted it.
Arrived(a, b, m, t) ==
    /\ chan[b][a] # <<>> /\ m = Head(chan[b][a]) /\ m \in SnapMsgs
    /\ m.token = t /\ t \in Token /\ t \in DOMAIN started /\ started[t] \in Agent
    /\ ~Done(a, t)
    /\ ~Known(a, t) => a # started[t]
    /\ \/ /\ m.kind \in MarkKinds /\ m.kind = MarkKind(b, t)
          /\ TakesPart(b, t) /\ ~MarkRead(b, a, t)
          /\ Free(Tail(chan[b][a]), MarkKinds, t)
       \/ /\ m.kind \in RespKinds /\ Done(b, t) /\ ~RespRead(b, a, t)
          /\ a = started[t] /\ Known(a, t) /\ b \in Marks(a, t)
          /\ Free(Tail(chan[b][a]), RespKinds, t)

Counted(a, b, m, t, o) ==
    /\ o \in ObjectType /\ (o.count.initiator <=> started[t] = a)
    /\ o.count.marks = IF m.kind \in MarkKinds THEN OldMarks(a, t) \cup {b} ELSE OldMarks(a, t)
    /\ o.count.resps = IF m.kind \in RespKinds THEN OldResps(a, t) \cup {b} ELSE OldResps(a, t)
    /\ o.rec = OldRec(a, t)
    /\ a \notin o.count.marks /\ a \notin o.count.resps
    /\ started[t] \in o.count.marks \cup {a} => o.init = started[t]

Received(a, b, m, t, o) ==
    /\ hold' = hold /\ started' = started
    /\ objs' = [c \in Agent |-> objs'[c]]
    /\ \A c \in Agent \ {a} : objs'[c] = objs[c]
    /\ DOMAIN objs'[a] = IF Over(a, m, t, o) THEN DOMAIN objs[a] \ {t}
                                             ELSE DOMAIN objs[a] \cup {t}
    /\ \A u \in DOMAIN objs'[a] : objs'[a][u] = IF u = t THEN o ELSE objs[a][u]
    /\ cut' \in [Token -> [Agent -> (SUBSET Item) \cup {NoCut}]]
    /\ \A u \in Token : \A c \in Agent :
          cut'[u][c] = IF u = t /\ c = a /\ Over(a, m, t, o) THEN o.rec ELSE cut[u][c]
    /\ chan' \in Chans
    /\ \A p, q \in Agent : chan'[p][q] = IF p = b /\ q = a THEN Tail(chan[p][q])
                                         ELSE IF p = a /\ q # a THEN Reply(a, q, m, t, o)
                                         ELSE chan[p][q]

\* The message is what Arrived says.
LEMMA ArrivedHead ==
    ASSUME SnapInv, NEW a \in Agent, NEW b \in Others(a), RecvSnapshot(a, b),
           NEW m, NEW t, m = Head(chan[b][a]), t = m.token
    PROVE  Arrived(a, b, m, t)
<1>1. /\ Typed /\ TypeOK /\ Objects /\ Progress /\ Shapes /\ chan \in Chans
      /\ b \in Agent /\ a # b
    BY DEF SnapInv, Typed, Others
<1>2. chan[b][a] # <<>> /\ chan[b][a] \in Seq(Msgs) /\ m.kind \in Obj!SnapKinds
    BY <1>1 DEF RecvSnapshot, Chans
<1>3. m \in SnapMsgs /\ t \in Token
    BY <1>2, TailSeq, MsgSplit
<1>4. CASE m.kind \in MarkKinds
  <2>1. Is(Head(chan[b][a]), MarkKinds, t)
    BY <1>4 DEF Is
  <2>2. /\ TakesPart(b, t) /\ ~MarkRead(b, a, t) /\ t \in DOMAIN started
        /\ Head(chan[b][a]).kind = MarkKind(b, t)
        /\ Free(Tail(chan[b][a]), MarkKinds, t)
        /\ ~Done(a, t)
    BY <1>1, <1>2, <1>3, <2>1, HeadMark
  <2>3. ~Known(a, t) => a # started[t]
    BY <1>1, <2>2 DEF Progress, TakesPart, Known
  <2>4. started[t] \in Agent
    BY <1>1, <2>2, StartedTokens
  <2> QED BY <1>2, <1>3, <1>4, <2>2, <2>3, <2>4 DEF Arrived
<1>5. CASE m.kind \in RespKinds
  <2>1. Is(Head(chan[b][a]), RespKinds, t)
    BY <1>5 DEF Is
  <2>2. /\ Done(b, t) /\ ~RespRead(b, a, t) /\ t \in DOMAIN started
        /\ a = started[t] /\ t \in DOMAIN objs[a] /\ b \in Marks(a, t)
        /\ Free(Tail(chan[b][a]), RespKinds, t)
        /\ ~Done(a, t)
    BY <1>1, <1>2, <1>3, <2>1, HeadResp
  <2> QED BY <1>2, <1>3, <1>5, <2>2 DEF Arrived, Known
<1> QED BY <1>2, <1>4, <1>5, MsgKinds

\* The object is what Counted says.
LEMMA CountedObject ==
    ASSUME SnapInv, NEW a \in Agent, NEW b \in Others(a), NEW m, NEW t, Arrived(a, b, m, t),
           NEW j, j = Joined(a, t),
           NEW o, o = [j EXCEPT !.count = Obj!Count(j.count, m.kind, b),
                                !.init = IF m.kind = "INIT" THEN b ELSE @]
    PROVE  Counted(a, b, m, t, o)
<1>1. TypeOK /\ Objects /\ b \in Agent /\ a # b
    BY DEF SnapInv, Typed, Others
<1>2. /\ j \in ObjectType /\ (j.count.initiator <=> started[t] = a)
      /\ j.count.marks = OldMarks(a, t) /\ j.count.resps = OldResps(a, t)
      /\ j.rec = OldRec(a, t) /\ a \notin j.count.marks /\ a \notin j.count.resps
  <2>1. CASE Known(a, t)
    <3>1. j = objs[a][t] /\ t \in DOMAIN objs[a]
      BY <2>1 DEF Joined, Known
    <3> QED BY <1>1, <2>1, <3>1 DEF TypeOK, OldMarks, OldResps, OldRec, Marks, Resps
  <2>2. CASE ~Known(a, t)
    <3>1. j = [count |-> [initiator |-> FALSE, marks |-> {}, resps |-> {}],
               init |-> NoAgent, rec |-> hold[a]]
      BY <2>2 DEF Joined, Object, Obj!NewObject
    <3>2. a # started[t] /\ hold[a] \in SUBSET Item
      BY <1>1, <2>2 DEF Arrived, TypeOK
    <3>3. j \in ObjectType
      BY <3>1, <3>2 DEF ObjectType
    <3> QED BY <2>2, <3>1, <3>2, <3>3 DEF OldMarks, OldResps, OldRec
  <2> QED BY <2>1, <2>2
<1>3. /\ m.kind \in MarkKinds \/ m.kind \in RespKinds
      /\ m.kind \in MarkKinds => m.kind # "RESPONSE" /\ m.kind \notin RespKinds
      /\ m.kind \in RespKinds <=> m.kind = "RESPONSE"
    BY DEF Arrived, MarkKinds, RespKinds
<1>4. /\ o.count = Obj!Count(j.count, m.kind, b) /\ o.rec = j.rec
      /\ o.init = IF m.kind = "INIT" THEN b ELSE j.init
    BY <1>2 DEF ObjectType
<1>5. /\ o.count.initiator = j.count.initiator
      /\ o.count.marks = IF m.kind \in MarkKinds THEN j.count.marks \cup {b} ELSE j.count.marks
      /\ o.count.resps = IF m.kind \in RespKinds THEN j.count.resps \cup {b} ELSE j.count.resps
      /\ o.count \in [initiator : BOOLEAN, marks : SUBSET Agent, resps : SUBSET Agent]
    BY <1>1, <1>2, <1>3, <1>4 DEF Obj!Count, ObjectType
<1>6. o \in ObjectType
  <2>1. o.init \in Agent \cup {NoAgent} /\ o.rec \in SUBSET Item
    BY <1>1, <1>2, <1>4 DEF ObjectType
  <2> QED BY <1>2, <1>5, <2>1 DEF ObjectType
<1>7. started[t] \in o.count.marks \cup {a} => o.init = started[t]
  <2> SUFFICES ASSUME started[t] \in o.count.marks \cup {a} PROVE o.init = started[t]
    OBVIOUS
  <2>1. m.kind = "INIT" => b = started[t]
    BY DEF Arrived, MarkKind, RespKinds
  <2>2. CASE m.kind = "INIT"
    BY <1>4, <2>1, <2>2
  <2>3. CASE m.kind # "INIT"
    <3>1. m.kind \in MarkKinds => b # started[t]
      BY <2>3 DEF Arrived, MarkKind, MarkKinds, RespKinds
    <3>2. m.kind \in RespKinds => a = started[t]
      BY <1>3 DEF Arrived
    <3>3. started[t] \in j.count.marks \cup {a}
      BY <1>3, <1>5, <3>1, <3>2
    <3>4. Known(a, t)
      BY <1>2, <3>3 DEF Arrived, OldMarks
    <3>5. started[t] \in Marks(a, t) \cup {a} /\ j = objs[a][t] /\ t \in DOMAIN objs[a]
      BY <1>2, <3>3, <3>4 DEF OldMarks, Joined, Known
    <3>6. j.init = started[t]
      BY <1>1, <3>5 DEF Objects
    <3> QED BY <1>4, <2>3, <3>6
  <2> QED BY <2>2, <2>3
<1> QED BY <1>1, <1>2, <1>5, <1>6, <1>7 DEF Counted

\* The moment of deletion in the code is that of Over.
LEMMA FinishedOver ==
    ASSUME NEW a \in Agent, NEW b \in Others(a), NEW m, NEW t, NEW o,
           Arrived(a, b, m, t), Counted(a, b, m, t, o)
    PROVE  Obj!Finished(o.count, m.kind) <=> Over(a, m, t, o)
<1>1. /\ o.count.marks \in SUBSET Agent /\ o.count.resps \in SUBSET Agent
      /\ a \notin o.count.marks /\ a \notin o.count.resps
      /\ o.count.initiator <=> started[t] = a
    BY DEF Counted, ObjectType
<1>2. /\ Obj!Cardinality(o.count.marks) = N - 1 <=> o.count.marks = Others(a)
      /\ Obj!Cardinality(o.count.resps) = N - 1 <=> o.count.resps = Others(a)
    BY <1>1, HeardAll, ObjCardinality
<1>3. /\ m.kind \in MarkKinds <=> m.kind # "RESPONSE"
      /\ m.kind \in RespKinds <=> m.kind = "RESPONSE"
    BY DEF Arrived, MarkKinds, RespKinds
<1> QED BY <1>1, <1>2, <1>3
        DEF Obj!Finished, Obj!MarksComplete, Obj!RespsComplete, Over

\* The action is what Received says.
LEMMA RecvEffect ==
    ASSUME SnapInv, NEW a \in Agent, NEW b \in Others(a), RecvSnapshot(a, b)
    PROVE  \E m, t, o : /\ Arrived(a, b, m, t) /\ Counted(a, b, m, t, o)
                        /\ Received(a, b, m, t, o)
<1>0. /\ TypeOK /\ Objects /\ chan \in Chans /\ b \in Agent /\ a # b
      /\ objs = [c \in Agent |-> objs[c]]
    BY DEF SnapInv, Typed, Others
<1> DEFINE m == Head(chan[b][a])
           t == m.token
           j == Joined(a, t)
           o == [j EXCEPT !.count = Obj!Count(j.count, m.kind, b),
                          !.init = IF m.kind = "INIT" THEN b ELSE @]
           over == Obj!Finished(o.count, m.kind)
           ch0 == JoinMarks(a, t, Consume(chan, b, a))
<1>1. objs' = [objs EXCEPT ![a] = [u \in (DOMAIN @ \cup {t}) \ (IF over THEN {t} ELSE {})
                                     |-> IF u = t THEN o ELSE @[u]]]
    BY DEF RecvSnapshot
<1>2. chan' = IF over /\ ~o.count.initiator
              THEN Send(ch0, a, {o.init}, SnapMsg("RESPONSE", t)) ELSE ch0
    BY DEF RecvSnapshot
<1>3. /\ cut' = IF over THEN [cut EXCEPT ![t][a] = o.rec] ELSE cut
      /\ hold' = hold /\ started' = started
    BY DEF RecvSnapshot
<1>4. Arrived(a, b, m, t)
    BY ArrivedHead
<1>5. Counted(a, b, m, t, o)
    BY <1>4, CountedObject
<1> HIDE DEF m, t, j, o
<1>6. over <=> Over(a, m, t, o)
    BY <1>4, <1>5, FinishedOver
<1> HIDE DEF over
<1>8. /\ objs' = [c \in Agent |-> objs'[c]]
      /\ \A c \in Agent \ {a} : objs'[c] = objs[c]
      /\ objs'[a] = [u \in (DOMAIN objs[a] \cup {t}) \ (IF Over(a, m, t, o) THEN {t} ELSE {})
                        |-> IF u = t THEN o ELSE objs[a][u]]
  <2>1. \A f : objs' = [objs EXCEPT ![a] = f] => /\ objs' = [c \in Agent |-> objs'[c]]
                                                 /\ objs'[a] = f
                                                 /\ \A c \in Agent \ {a} : objs'[c] = objs[c]
    BY <1>0
  <2>2. (IF over THEN {t} ELSE {}) = (IF Over(a, m, t, o) THEN {t} ELSE {})
    BY <1>6
  <2> QED BY <1>1, <2>1, <2>2
<1>9. /\ DOMAIN objs'[a] = IF Over(a, m, t, o) THEN DOMAIN objs[a] \ {t}
                                               ELSE DOMAIN objs[a] \cup {t}
      /\ \A u \in DOMAIN objs'[a] : objs'[a][u] = IF u = t THEN o ELSE objs[a][u]
    BY <1>8
<1>10. /\ cut' \in [Token -> [Agent -> (SUBSET Item) \cup {NoCut}]]
       /\ \A u \in Token : \A c \in Agent :
             cut'[u][c] = IF u = t /\ c = a /\ Over(a, m, t, o) THEN o.rec ELSE cut[u][c]
  <2>1. /\ cut \in [Token -> [Agent -> (SUBSET Item) \cup {NoCut}]]
        /\ t \in Token /\ o.rec \in SUBSET Item
    BY <1>0, <1>4, <1>5 DEF TypeOK, Arrived, Counted, ObjectType
  <2>2. CASE Over(a, m, t, o)
    <3>1. cut' = [cut EXCEPT ![t][a] = o.rec]
      BY <1>3, <1>6, <2>2
    <3> QED BY <2>1, <2>2, <3>1
  <2>3. CASE ~Over(a, m, t, o)
    BY <1>3, <1>6, <2>1, <2>3
  <2> QED BY <2>2, <2>3
<1>11. chan' \in Chans /\ \A p, q \in Agent :
          chan'[p][q] = IF p = b /\ q = a THEN Tail(chan[p][q])
                        ELSE IF p = a /\ q # a THEN Reply(a, q, m, t, o)
                        ELSE chan[p][q]
  <2> DEFINE ch == Consume(chan, b, a)
             cj == JoinMarks(a, t, ch)
  <2>1. /\ SnapMsg("MARK", t) \in Msgs /\ SnapMsg("RESPONSE", t) \in Msgs
    BY <1>4, MsgKinds DEF Arrived, Obj!SnapKinds
  <2>2. /\ ch \in Chans
        /\ \A p, q \in Agent : ch[p][q] = IF p = b /\ q = a THEN Tail(chan[p][q])
                                          ELSE chan[p][q]
    <3>1. chan[b][a] \in Seq(Msgs) /\ chan[b][a] # <<>>
      BY <1>0, <1>4 DEF Chans, Arrived
    <3>2. Tail(chan[b][a]) \in Seq(Msgs)
      BY <3>1, TailSeq
    <3> QED BY <1>0, <3>2 DEF Consume, Chans
  <2> HIDE DEF ch
  <2>3. /\ cj \in Chans
        /\ \A p, q \in Agent : cj[p][q] = IF p = a /\ q # a /\ ~Known(a, t)
                                          THEN Append(ch[p][q], SnapMsg("MARK", t))
                                          ELSE ch[p][q]
    <3>1. CASE Known(a, t)
      BY <2>2, <3>1 DEF JoinMarks
    <3>2. CASE ~Known(a, t)
      <4>1. cj = Send(ch, a, Others(a), SnapMsg("MARK", t))
        BY <3>2 DEF JoinMarks
      <4>2. cj \in Chans
        BY <2>1, <2>2, <4>1, SendChans
      <4>3. \A p, q \in Agent : q \in Others(a) <=> q # a
        BY DEF Others
      <4> QED BY <3>2, <4>1, <4>2, <4>3 DEF Send
    <3> QED BY <3>1, <3>2
  <2> HIDE DEF cj
  <2>4. \A q \in Agent : q # a => cj[a][q] = Marked(a, q, t)
    BY <1>0, <2>2, <2>3 DEF Marked
  <2>5. CASE Over(a, m, t, o) /\ a # started[t]
    <3>1. m.kind \in MarkKinds
      BY <1>4, <2>5 DEF Arrived
    <3>2. o.count.marks = Others(a)
      BY <2>5, <3>1 DEF Over, MarkKinds, RespKinds
    <3>3. o.init = started[t] /\ started[t] \in Others(a) /\ ~o.count.initiator
      BY <1>4, <1>5, <2>5, <3>2 DEF Counted, Arrived, Others
    <3>4. chan' = Send(cj, a, {started[t]}, SnapMsg("RESPONSE", t))
      BY <1>2, <1>6, <2>5, <3>3 DEF cj, ch
    <3>5. chan' \in Chans
      BY <2>1, <2>3, <3>4, SendChans
    <3>6. \A p, q \in Agent : chan'[p][q] = IF p = a /\ q = started[t]
                                            THEN Append(cj[p][q], SnapMsg("RESPONSE", t))
                                            ELSE cj[p][q]
      BY <3>4 DEF Send
    <3>7. \A q \in Agent \ {a} : chan'[a][q] = Reply(a, q, m, t, o)
      BY <2>4, <2>5, <3>6 DEF Reply
    <3>8. \A p, q \in Agent : ~(p = a /\ q # a) =>
             chan'[p][q] = IF p = b /\ q = a THEN Tail(chan[p][q]) ELSE chan[p][q]
      BY <1>0, <2>2, <2>3, <3>3, <3>6 DEF Others
    <3> QED BY <1>0, <3>5, <3>7, <3>8
  <2>6. CASE ~(Over(a, m, t, o) /\ a # started[t])
    <3>1. chan' = cj
      BY <1>2, <1>5, <1>6, <2>6 DEF cj, ch, Counted
    <3>2. \A q \in Agent \ {a} : chan'[a][q] = Reply(a, q, m, t, o)
      BY <2>4, <2>6, <3>1 DEF Reply
    <3>3. \A p, q \in Agent : ~(p = a /\ q # a) =>
             chan'[p][q] = IF p = b /\ q = a THEN Tail(chan[p][q]) ELSE chan[p][q]
      BY <1>0, <2>2, <2>3, <3>1
    <3> QED BY <1>0, <2>3, <3>1, <3>2, <3>3
  <2> QED BY <2>5, <2>6
<1>12. Received(a, b, m, t, o)
    BY <1>3, <1>8, <1>9, <1>10, <1>11 DEF Received
<1> QED BY <1>4, <1>5, <1>12

\* What the message changes, and what it leaves alone.
LEMMA RecvElsewhere ==
    ASSUME TypeOK, NEW a \in Agent, NEW b \in Others(a), NEW m, NEW t, NEW o,
           Received(a, b, m, t, o), NEW c \in Agent, NEW u \in Token, c # a \/ u # t
    PROVE  /\ u \in DOMAIN objs'[c] <=> u \in DOMAIN objs[c]
           /\ u \in DOMAIN objs[c] => objs'[c][u] = objs[c][u]
           /\ cut'[u][c] = cut[u][c]
           /\ Done(c, u)' <=> Done(c, u)
           /\ TakesPart(c, u)' <=> TakesPart(c, u)
           /\ Rec(c, u)' = Rec(c, u)
           /\ \A p \in Agent : /\ MarkRead(p, c, u)' <=> MarkRead(p, c, u)
                               /\ RespRead(p, c, u)' <=> RespRead(p, c, u)
<1>1. /\ u \in DOMAIN objs'[c] <=> u \in DOMAIN objs[c]
      /\ u \in DOMAIN objs[c] => objs'[c][u] = objs[c][u]
  <2>1. CASE c # a
    <3>1. objs'[c] = objs[c]
      BY <2>1 DEF Received
    <3> QED BY <3>1
  <2>2. CASE c = a /\ u # t
    <3>1. /\ DOMAIN objs'[a] \in {DOMAIN objs[a] \ {t}, DOMAIN objs[a] \cup {t}}
          /\ \A v \in DOMAIN objs'[a] : objs'[a][v] = IF v = t THEN o ELSE objs[a][v]
      BY DEF Received
    <3> QED BY <2>2, <3>1
  <2> QED BY <2>1, <2>2
<1>2. cut'[u][c] = cut[u][c]
    BY DEF Received
<1> QED BY <1>1, <1>2 DEF Done, TakesPart, Rec, MarkRead, RespRead, Marks, Resps

\* Who answers has all marks, and an initiator that ends has all answers.
LEMMA OverHeard ==
    ASSUME TypeOK, Objects, NEW a \in Agent, NEW b \in Others(a), NEW m, NEW t, NEW o,
           Arrived(a, b, m, t), Counted(a, b, m, t, o)
    PROVE  /\ o.count.resps \subseteq o.count.marks
           /\ o.count.marks \subseteq Others(a)
           /\ Over(a, m, t, o) => o.count.marks = Others(a)
           /\ Over(a, m, t, o) /\ a = started[t] => o.count.resps = Others(a)
           /\ \A p \in o.count.marks : TakesPart(p, t)
           /\ \A p \in o.count.resps : Done(p, t)
           /\ a # started[t] => o.count.resps = {} /\ m.kind \in MarkKinds
<1>1. /\ m.kind \in MarkKinds \/ m.kind \in RespKinds
      /\ ~(m.kind \in MarkKinds /\ m.kind \in RespKinds)
    BY DEF Arrived, MarkKinds, RespKinds
<1>2. /\ OldResps(a, t) \subseteq OldMarks(a, t)
      /\ \A p \in OldMarks(a, t) : TakesPart(p, t)
      /\ \A p \in OldResps(a, t) : Done(p, t)
      /\ a # started[t] => OldResps(a, t) = {}
    BY DEF Objects, OldMarks, OldResps, Known
<1>3. o.count.marks \subseteq Others(a) /\ o.count.resps \subseteq Others(a)
    BY DEF Counted, ObjectType, Others
<1>4. CASE m.kind \in MarkKinds
  <2>1. /\ o.count.marks = OldMarks(a, t) \cup {b} /\ o.count.resps = OldResps(a, t)
        /\ TakesPart(b, t)
    BY <1>1, <1>4 DEF Counted, Arrived
  <2>2. Over(a, m, t, o) => o.count.marks = Others(a) /\ a # started[t]
    BY <1>1, <1>4 DEF Over
  <2> QED BY <1>2, <1>3, <1>4, <2>1, <2>2
<1>5. CASE m.kind \in RespKinds
  <2>1. /\ o.count.marks = OldMarks(a, t) /\ o.count.resps = OldResps(a, t) \cup {b}
        /\ Done(b, t) /\ a = started[t] /\ b \in OldMarks(a, t)
    BY <1>1, <1>5 DEF Counted, Arrived, OldMarks
  <2>2. Over(a, m, t, o) => o.count.resps = Others(a)
    BY <1>1, <1>5 DEF Over
  <2> QED BY <1>2, <1>3, <2>1, <2>2
<1> QED BY <1>1, <1>4, <1>5

\* What the message changes.
LEMMA RecvHere ==
    ASSUME TypeOK, Objects, NEW a \in Agent, NEW b \in Others(a), NEW m, NEW t, NEW o,
           Arrived(a, b, m, t), Counted(a, b, m, t, o), Received(a, b, m, t, o)
    PROVE  /\ TakesPart(a, t)'
           /\ Done(a, t)' <=> Over(a, m, t, o)
           /\ t \in DOMAIN objs'[a] <=> ~Over(a, m, t, o)
           /\ ~Over(a, m, t, o) => objs'[a][t] = o
           /\ Rec(a, t)' = OldRec(a, t)
           /\ \A p \in Others(a) :
                 /\ MarkRead(p, a, t)' <=> \/ MarkRead(p, a, t)
                                           \/ m.kind \in MarkKinds /\ p = b
                 /\ a = started[t] =>
                       (RespRead(p, a, t)' <=> \/ RespRead(p, a, t)
                                               \/ m.kind \in RespKinds /\ p = b)
<1>1. /\ t \in DOMAIN objs'[a] <=> ~Over(a, m, t, o)
      /\ ~Over(a, m, t, o) => objs'[a][t] = o
    BY DEF Received
<1>2. o.rec \in SUBSET Item /\ o.rec = OldRec(a, t)
    BY DEF Counted, ObjectType
<1>3. t \in Token /\ ~Done(a, t)
    BY DEF Arrived
<1>4. cut'[t][a] = IF Over(a, m, t, o) THEN o.rec ELSE cut[t][a]
    BY <1>3 DEF Received
<1>5. Done(a, t)' <=> Over(a, m, t, o)
  <2>1. o.rec # NoCut
    BY <1>2, NoCutApart
  <2> QED BY <1>3, <1>4, <2>1 DEF Done
<1>6. TakesPart(a, t)'
    BY <1>1, <1>5 DEF TakesPart
<1>7. Rec(a, t)' = OldRec(a, t)
    BY <1>1, <1>2, <1>4, <1>5 DEF Rec
<1>8. ASSUME NEW p \in Others(a)
      PROVE  /\ MarkRead(p, a, t)' <=> \/ MarkRead(p, a, t)
                                       \/ m.kind \in MarkKinds /\ p = b
             /\ a = started[t] =>
                   (RespRead(p, a, t)' <=> \/ RespRead(p, a, t)
                                           \/ m.kind \in RespKinds /\ p = b)
  <2>1. MarkRead(p, a, t)' <=> p \in o.count.marks
    <3>1. CASE Over(a, m, t, o)
      BY <1>5, <3>1, OverHeard DEF MarkRead
    <3>2. CASE ~Over(a, m, t, o)
      BY <1>1, <1>5, <3>2 DEF MarkRead, Marks
    <3> QED BY <3>1, <3>2
  <2>2. a = started[t] => (RespRead(p, a, t)' <=> p \in o.count.resps)
    <3>1. CASE Over(a, m, t, o)
      BY <1>5, <3>1, OverHeard DEF RespRead
    <3>2. CASE ~Over(a, m, t, o)
      BY <1>1, <1>5, <3>2 DEF RespRead, Resps
    <3> QED BY <3>1, <3>2
  <2>3. /\ MarkRead(p, a, t) <=> p \in OldMarks(a, t)
        /\ RespRead(p, a, t) <=> p \in OldResps(a, t)
    BY <1>3 DEF MarkRead, RespRead, OldMarks, OldResps, Known
  <2>4. /\ p \in o.count.marks <=> p \in OldMarks(a, t) \/ (m.kind \in MarkKinds /\ p = b)
        /\ p \in o.count.resps <=> p \in OldResps(a, t) \/ (m.kind \in RespKinds /\ p = b)
    BY DEF Counted
  <2> QED BY <2>1, <2>2, <2>3, <2>4
<1> QED BY <1>1, <1>5, <1>6, <1>7, <1>8

\* The types and the registries.
LEMMA RecvTyped ==
    ASSUME Typed, Objects, NEW a \in Agent, NEW b \in Others(a), NEW m, NEW t, NEW o,
           Arrived(a, b, m, t), Counted(a, b, m, t, o), Received(a, b, m, t, o)
    PROVE  Typed'
<1>1. TypeOK
    BY DEF Typed
<1>2. ASSUME NEW c \in Agent
      PROVE  /\ DOMAIN objs'[c] \subseteq DOMAIN started'
             /\ \A u \in DOMAIN objs'[c] :
                   /\ objs'[c][u] \in ObjectType
                   /\ objs'[c][u].count.initiator <=> started'[u] = c
                   /\ c \notin objs'[c][u].count.marks \cup objs'[c][u].count.resps
  <2>1. /\ DOMAIN objs[c] \subseteq DOMAIN started
        /\ \A u \in DOMAIN objs[c] :
              /\ objs[c][u] \in ObjectType
              /\ objs[c][u].count.initiator <=> started[u] = c
              /\ c \notin objs[c][u].count.marks \cup objs[c][u].count.resps
    BY <1>1 DEF TypeOK
  <2>2. started' = started
    BY DEF Received
  <2>3. CASE c # a
    <3>1. objs'[c] = objs[c]
      BY <2>3 DEF Received
    <3> QED BY <2>1, <2>2, <3>1
  <2>4. CASE c = a
    <3>1. /\ DOMAIN objs'[a] \subseteq DOMAIN objs[a] \cup {t}
          /\ \A u \in DOMAIN objs'[a] : objs'[a][u] = IF u = t THEN o ELSE objs[a][u]
      BY DEF Received
    <3>2. t \in DOMAIN started
      BY DEF Arrived
    <3>3. /\ o \in ObjectType /\ (o.count.initiator <=> started[t] = a)
          /\ a \notin o.count.marks \cup o.count.resps
      BY DEF Counted
    <3>4. ASSUME NEW u \in DOMAIN objs'[a]
          PROVE  /\ objs'[a][u] \in ObjectType
                 /\ objs'[a][u].count.initiator <=> started[u] = a
                 /\ a \notin objs'[a][u].count.marks \cup objs'[a][u].count.resps
      <4>1. CASE u = t
        BY <3>1, <3>3, <3>4, <4>1
      <4>2. CASE u # t
        <5>1. u \in DOMAIN objs[a] /\ objs'[a][u] = objs[a][u]
          BY <3>1, <3>4, <4>2
        <5> QED BY <2>1, <2>4, <5>1
      <4> QED BY <4>1, <4>2
    <3> QED BY <2>1, <2>2, <2>4, <3>1, <3>2, <3>4
  <2> QED BY <2>3, <2>4
<1>3. TypeOK'
    BY <1>1, <1>2 DEF TypeOK, Received
<1> QED BY <1>3 DEF Typed, Received

\* An object that is left waits for somebody; an answer says that all take part.
LEMMA RecvObjects ==
    ASSUME Typed, Objects, Progress, NEW a \in Agent, NEW b \in Others(a),
           NEW m, NEW t, NEW o,
           Arrived(a, b, m, t), Counted(a, b, m, t, o), Received(a, b, m, t, o)
    PROVE  Objects' /\ Progress'
<1>0. TypeOK /\ DOMAIN started \subseteq Token /\ started' = started
      /\ \A u \in DOMAIN started : started[u] \in Agent
    BY StartedTokens DEF Typed, Received
<1>1. \A p \in Agent : \A u \in Token :
         /\ TakesPart(p, u) => TakesPart(p, u)'
         /\ Done(p, u) => Done(p, u)'
  <2>1. ~Done(a, t)
    BY DEF Arrived
  <2>2. TakesPart(a, t)'
    BY <1>0, RecvHere
  <2> QED BY <1>0, <2>1, <2>2, RecvElsewhere
<1>2. Objects'
  <2> SUFFICES ASSUME NEW c \in Agent, NEW u \in DOMAIN objs'[c]
               PROVE  /\ cut'[u][c] = NoCut
                      /\ c # started[u] => Resps(c, u)' = {} /\ Marks(c, u)' # Others(c)
                      /\ c = started[u] => Resps(c, u)' # Others(c)
                      /\ Resps(c, u)' \subseteq Marks(c, u)'
                      /\ started[u] \in Marks(c, u)' \cup {c} => objs'[c][u].init = started[u]
                      /\ \A p \in Marks(c, u)' : TakesPart(p, u)'
                      /\ \A p \in Resps(c, u)' : Done(p, u)'
    BY <1>0 DEF Objects
  <2>1. CASE c = a /\ u = t
    <3>1. ~Over(a, m, t, o) /\ objs'[a][t] = o
      BY <1>0, <2>1, RecvHere
    <3>2. Marks(a, t)' = o.count.marks /\ Resps(a, t)' = o.count.resps
      BY <3>1 DEF Marks, Resps
    <3>3. /\ o.count.resps \subseteq o.count.marks /\ o.count.marks \subseteq Others(a)
          /\ \A p \in o.count.marks : TakesPart(p, t)
          /\ \A p \in o.count.resps : Done(p, t)
          /\ a # started[t] => o.count.resps = {} /\ m.kind \in MarkKinds
      BY <1>0, OverHeard
    <3>4. a # started[t] => o.count.marks # Others(a)
      BY <3>1, <3>3 DEF Over
    <3>5. a = started[t] => o.count.resps # Others(a)
      <4>1. CASE m.kind \in RespKinds
        BY <3>1, <4>1 DEF Over
      <4>2. CASE a = started[t] /\ m.kind \notin RespKinds
        <5>1. o.count.resps = OldResps(a, t) /\ Known(a, t)
          BY <4>2 DEF Counted, Arrived
        <5> QED BY <4>2, <5>1 DEF Objects, OldResps, Known
      <4> QED BY <4>1, <4>2
    <3>6. cut'[t][a] = NoCut
      <4>1. ~Done(a, t)'
        BY <1>0, <3>1, RecvHere
      <4> QED BY <4>1 DEF Done
    <3>7. started[t] \in o.count.marks \cup {a} => o.init = started[t]
      BY DEF Counted
    <3>8. t \in Token /\ Others(a) \subseteq Agent
      BY DEF Arrived, Others
    <3>9. /\ \A p \in o.count.marks : TakesPart(p, t)'
          /\ \A p \in o.count.resps : Done(p, t)'
      BY <1>1, <3>3, <3>8
    <3> QED BY <2>1, <3>1, <3>2, <3>3, <3>4, <3>5, <3>6, <3>7, <3>9
  <2>2. CASE c # a \/ u # t
    <3>1. u \in Token
      <4>1. u \in DOMAIN objs[c] \/ u = t
        BY DEF Received
      <4>2. DOMAIN objs[c] \subseteq DOMAIN started /\ t \in Token
        BY <1>0 DEF TypeOK, Arrived
      <4> QED BY <1>0, <4>1, <4>2
    <3>2. /\ u \in DOMAIN objs[c] /\ objs'[c][u] = objs[c][u] /\ cut'[u][c] = cut[u][c]
      BY <1>0, <2>2, <3>1, RecvElsewhere
    <3>3. Marks(c, u)' = Marks(c, u) /\ Resps(c, u)' = Resps(c, u)
      BY <3>2 DEF Marks, Resps
    <3>4. Marks(c, u) \subseteq Agent /\ Resps(c, u) \subseteq Agent
      BY <1>0, <3>2 DEF TypeOK, ObjectType, Marks, Resps
    <3>5. /\ \A p \in Marks(c, u) : TakesPart(p, u)'
          /\ \A p \in Resps(c, u) : Done(p, u)'
      BY <1>1, <3>1, <3>2, <3>4 DEF Objects
    <3> QED BY <3>2, <3>3, <3>5 DEF Objects
  <2> QED BY <2>1, <2>2
<1>3. \A u \in Token \ DOMAIN started' : \A c \in Agent : ~Done(c, u)'
  <2>1. \A u \in Token \ DOMAIN started' : u # t
    BY <1>0 DEF Arrived
  <2> QED BY <1>0, <2>1, RecvElsewhere DEF Progress
<1>4. ASSUME NEW u \in DOMAIN started
      PROVE  /\ TakesPart(started[u], u)'
             /\ \A c \in Agent : Done(c, u)' => \A p \in Agent : TakesPart(p, u)'
             /\ \A c \in Agent : c = started[u] =>
                   (Done(c, u)' => \A p \in Agent : Done(p, u)')
  <2>0. u \in Token /\ started[u] \in Agent
    BY <1>0
  <2>1. /\ TakesPart(started[u], u)
        /\ \A c \in Agent : Done(c, u) => \A p \in Agent : TakesPart(p, u)
        /\ Done(started[u], u) => \A p \in Agent : Done(p, u)
    BY DEF Progress
  <2>2. TakesPart(started[u], u)'
    BY <1>0, <1>1, <2>0, <2>1
  <2>3. ASSUME NEW c \in Agent, Done(c, u)', NEW p \in Agent
        PROVE  TakesPart(p, u)'
    <3>1. CASE Done(c, u)
      BY <1>1, <2>0, <2>1, <3>1
    <3>2. CASE ~Done(c, u)
      <4>1. c = a /\ u = t
        BY <1>0, <2>0, <2>3, <3>2, RecvElsewhere
      <4>2. Over(a, m, t, o) /\ TakesPart(a, t)'
        BY <1>0, <2>3, <4>1, RecvHere
      <4>3. \A x \in Others(a) : TakesPart(x, t)
        BY <1>0, <4>2, OverHeard
      <4>4. p = a \/ p \in Others(a)
        BY DEF Others
      <4> QED BY <1>1, <2>0, <4>1, <4>2, <4>3, <4>4
    <3> QED BY <3>1, <3>2
  <2>4. ASSUME NEW c \in Agent, c = started[u], Done(c, u)', NEW p \in Agent
        PROVE  Done(p, u)'
    <3>1. CASE Done(c, u)
      BY <1>1, <2>0, <2>1, <2>4, <3>1
    <3>2. CASE ~Done(c, u)
      <4>1. c = a /\ u = t
        BY <1>0, <2>0, <2>4, <3>2, RecvElsewhere
      <4>2. Over(a, m, t, o)
        BY <1>0, <2>4, <4>1, RecvHere
      <4>5. a = started[t]
        BY <2>4, <4>1
      <4>6. o.count.resps = Others(a) /\ \A x \in o.count.resps : Done(x, t)
        BY <1>0, <4>2, <4>5, OverHeard
      <4>3. \A x \in Others(a) : Done(x, t)
        BY <4>6
      <4>4. p = a \/ p \in Others(a)
        BY DEF Others
      <4> QED BY <1>1, <2>0, <2>4, <4>1, <4>3, <4>4
    <3> QED BY <3>1, <3>2
  <2> QED BY <2>2, <2>3, <2>4
<1>5. \A u \in DOMAIN started : started[u] \in Agent
    BY <1>0
<1>6. Progress'
    BY <1>0, <1>3, <1>4, <1>5 DEF Progress
<1> QED BY <1>2, <1>6

\* The channels: the mark or the answer is gone, what a sends is there once.
LEMMA RecvShapes ==
    ASSUME Typed, Objects, Progress, Shapes, NEW a \in Agent, NEW b \in Others(a),
           NEW m, NEW t, NEW o,
           Arrived(a, b, m, t), Counted(a, b, m, t, o), Received(a, b, m, t, o)
    PROVE  Shapes'
<1>0. /\ TypeOK /\ chan \in Chans /\ started' = started /\ b \in Agent /\ a # b
      /\ t \in Token /\ t \in DOMAIN started /\ started[t] \in Agent /\ ~Done(a, t)
      /\ m \in SnapMsgs /\ m.token = t
    BY DEF Typed, Received, Arrived, Others
<1>1. \A p \in Agent : chan'[p][p] = <<>>
    BY <1>0 DEF Shapes, Received
<1>2. \A x : Is(m, MarkKinds, x) => x = t /\ m.kind \in MarkKinds
    BY <1>0 DEF Is
<1>3. \A x : Is(m, RespKinds, x) => x = t /\ m.kind \in RespKinds
    BY <1>0 DEF Is
<1>4. ~(m.kind \in MarkKinds /\ m.kind \in RespKinds)
    BY DEF MarkKinds, RespKinds
<1>5. ASSUME NEW p \in Agent, NEW q \in Others(p), NEW u \in Token
      PROVE  MarkShape(p, q, u)' /\ RespShape(p, q, u)'
  <2>0. /\ q \in Agent /\ p # q /\ chan[p][q] \in Seq(Msgs)
        /\ MarkShape(p, q, u) /\ RespShape(p, q, u)
        /\ MarkKind(p, u)' = MarkKind(p, u)
    BY <1>0 DEF Shapes, Others, Chans, MarkKind
  <2>1. CASE p = b /\ q = a
    <3>1. /\ chan'[p][q] = Tail(chan[p][q]) /\ chan[p][q] # <<>> /\ Head(chan[p][q]) = m
          /\ TakesPart(p, u)' <=> TakesPart(p, u)
          /\ Done(p, u)' <=> Done(p, u)
      <4>1. chan'[p][q] = Tail(chan[p][q])
        BY <1>0, <2>1 DEF Received
      <4>2. chan[p][q] # <<>> /\ Head(chan[p][q]) = m
        BY <2>1 DEF Arrived
      <4> QED BY <1>0, <2>1, <4>1, <4>2, RecvElsewhere
    <3>2. /\ ~Is(m, MarkKinds, u) /\ MarkOn(chan[p][q], u, MarkKind(p, u))
                => MarkOn(chan'[p][q], u, MarkKind(p, u))
          /\ ~Is(m, RespKinds, u) /\ RespOn(chan[p][q], u) => RespOn(chan'[p][q], u)
          /\ \A K \in {MarkKinds, RespKinds} :
                Free(chan[p][q], K, u) => Free(chan'[p][q], K, u)
      BY <2>0, <3>1, MarkTail, RespTail, FreeTail
    <3>3. CASE u # t
      <4>1. /\ MarkRead(p, q, u)' <=> MarkRead(p, q, u)
            /\ RespRead(p, q, u)' <=> RespRead(p, q, u)
        BY <1>0, <2>0, <2>1, <3>3, RecvElsewhere
      <4>2. ~Is(m, MarkKinds, u) /\ ~Is(m, RespKinds, u)
        BY <1>2, <1>3, <3>3
      <4> QED BY <1>0, <2>0, <3>1, <3>2, <4>1, <4>2 DEF MarkShape, RespShape
    <3>4. CASE u = t /\ m.kind \in MarkKinds
      <4>1. MarkRead(p, q, u)' /\ Free(chan'[p][q], MarkKinds, u)
        <5>1. Free(Tail(chan[b][a]), MarkKinds, t)
          BY <1>4, <3>4 DEF Arrived
        <5>2. MarkRead(b, a, t)'
          BY <1>0, <3>4, RecvHere
        <5> QED BY <2>1, <3>1, <3>4, <5>1, <5>2
      <4>2. q = started[u] => (RespRead(p, q, u)' <=> RespRead(p, q, u))
        BY <1>0, <1>4, <2>1, <3>4, RecvHere
      <4>3. ~Is(m, RespKinds, u)
        BY <1>3, <1>4, <3>4
      <4>4. MarkShape(p, q, u)'
        BY <4>1 DEF MarkShape
      <4>5. RespShape(p, q, u)'
        BY <1>0, <2>0, <3>1, <3>2, <4>2, <4>3 DEF RespShape
      <4> QED BY <4>4, <4>5
    <3>5. CASE u = t /\ m.kind \in RespKinds
      <4>1. /\ a = started[t] /\ Known(a, t) /\ b \in Marks(a, t)
            /\ Free(Tail(chan[b][a]), RespKinds, t)
        BY <1>4, <3>5 DEF Arrived
      <4>2. RespRead(p, q, u)' /\ Free(chan'[p][q], RespKinds, u)
        <5>1. RespRead(b, a, t)'
          BY <1>0, <3>5, <4>1, RecvHere
        <5> QED BY <2>1, <3>1, <3>5, <4>1, <5>1
      <4>3. MarkRead(p, q, u) /\ MarkRead(p, q, u)'
        <5>1. MarkRead(b, a, t)
          BY <4>1 DEF MarkRead, Known
        <5>2. MarkRead(b, a, t)'
          BY <1>0, <5>1, RecvHere
        <5> QED BY <2>1, <3>5, <5>1, <5>2
      <4>4. MarkShape(p, q, u)'
        BY <2>0, <3>2, <4>3 DEF MarkShape
      <4>5. RespShape(p, q, u)'
        BY <4>2 DEF RespShape
      <4> QED BY <4>4, <4>5
    <3>6. m.kind \in MarkKinds \/ m.kind \in RespKinds
      BY DEF Arrived
    <3> QED BY <3>3, <3>4, <3>5, <3>6
  <2>2. CASE p = a
    <3>1. /\ MarkRead(p, q, u)' <=> MarkRead(p, q, u)
          /\ RespRead(p, q, u)' <=> RespRead(p, q, u)
      BY <1>0, <2>0, <2>2, RecvElsewhere
    <3>2. chan'[p][q] = Reply(a, q, m, t, o)
      BY <1>0, <2>0, <2>2 DEF Received
    <3>3. PICK x \in Msgs : /\ x = SnapMsg("MARK", t) /\ x.kind = "MARK"
                            /\ \A v : ~Is(x, RespKinds, v) /\ (Is(x, MarkKinds, v) <=> v = t)
      <4>1. SnapMsg("MARK", t) \in Msgs
        BY <1>0, MsgKinds DEF Obj!SnapKinds
      <4> QED BY <4>1 DEF SnapMsg, Is, MarkKinds, RespKinds
    <3>4. PICK y \in Msgs : /\ y = SnapMsg("RESPONSE", t)
                            /\ \A v : ~Is(y, MarkKinds, v) /\ (Is(y, RespKinds, v) <=> v = t)
      <4>1. SnapMsg("RESPONSE", t) \in Msgs
        BY <1>0, MsgKinds DEF Obj!SnapKinds
      <4> QED BY <4>1 DEF SnapMsg, Is, MarkKinds, RespKinds
    <3>5. PICK s1 \in Seq(Msgs) : /\ s1 = Marked(a, q, t)
                                  /\ s1 = IF Known(a, t) THEN chan[a][q]
                                                         ELSE Append(chan[a][q], x)
      BY <2>0, <2>2, <3>3, AppendSeq DEF Marked
    <3>6. chan'[p][q] = IF Over(a, m, t, o) /\ a # started[t] /\ q = started[t]
                        THEN Append(s1, y) ELSE s1
      BY <3>2, <3>4, <3>5 DEF Reply
    <3>7. CASE u # t
      <4>1. /\ TakesPart(p, u)' <=> TakesPart(p, u)
            /\ Done(p, u)' <=> Done(p, u)
        BY <1>0, <2>2, <3>7, RecvElsewhere
      <4>2. /\ MarkOn(chan[p][q], u, MarkKind(p, u)) => MarkOn(s1, u, MarkKind(p, u))
            /\ RespOn(chan[p][q], u) => RespOn(s1, u)
            /\ \A K \in {MarkKinds, RespKinds} : Free(chan[p][q], K, u) => Free(s1, K, u)
        BY <2>0, <2>2, <3>3, <3>5, <3>7, MarkAppend, RespAppend, FreeAppend
      <4>3. /\ MarkOn(s1, u, MarkKind(p, u)) => MarkOn(chan'[p][q], u, MarkKind(p, u))
            /\ RespOn(s1, u) => RespOn(chan'[p][q], u)
            /\ \A K \in {MarkKinds, RespKinds} : Free(s1, K, u) => Free(chan'[p][q], K, u)
        BY <3>4, <3>6, <3>7, MarkAppend, RespAppend, FreeAppend
      <4>4. MarkShape(p, q, u)'
        BY <2>0, <3>1, <4>1, <4>2, <4>3 DEF MarkShape
      <4>5. RespShape(p, q, u)'
        BY <1>0, <2>0, <3>1, <4>1, <4>2, <4>3 DEF RespShape
      <4> QED BY <4>4, <4>5
    <3>8. CASE u = t
      <4>1. /\ TakesPart(a, t)' /\ (Done(a, t)' <=> Over(a, m, t, o))
        BY <1>0, RecvHere
      <4>2. /\ ~MarkRead(a, q, t) => MarkOn(s1, t, MarkKind(a, t))
            /\ MarkRead(a, q, t) => Free(s1, MarkKinds, t)
        <5>1. CASE Known(a, t)
          BY <2>0, <2>2, <3>5, <3>8, <5>1 DEF MarkShape, TakesPart, Known
        <5>2. CASE ~Known(a, t)
          <6>1. ~TakesPart(a, t) /\ a # started[t]
            BY <1>0, <5>2 DEF TakesPart, Known, Arrived
          <6>2. ~MarkRead(a, q, t)
            BY <1>0, <2>0, <6>1 DEF MarkRead, Progress, Objects
          <6>3. Free(chan[a][q], MarkKinds, t)
            BY <2>0, <2>2, <3>8, <6>1 DEF MarkShape
          <6>4. MarkOn(s1, t, "MARK")
            BY <2>0, <2>2, <3>3, <3>5, <5>2, <6>3, MarkAppend
          <6> QED BY <6>1, <6>2, <6>4 DEF MarkKind
        <5> QED BY <5>1, <5>2
      <4>3. Free(s1, RespKinds, t)
        <5>1. Free(chan[a][q], RespKinds, t)
          BY <1>0, <2>0, <2>2, <3>8 DEF RespShape
        <5> QED BY <2>0, <2>2, <3>3, <3>5, <5>1, FreeAppend
      <4>4. CASE Over(a, m, t, o) /\ a # started[t] /\ q = started[t]
        <5>1. ~RespRead(a, q, t)
          BY <1>0, <2>0, <4>4 DEF RespRead, Progress, Objects
        <5>2. chan'[p][q] = Append(s1, y)
          BY <3>6, <4>4
        <5>3. RespOn(chan'[p][q], t)
          BY <3>4, <4>3, <5>2, RespAppend
        <5>4. /\ ~MarkRead(a, q, t) => MarkOn(chan'[p][q], t, MarkKind(a, t))
              /\ MarkRead(a, q, t) => Free(chan'[p][q], MarkKinds, t)
          BY <3>4, <4>2, <5>2, MarkAppend, FreeAppend
        <5>5. MarkShape(p, q, u)'
          BY <2>0, <2>2, <3>1, <3>8, <4>1, <5>4 DEF MarkShape
        <5>6. RespShape(p, q, u)'
          BY <1>0, <2>2, <3>1, <3>8, <4>1, <4>4, <5>1, <5>3 DEF RespShape
        <5> QED BY <5>5, <5>6
      <4>5. CASE ~(Over(a, m, t, o) /\ a # started[t] /\ q = started[t])
        <5>1. chan'[p][q] = s1
          BY <3>6, <4>5
        <5>2. ~(Done(a, t)' /\ q = started[t])
          BY <2>0, <2>2, <4>1, <4>5
        <5>3. MarkShape(p, q, u)'
          BY <2>0, <2>2, <3>1, <3>8, <4>1, <4>2, <5>1 DEF MarkShape
        <5>4. RespShape(p, q, u)'
          BY <1>0, <2>2, <3>8, <4>3, <5>1, <5>2 DEF RespShape
        <5> QED BY <5>3, <5>4
      <4> QED BY <4>4, <4>5
    <3> QED BY <3>7, <3>8
  <2>3. CASE p # a /\ ~(p = b /\ q = a)
    <3>1. chan'[p][q] = chan[p][q]
      BY <2>0, <2>3 DEF Received
    <3>2. /\ TakesPart(p, u)' <=> TakesPart(p, u)
          /\ Done(p, u)' <=> Done(p, u)
      BY <1>0, <2>3, RecvElsewhere
    <3>3. /\ MarkRead(p, q, u)' <=> MarkRead(p, q, u)
          /\ q = started[u] => (RespRead(p, q, u)' <=> RespRead(p, q, u))
      <4>1. CASE q # a \/ u # t
        BY <1>0, <2>0, <4>1, RecvElsewhere
      <4>2. CASE q = a /\ u = t
        <5>1. p \in Others(a) /\ p # b
          BY <2>3, <4>2 DEF Others
        <5> QED BY <1>0, <4>2, <5>1, RecvHere
      <4> QED BY <4>1, <4>2
    <3>4. MarkShape(p, q, u)'
      BY <2>0, <3>1, <3>2, <3>3 DEF MarkShape
    <3>5. RespShape(p, q, u)'
      BY <1>0, <2>0, <3>1, <3>2, <3>3 DEF RespShape
    <3> QED BY <3>4, <3>5
  <2> QED BY <2>1, <2>2, <2>3
<1> QED BY <1>1, <1>5 DEF Shapes

\* Where the items are stays; an agent that joins records what it has.
LEMMA RecvRecords ==
    ASSUME TypeOK, Objects, NEW a \in Agent, NEW b \in Others(a), NEW m, NEW t, NEW o,
           Arrived(a, b, m, t), Counted(a, b, m, t, o), Received(a, b, m, t, o), NEW i
    PROVE  RecordsOf(i, a, IF Known(a, t) THEN {} ELSE {t})
<1>0. /\ started' = started /\ t \in Token /\ t \in DOMAIN started /\ ~Done(a, t)
      /\ DOMAIN started \subseteq Token
    BY StartedTokens DEF Received, Arrived
<1>1. \A u \in Token : \A c \in Agent : c # a \/ u # t =>
         (TakesPart(c, u)' <=> TakesPart(c, u)) /\ Rec(c, u)' = Rec(c, u)
    BY RecvElsewhere
<1>2. TakesPart(a, t)' /\ Rec(a, t)' = OldRec(a, t)
    BY RecvHere
<1>3. ASSUME NEW u \in Token, u # t \/ Known(a, t)
      PROVE  /\ \A p \in Agent : TakesPart(p, u)' <=> TakesPart(p, u)
             /\ (Never(i, u) => Never(i, u)') /\ (Once(i, u) => Once(i, u)')
  <2>1. u = t => TakesPart(a, u) /\ Rec(a, t)' = Rec(a, t)
    BY <1>2, <1>3 DEF TakesPart, Known, OldRec, Rec
  <2>2. \A c \in Agent : (TakesPart(c, u)' <=> TakesPart(c, u)) /\ Rec(c, u)' = Rec(c, u)
    BY <1>1, <1>2, <2>1
  <2> QED BY <2>2 DEF Never, Once
<1>4. CASE Known(a, t)
    BY <1>0, <1>3, <1>4 DEF RecordsOf
<1>5. CASE ~Known(a, t)
  <2>1. ~TakesPart(a, t) /\ Rec(a, t) = {} /\ Rec(a, t)' = hold[a]
    BY <1>0, <1>2, <1>5 DEF TakesPart, Known, OldRec, Rec
  <2>2. \A p \in Agent : TakesPart(p, t)' <=> TakesPart(p, t) \/ p = a
    BY <1>0, <1>1, <1>2
  <2>3. \A c \in Agent \ {a} : Rec(c, t)' = Rec(c, t)
    BY <1>0, <1>1
  <2>4. i \in hold[a] /\ Never(i, t) => Once(i, t)'
    BY <2>1, <2>3 DEF Never, Once
  <2>5. ASSUME i \notin hold[a]
        PROVE  (Never(i, t) => Never(i, t)') /\ (Once(i, t) => Once(i, t)')
    <3>1. \A c \in Agent : i \in Rec(c, t)' <=> i \in Rec(c, t)
      BY <2>1, <2>3, <2>5
    <3> QED BY <3>1 DEF Never, Once
  <2>6. \A u \in DOMAIN started' \ {t} : u \in DOMAIN started /\ u \in Token
    BY <1>0
  <2> QED BY <1>0, <1>3, <1>5, <2>1, <2>2, <2>4, <2>5, <2>6 DEF RecordsOf
<1> QED BY <1>4, <1>5

\* The items are where they were.
LEMMA RecvItems ==
    ASSUME SnapInv, NEW a \in Agent, NEW b \in Others(a), NEW m, NEW t, NEW o,
           Arrived(a, b, m, t), Counted(a, b, m, t, o), Received(a, b, m, t, o)
    PROVE  Items'
<1>0. /\ TypeOK /\ Objects /\ Shapes /\ chan \in Chans /\ b \in Agent /\ a # b
      /\ t \in Token /\ m \in SnapMsgs /\ hold' = hold
      /\ chan[b][a] # <<>> /\ m = Head(chan[b][a])
    BY DEF SnapInv, Typed, Received, Arrived, Others
<1>1. ASSUME NEW i \in Item
      PROVE  Located(i)'
  <2>0. PICK T : T = IF Known(a, t) THEN {} ELSE {t}
    OBVIOUS
  <2>1. Located(i)
    BY DEF SnapInv, Items, Located
  <2>2. RecordsOf(i, a, T)
    BY <1>0, <2>0, RecvRecords
  <2>3. \A c \in Agent : i \in hold'[c] <=> i \in hold[c]
    BY <1>0
  <2>4. ASSUME NEW p \in Agent, NEW q \in Agent
        PROVE  Keeps(chan[p][q], chan'[p][q], i, IF p = a THEN T ELSE {})
    <3>0. chan[p][q] \in Seq(Msgs)
      BY <1>0 DEF Chans
    <3>1. CASE p = b /\ q = a
      <4>1. ~ItemIs(Head(chan[p][q]), i) /\ chan[p][q] # <<>>
        BY <1>0, <3>1 DEF ItemIs, SnapMsgs, Obj!SnapKinds
      <4>2. Keeps(chan[p][q], Tail(chan[p][q]), i, {})
        BY <3>0, <4>1, KeepsTail
      <4>3. chan'[p][q] = Tail(chan[p][q])
        BY <3>1 DEF Received
      <4> QED BY <1>0, <3>1, <4>2, <4>3
    <3>2. CASE p = a /\ q = a
      <4>1. chan[p][q] = <<>> /\ chan'[p][q] = <<>>
        BY <1>0, <3>2 DEF Shapes, Received
      <4>2. Keeps(<<>>, <<>>, i, T)
        BY DEF Keeps, OneItem
      <4> QED BY <3>2, <4>1, <4>2
    <3>3. CASE p = a /\ q # a
      <4>1. chan'[p][q] = Reply(a, q, m, t, o)
        BY <1>0, <3>3 DEF Received
      <4>2. PICK x \in Msgs : /\ x = SnapMsg("MARK", t) /\ x.token = t
                              /\ x.kind \in MarkKinds /\ ~ItemIs(x, i)
        <5>1. SnapMsg("MARK", t) \in Msgs
          BY <1>0, MsgKinds DEF Obj!SnapKinds
        <5> QED BY <5>1 DEF SnapMsg, MarkKinds, ItemIs
      <4>3. PICK y \in Msgs : /\ y = SnapMsg("RESPONSE", t)
                              /\ y.kind \notin MarkKinds /\ ~ItemIs(y, i)
        <5>1. SnapMsg("RESPONSE", t) \in Msgs
          BY <1>0, MsgKinds DEF Obj!SnapKinds
        <5> QED BY <5>1 DEF SnapMsg, MarkKinds, ItemIs
      <4>4. PICK s1 \in Seq(Msgs) : /\ s1 = Marked(a, q, t)
                                    /\ s1 = IF Known(a, t) THEN chan[a][q]
                                                           ELSE Append(chan[a][q], x)
        BY <3>0, <3>3, <4>2, AppendSeq DEF Marked
      <4>5. Keeps(chan[p][q], s1, i, T)
        <5>1. CASE Known(a, t)
          BY <2>0, <3>3, <4>4, <5>1, KeepsSame
        <5>2. CASE ~Known(a, t)
          <6>1. Keeps(chan[p][q], Append(chan[p][q], x), i, {t})
            BY <3>0, <4>2, KeepsAppend
          <6> QED BY <2>0, <3>3, <4>4, <5>2, <6>1
        <5> QED BY <5>1, <5>2
      <4>6. Keeps(s1, Append(s1, y), i, {})
        BY <4>3, KeepsAppend
      <4>7. Keeps(chan[p][q], Append(s1, y), i, T)
        BY <4>5, <4>6, KeepsBoth
      <4>8. chan'[p][q] = s1 \/ chan'[p][q] = Append(s1, y)
        BY <4>1, <4>3, <4>4 DEF Reply
      <4> QED BY <3>3, <4>5, <4>7, <4>8
    <3>4. CASE p # a /\ ~(p = b /\ q = a)
      <4>1. chan'[p][q] = chan[p][q]
        BY <3>4 DEF Received
      <4> QED BY <3>4, <4>1, KeepsSame
    <3> QED BY <3>1, <3>2, <3>3, <3>4
  <2> QED BY <2>1, <2>2, <2>3, <2>4, ItemStays
<1> QED BY <1>1 DEF Items, Located

\* A mark or an answer preserves the invariant.
LEMMA RecvSnapshotStep ==
    ASSUME SnapInv, NEW a \in Agent, NEW b \in Others(a), RecvSnapshot(a, b)
    PROVE  SnapInv'
<1>1. Typed /\ Objects /\ Progress /\ Shapes
    BY DEF SnapInv
<1>2. PICK m, t, o : /\ Arrived(a, b, m, t) /\ Counted(a, b, m, t, o)
                     /\ Received(a, b, m, t, o)
    BY RecvEffect
<1>3. Typed'
    BY <1>1, <1>2, RecvTyped
<1>4. Objects' /\ Progress'
    BY <1>1, <1>2, RecvObjects
<1>5. Shapes'
    BY <1>1, <1>2, RecvShapes
<1>6. Items'
    BY <1>2, RecvItems
<1> QED BY <1>3, <1>4, <1>5, <1>6 DEF SnapInv

-----------------------------------------------------------------------------
(* The invariant *)

LEMMA SnapStart ==
    ASSUME Init
    PROVE  SnapInv
<1>0. /\ hold \in [Agent -> SUBSET Item] /\ chan = NoMsgs
      /\ objs = [a \in Agent |-> <<>>] /\ started = <<>>
      /\ cut = [t \in Token |-> [a \in Agent |-> NoCut]]
    BY DEF Init
<1>1. \A p, q \in Agent : chan[p][q] = <<>>
    BY <1>0 DEF NoMsgs
<1>2. \A a \in Agent : DOMAIN objs[a] = {}
    BY <1>0
<1>3. \A a \in Agent : \A t \in Token : ~Done(a, t) /\ ~TakesPart(a, t)
    BY <1>0, <1>2 DEF Done, TakesPart
<1>4. DOMAIN started = {} /\ started \in Seq(Agent) /\ Len(started) <= MaxSnap
    BY <1>0, SnapAssumption
<1>5. Typed
  <2>1. TypeOK
    BY <1>0, <1>2, <1>4 DEF TypeOK
  <2>2. chan \in Chans
    BY <1>0 DEF NoMsgs, Chans
  <2> QED BY <1>0, <2>1, <2>2 DEF Typed
<1>6. Objects /\ Progress
    BY <1>2, <1>3, <1>4 DEF Objects, Progress
<1>7. Shapes
  <2>1. \A K, t : Free(<<>>, K, t)
    BY DEF Free
  <2>2. \A p, q \in Agent : \A t \in Token : MarkShape(p, q, t) /\ RespShape(p, q, t)
    BY <1>1, <1>3, <2>1 DEF MarkShape, RespShape
  <2> QED BY <1>1, <2>2 DEF Shapes, Others
<1>8. ASSUME NEW i \in Item
      PROVE  \E a \in Agent : Held(i, a)
  <2>1. Cardinality({a \in Agent : i \in hold[a]}) = 1
    BY DEF Init
  <2>2. IsFiniteSet({a \in Agent : i \in hold[a]})
    BY AgentsFinite, FS_Subset
  <2>3. PICK a : {c \in Agent : i \in hold[c]} = {a}
    BY <2>1, <2>2, FS_Singleton
  <2>4. \A p, q \in Agent : NoItem(chan[p][q], i)
    BY <1>1 DEF NoItem
  <2> QED BY <1>4, <2>3, <2>4 DEF Held
<1> QED BY <1>5, <1>6, <1>7, <1>8 DEF SnapInv, Items

\* A step that changes nothing.
LEMMA SnapStutter ==
    ASSUME SnapInv, UNCHANGED vars
    PROVE  SnapInv'
<1>1. hold' = hold /\ chan' = chan /\ objs' = objs /\ started' = started /\ cut' = cut
    BY DEF vars
<1>2. Typed'
    BY <1>1 DEF SnapInv, Typed, TypeOK
<1>5. Objects'
    BY <1>1 DEF SnapInv, Objects, Done, TakesPart, Marks, Resps
<1>6. Progress'
    BY <1>1 DEF SnapInv, Progress, Done, TakesPart
<1>3. Shapes'
    BY <1>1 DEF SnapInv, Shapes, MarkShape, RespShape, Done, TakesPart, MarkRead, RespRead,
                Marks, Resps, MarkKind
<1>4. Items'
    BY <1>1 DEF SnapInv, Items, Held, Sent, Unmarked, TakesPart, Done, Never, Once, Rec
<1> QED BY <1>2, <1>3, <1>4, <1>5, <1>6 DEF SnapInv

\* A step preserves the invariant.
LEMMA SnapStep ==
    ASSUME SnapInv, [Next]_vars
    PROVE  SnapInv'
<1>1. ASSUME NEW a \in Agent, StartSnapshot(a) PROVE SnapInv'
    BY <1>1, StartStep
<1>2. ASSUME NEW a \in Agent, NEW b \in Others(a), SendItem(a, b) PROVE SnapInv'
    BY <1>2, SendItemStep
<1>3. ASSUME NEW a \in Agent, NEW b \in Others(a), RecvItem(a, b) PROVE SnapInv'
    BY <1>3, RecvItemStep
<1>4. ASSUME NEW a \in Agent, NEW b \in Others(a), RecvSnapshot(a, b) PROVE SnapInv'
    BY <1>4, RecvSnapshotStep
<1>5. CASE UNCHANGED vars
    BY <1>5, SnapStutter
<1> QED BY <1>1, <1>2, <1>3, <1>4, <1>5 DEF Next, Receive, Quiet

\* The invariant holds in every reachable state.
LEMMA SnapAlways == Spec => []SnapInv
<1>1. Init => SnapInv
    BY SnapStart
<1>2. SnapInv /\ [Next]_vars => SnapInv'
    BY SnapStep
<1> QED BY <1>1, <1>2, PTL DEF Spec

\* The types of the variables, and what the registries of the agents
\* (ma_snapshot.c) hold: objects of started snapshots, with the initiator's
\* known as such, that never count a message of their own agent.
THEOREM SnapshotTypeCorrect == Spec => []TypeOK
<1>1. SnapInv => TypeOK
    BY DEF SnapInv, Typed
<1> QED BY <1>1, SnapAlways, PTL

\* No snapshot message comes too late or twice: planMASnapshotRegMsg never
\* makes an object again for a snapshot that is over, and the exits of
\* planMASnapshotMsg on a repeated mark or answer are never taken.
THEOREM NoStrayMessageAlways == Spec => []NoStrayMessage
<1>1. ASSUME SnapInv
      PROVE  NoStrayMessage
  <2> SUFFICES ASSUME NEW a \in Agent, NEW b \in Agent, chan[b][a] # <<>>,
                      NEW m, m = Head(chan[b][a]), m.kind \in Obj!SnapKinds
               PROVE  /\ cut[m.token][a] = NoCut
                      /\ Known(a, m.token) =>
                            ~Obj!Repeated(objs[a][m.token].count, m.kind, b)
    BY DEF NoStrayMessage
  <2>1. /\ Typed /\ Objects /\ Progress /\ Shapes /\ chan[b][a] \in Seq(Msgs)
        /\ b \in Others(a)
    BY <1>1 DEF SnapInv, Typed, Chans, Shapes, Others
  <2>2. m.token \in Token
    BY <2>1, TailSeq, MsgSplit
  <2>3. CASE m.kind \in MarkKinds
    <3>1. Is(Head(chan[b][a]), MarkKinds, m.token)
      BY <2>3 DEF Is
    <3>2. ~MarkRead(b, a, m.token) /\ ~Done(a, m.token)
      BY <2>1, <2>2, <3>1, HeadMark
    <3>3. m.kind # "RESPONSE"
      BY <2>3 DEF MarkKinds
    <3> QED BY <3>2, <3>3 DEF MarkRead, Done, Known, Marks, Obj!Repeated
  <2>4. CASE m.kind \in RespKinds
    <3>1. Is(Head(chan[b][a]), RespKinds, m.token)
      BY <2>4 DEF Is
    <3>2. ~RespRead(b, a, m.token) /\ ~Done(a, m.token)
      BY <2>1, <2>2, <3>1, HeadResp
    <3>3. m.kind = "RESPONSE"
      BY <2>4 DEF RespKinds
    <3> QED BY <3>2, <3>3 DEF RespRead, Done, Known, Resps, Obj!Repeated
  <2> QED BY <2>3, <2>4, MsgKinds
<1> QED BY <1>1, SnapAlways, PTL

\* No snapshot hangs: when no message is left, every object has been deleted,
\* so that no agent waits for a mark or an answer that will not come.
THEOREM SnapshotsEndAlways == Spec => []SnapshotsEnd
<1>1. ASSUME SnapInv, chan = NoMsgs, NEW a \in Agent, NEW t \in DOMAIN objs[a]
      PROVE  FALSE
  <2>1. TypeOK /\ Objects /\ Progress /\ Shapes
    BY <1>1 DEF SnapInv, Typed
  <2>2. t \in DOMAIN started /\ t \in Token /\ started[t] \in Agent
    BY <1>1, <2>1, StartedTokens DEF TypeOK
  <2>3. ASSUME NEW p \in Agent, NEW q \in Others(p)
        PROVE  /\ TakesPart(p, t) => MarkRead(p, q, t)
               /\ Done(p, t) /\ q = started[t] => RespRead(p, q, t)
    <3>1. q \in Agent /\ chan[p][q] = <<>> /\ MarkShape(p, q, t) /\ RespShape(p, q, t)
      BY <1>1, <2>1, <2>2 DEF NoMsgs, Shapes, Others
    <3>2. ~MarkOn(<<>>, t, MarkKind(p, t)) /\ ~RespOn(<<>>, t)
      BY DEF MarkOn, RespOn
    <3> QED BY <3>1, <3>2 DEF MarkShape, RespShape
  <2>4. ASSUME NEW p \in Agent
        PROVE  TakesPart(p, t)
    <3>1. CASE p = started[t]
      BY <2>1, <2>2, <3>1 DEF Progress
    <3>2. CASE p # started[t]
      <4>1. TakesPart(started[t], t) /\ p \in Others(started[t])
        BY <2>1, <2>2, <3>2 DEF Progress, Others
      <4>2. MarkRead(started[t], p, t)
        BY <2>2, <2>3, <4>1
      <4> QED BY <4>2 DEF MarkRead, TakesPart
    <3> QED BY <3>1, <3>2
  <2>5. ASSUME NEW p \in Agent, t \in DOMAIN objs[p]
        PROVE  Marks(p, t) = Others(p) /\ ~Done(p, t) /\ Resps(p, t) \subseteq Others(p)
    <3>1. ~Done(p, t) /\ Resps(p, t) \subseteq Marks(p, t)
      BY <2>1, <2>5 DEF Objects, Done
    <3>2. Marks(p, t) \subseteq Others(p)
      BY <2>1, <2>5 DEF TypeOK, ObjectType, Marks, Others
    <3>3. \A q \in Others(p) : q \in Agent /\ p \in Others(q)
      BY DEF Others
    <3>4. \A q \in Others(p) : q \in Marks(p, t)
      BY <2>3, <2>4, <3>1, <3>3 DEF MarkRead
    <3> QED BY <3>1, <3>2, <3>4
  <2>6. \A p \in Agent : p # started[t] => t \notin DOMAIN objs[p] /\ Done(p, t)
    BY <2>1, <2>4, <2>5 DEF Objects, TakesPart
  <2>7. a = started[t]
    BY <1>1, <2>6
  <2>8. \A q \in Others(a) : q \in Agent /\ a \in Others(q) /\ q # a
    BY DEF Others
  <2>9. \A q \in Others(a) : q \in Resps(a, t)
    BY <1>1, <2>3, <2>5, <2>6, <2>7, <2>8 DEF RespRead
  <2>10. Resps(a, t) = Others(a)
    BY <1>1, <2>5, <2>9
  <2> QED BY <1>1, <2>1, <2>7, <2>10 DEF Objects
<1>2. SnapInv => SnapshotsEnd
    BY <1>1 DEF SnapshotsEnd
<1> QED BY <1>2, SnapAlways, PTL

\* A snapshot is a consistent picture, which the verification of solutions of
\* ma_search.c rests on: when the initiator has all answers every agent has
\* recorded its part, and every item is in exactly one record, although the
\* agents went on to work and send while the marks were on their way.
THEOREM ConsistentCutAlways == Spec => []ConsistentCut
<1>1. ASSUME SnapInv, NEW t \in DOMAIN started, Done(started[t], t)
      PROVE  /\ \A a \in Agent : cut[t][a] # NoCut
             /\ \A i \in Item : Cardinality({a \in Agent : i \in cut[t][a]}) = 1
  <2>1. TypeOK /\ Objects /\ Progress /\ Shapes /\ Items
    BY <1>1 DEF SnapInv, Typed
  <2>2. t \in Token
    BY <2>1, StartedTokens
  <2>3. \A a \in Agent : Done(a, t) /\ TakesPart(a, t) /\ t \notin DOMAIN objs[a]
    BY <1>1, <2>1 DEF Progress, Objects, Done, TakesPart
  <2>4. ASSUME NEW p \in Agent, NEW q \in Agent, NEW k \in 1 .. Len(chan[p][q])
        PROVE  ~Unmarked(p, q, k, t)
    <3>1. Free(chan[p][q], MarkKinds, t)
      <4>1. CASE p = q
        BY <2>1, <4>1 DEF Shapes, Free
      <4>2. CASE p # q
        <5>1. MarkShape(p, q, t)
          BY <2>1, <2>2, <4>2 DEF Shapes, Others
        <5> QED BY <2>3, <5>1 DEF MarkShape, MarkRead
      <4> QED BY <4>1, <4>2
    <3> QED BY <2>3, <3>1 DEF Unmarked, MarkAfter, Free
  <2>5. ASSUME NEW i \in Item
        PROVE  Cardinality({a \in Agent : i \in cut[t][a]}) = 1
    <3>1. Once(i, t)
      <4>1. CASE \E a \in Agent : Held(i, a)
        BY <1>1, <2>3, <4>1 DEF Held
      <4>2. ASSUME NEW p \in Agent, NEW q \in Agent, NEW k \in 1 .. Len(chan[p][q]),
                   Sent(i, p, q, k)
            PROVE  Once(i, t)
        BY <1>1, <2>4, <4>2 DEF Sent
      <4> QED BY <2>1, <4>1, <4>2 DEF Items
    <3>2. \A a \in Agent : Rec(a, t) = cut[t][a]
      BY <2>3 DEF Rec
    <3>3. PICK a \in Agent : {c \in Agent : i \in cut[t][c]} = {a}
      BY <3>1, <3>2 DEF Once
    <3> QED BY <3>3, FS_Singleton
  <2> QED BY <2>3, <2>5 DEF Done
<1>2. SnapInv => ConsistentCut
    BY <1>1 DEF ConsistentCut, Done
<1> QED BY <1>2, SnapAlways, PTL
=============================================================================
