--------------------------- MODULE SnapshotRounds ---------------------------
(* Lemmas about one snapshot (ma_snapshot.c) among agents that do other     *)
(* things too: who has begun it, who has read whose mark and answer, and    *)
(* what of it is in the channels.  They are stated of any channels, so that *)
(* every module with snapshots can use them.                                *)
EXTENDS Channels, FiniteSetTheorems, TLAPS

-----------------------------------------------------------------------------
(* A channel and a snapshot: messages of certain kinds with its token *)

MarkKinds == {"INIT", "MARK"}
RespKinds == {"RESPONSE"}

Is(m, K, t) == m.kind \in K /\ m.token = t
Free(s, K, t) == \A k \in 1 .. Len(s) : ~Is(s[k], K, t)
Only(s, K, t, j) == /\ j \in 1 .. Len(s) /\ Is(s[j], K, t)
                    /\ \A k \in 1 .. Len(s) : Is(s[k], K, t) => k = j

MarkOn(s, t, kind) == \E j \in 1 .. Len(s) : Only(s, MarkKinds, t, j) /\ s[j].kind = kind
RespOn(s, t) == \E j \in 1 .. Len(s) :
                   /\ Only(s, RespKinds, t, j)
                   /\ \A k \in 1 .. Len(s) : Is(s[k], MarkKinds, t) => k < j

-----------------------------------------------------------------------------
(* Sequences *)

\* A sequence and one more element.
LEMMA AppendSeq ==
    ASSUME NEW M, NEW s \in Seq(M), NEW x \in M
    PROVE  /\ Append(s, x) \in Seq(M)
           /\ Len(s) \in Nat /\ Len(Append(s, x)) = Len(s) + 1
           /\ Append(s, x)[Len(s) + 1] = x
           /\ \A i \in 1 .. Len(s) : Append(s, x)[i] = s[i]
OBVIOUS

\* The head and the rest of a sequence.
LEMMA TailSeq ==
    ASSUME NEW M, NEW s \in Seq(M), s # <<>>
    PROVE  /\ Tail(s) \in Seq(M) /\ Head(s) \in M /\ Head(s) = s[1]
           /\ Len(s) \in Nat /\ Len(s) >= 1 /\ Len(Tail(s)) = Len(s) - 1
           /\ \A i \in 1 .. Len(Tail(s)) : Tail(s)[i] = s[i + 1]
OBVIOUS

\* Messages of a kind in a channel to which one is added,
LEMMA FreeAppend ==
    ASSUME NEW M, NEW s \in Seq(M), NEW x \in M, NEW K, NEW t
    PROVE  /\ Free(s, K, t) /\ ~Is(x, K, t) => Free(Append(s, x), K, t)
           /\ \A j : Only(s, K, t, j) /\ ~Is(x, K, t) => Only(Append(s, x), K, t, j)
           /\ Free(s, K, t) /\ Is(x, K, t) => Only(Append(s, x), K, t, Len(s) + 1)
<1> DEFINE u == Append(s, x)
<1>1. /\ Len(s) \in Nat /\ Len(u) = Len(s) + 1 /\ u[Len(s) + 1] = x
      /\ \A i \in 1 .. Len(s) : u[i] = s[i]
    BY AppendSeq
<1> HIDE DEF u
<1>2. Free(s, K, t) /\ ~Is(x, K, t) => Free(u, K, t)
    BY <1>1 DEF Free
<1>3. \A j : Only(s, K, t, j) /\ ~Is(x, K, t) => Only(u, K, t, j)
    BY <1>1 DEF Only
<1>4. Free(s, K, t) /\ Is(x, K, t) => Only(u, K, t, Len(s) + 1)
    BY <1>1 DEF Free, Only
<1> QED BY <1>2, <1>3, <1>4 DEF u

\* and from which one is read.
LEMMA FreeTail ==
    ASSUME NEW M, NEW s \in Seq(M), s # <<>>, NEW K, NEW t
    PROVE  /\ Free(s, K, t) => Free(Tail(s), K, t) /\ ~Is(Head(s), K, t)
           /\ \A j : Only(s, K, t, j) =>
                 \/ j = 1 /\ Is(Head(s), K, t) /\ Free(Tail(s), K, t)
                 \/ j > 1 /\ ~Is(Head(s), K, t) /\ Only(Tail(s), K, t, j - 1)
<1> DEFINE u == Tail(s)
<1>1. /\ Len(s) \in Nat /\ Len(s) >= 1 /\ Len(u) = Len(s) - 1 /\ Head(s) = s[1]
      /\ \A i \in 1 .. Len(u) : u[i] = s[i + 1]
    BY TailSeq
<1> HIDE DEF u
<1>2. Free(s, K, t) => Free(u, K, t) /\ ~Is(Head(s), K, t)
    BY <1>1 DEF Free
<1>3. ASSUME NEW j, Only(s, K, t, j)
      PROVE  \/ j = 1 /\ Is(Head(s), K, t) /\ Free(u, K, t)
             \/ j > 1 /\ ~Is(Head(s), K, t) /\ Only(u, K, t, j - 1)
  <2>1. CASE j = 1
    BY <1>1, <1>3, <2>1 DEF Only, Free
  <2>2. CASE j > 1
    BY <1>1, <1>3, <2>2 DEF Only
  <2> QED BY <1>3, <2>1, <2>2 DEF Only
<1> QED BY <1>2, <1>3 DEF u

\* A mark stays where another message is added, and is there once it was sent.
LEMMA MarkAppend ==
    ASSUME NEW M, NEW s \in Seq(M), NEW x \in M, NEW t, NEW kind
    PROVE  /\ MarkOn(s, t, kind) /\ ~Is(x, MarkKinds, t) => MarkOn(Append(s, x), t, kind)
           /\ Free(s, MarkKinds, t) /\ Is(x, MarkKinds, t) => MarkOn(Append(s, x), t, x.kind)
<1>1. /\ Len(s) \in Nat /\ Append(s, x)[Len(s) + 1] = x
      /\ Len(Append(s, x)) = Len(s) + 1
      /\ \A i \in 1 .. Len(s) : Append(s, x)[i] = s[i]
    BY AppendSeq
<1>2. ASSUME NEW j \in 1 .. Len(s), Only(s, MarkKinds, t, j), s[j].kind = kind,
             ~Is(x, MarkKinds, t)
      PROVE  MarkOn(Append(s, x), t, kind)
  <2>1. Only(Append(s, x), MarkKinds, t, j)
    BY <1>2, FreeAppend
  <2> QED BY <1>1, <1>2, <2>1 DEF MarkOn
<1>3. ASSUME Free(s, MarkKinds, t), Is(x, MarkKinds, t)
      PROVE  MarkOn(Append(s, x), t, x.kind)
  <2>1. Only(Append(s, x), MarkKinds, t, Len(s) + 1)
    BY <1>3, FreeAppend
  <2> QED BY <1>1, <2>1 DEF MarkOn
<1> QED BY <1>2, <1>3 DEF MarkOn

\* The mark is the message that is read, or it stays.
LEMMA MarkTail ==
    ASSUME NEW M, NEW s \in Seq(M), s # <<>>, NEW t, NEW kind, MarkOn(s, t, kind)
    PROVE  \/ /\ Is(Head(s), MarkKinds, t) /\ Head(s).kind = kind
              /\ Free(Tail(s), MarkKinds, t)
           \/ ~Is(Head(s), MarkKinds, t) /\ MarkOn(Tail(s), t, kind)
<1>1. PICK j \in 1 .. Len(s) : Only(s, MarkKinds, t, j) /\ s[j].kind = kind
    BY DEF MarkOn
<1>2. /\ Head(s) = s[1] /\ Len(Tail(s)) = Len(s) - 1 /\ Len(s) \in Nat
      /\ \A i \in 1 .. Len(Tail(s)) : Tail(s)[i] = s[i + 1]
    BY TailSeq
<1>3. CASE Is(Head(s), MarkKinds, t)
  <2>1. j = 1 /\ Free(Tail(s), MarkKinds, t)
    BY <1>1, <1>3, FreeTail
  <2> QED BY <1>1, <1>2, <1>3, <2>1
<1>4. CASE ~Is(Head(s), MarkKinds, t)
  <2>1. j > 1 /\ Only(Tail(s), MarkKinds, t, j - 1)
    BY <1>1, <1>4, FreeTail
  <2>2. j - 1 \in 1 .. Len(Tail(s)) /\ Tail(s)[j - 1].kind = kind
    BY <1>1, <1>2, <2>1
  <2> QED BY <1>4, <2>1, <2>2 DEF MarkOn
<1> QED BY <1>3, <1>4

\* The same for an answer: nothing but the mark of its sender goes before it.
LEMMA RespAppend ==
    ASSUME NEW M, NEW s \in Seq(M), NEW x \in M, NEW t
    PROVE  /\ RespOn(s, t) /\ ~Is(x, RespKinds, t) /\ ~Is(x, MarkKinds, t)
              => RespOn(Append(s, x), t)
           /\ Free(s, RespKinds, t) /\ Is(x, RespKinds, t) => RespOn(Append(s, x), t)
<1>1. /\ Len(s) \in Nat /\ Append(s, x)[Len(s) + 1] = x
      /\ Len(Append(s, x)) = Len(s) + 1
      /\ \A i \in 1 .. Len(s) : Append(s, x)[i] = s[i]
    BY AppendSeq
<1>2. ASSUME NEW j \in 1 .. Len(s), Only(s, RespKinds, t, j),
             \A k \in 1 .. Len(s) : Is(s[k], MarkKinds, t) => k < j,
             ~Is(x, RespKinds, t), ~Is(x, MarkKinds, t)
      PROVE  RespOn(Append(s, x), t)
  <2>1. Only(Append(s, x), RespKinds, t, j)
    BY <1>2, FreeAppend
  <2>2. \A k \in 1 .. Len(Append(s, x)) : Is(Append(s, x)[k], MarkKinds, t) => k < j
    BY <1>1, <1>2
  <2> QED BY <1>1, <1>2, <2>1, <2>2 DEF RespOn
<1>3. ASSUME Free(s, RespKinds, t), Is(x, RespKinds, t)
      PROVE  RespOn(Append(s, x), t)
  <2>1. Only(Append(s, x), RespKinds, t, Len(s) + 1)
    BY <1>3, FreeAppend
  <2>2. ~Is(x, MarkKinds, t)
    BY <1>3 DEF Is, RespKinds, MarkKinds
  <2>3. \A k \in 1 .. Len(Append(s, x)) :
           Is(Append(s, x)[k], MarkKinds, t) => k < Len(s) + 1
    BY <1>1, <2>2
  <2> QED BY <1>1, <2>1, <2>3 DEF RespOn
<1> QED BY <1>2, <1>3 DEF RespOn

\* When the answer is read, the mark was read already.
LEMMA RespTail ==
    ASSUME NEW M, NEW s \in Seq(M), s # <<>>, NEW t, RespOn(s, t)
    PROVE  \/ /\ Is(Head(s), RespKinds, t) /\ Free(Tail(s), RespKinds, t)
              /\ Free(s, MarkKinds, t)
           \/ ~Is(Head(s), RespKinds, t) /\ RespOn(Tail(s), t)
<1>1. PICK j \in 1 .. Len(s) : /\ Only(s, RespKinds, t, j)
                               /\ \A k \in 1 .. Len(s) : Is(s[k], MarkKinds, t) => k < j
    BY DEF RespOn
<1>2. /\ Head(s) = s[1] /\ Len(Tail(s)) = Len(s) - 1 /\ Len(s) \in Nat
      /\ \A i \in 1 .. Len(Tail(s)) : Tail(s)[i] = s[i + 1]
    BY TailSeq
<1>3. CASE Is(Head(s), RespKinds, t)
  <2>1. j = 1 /\ Free(Tail(s), RespKinds, t)
    BY <1>1, <1>3, FreeTail
  <2>2. Free(s, MarkKinds, t)
    BY <1>1, <1>2, <2>1 DEF Free
  <2> QED BY <1>3, <2>1, <2>2
<1>4. CASE ~Is(Head(s), RespKinds, t)
  <2>1. j > 1 /\ Only(Tail(s), RespKinds, t, j - 1)
    BY <1>1, <1>4, FreeTail
  <2>2. \A k \in 1 .. Len(Tail(s)) : Is(Tail(s)[k], MarkKinds, t) => k < j - 1
    BY <1>1, <1>2
  <2>3. j - 1 \in 1 .. Len(Tail(s))
    BY <1>1, <1>2, <2>1
  <2> QED BY <1>4, <2>1, <2>2, <2>3 DEF RespOn
<1> QED BY <1>3, <1>4

-----------------------------------------------------------------------------
(* Agents *)

\* There are N - 1 others.
LEMMA AgentsFinite ==
    /\ IsFiniteSet(Agent)
    /\ \A a \in Agent : IsFiniteSet(Others(a)) /\ Cardinality(Others(a)) = N - 1
<1>1. N - 1 \in Int /\ 0 \in Int /\ N \in Nat /\ ~(0 > N - 1)
    BY SizeAssumption
<1>2. IsFiniteSet(Agent) /\ Cardinality(Agent) = N
  <2>1. \A e \in Int : /\ IsFiniteSet(0 .. e)
                       /\ Cardinality(0 .. e) = IF 0 > e THEN 0 ELSE e - 0 + 1
    BY <1>1, FS_Interval
  <2>2. Cardinality(Agent) = N - 1 - 0 + 1
    BY <1>1, <2>1 DEF Agent
  <2> QED BY <1>1, <2>1, <2>2 DEF Agent
<1>3. ASSUME NEW a \in Agent
      PROVE  IsFiniteSet(Others(a)) /\ Cardinality(Others(a)) = N - 1
    BY <1>2, <1>3, FS_RemoveElement DEF Others
<1> QED BY <1>2, <1>3

\* Who has heard N - 1 others has heard all.
LEMMA HeardAll ==
    ASSUME NEW a \in Agent, NEW S \in SUBSET Agent, a \notin S
    PROVE  Cardinality(S) = N - 1 <=> S = Others(a)
<1>1. S \subseteq Others(a)
    BY DEF Others
<1>2. IsFiniteSet(Others(a)) /\ Cardinality(Others(a)) = N - 1
    BY AgentsFinite
<1> QED BY <1>1, <1>2, FS_Subset

-----------------------------------------------------------------------------
(* The round of a snapshot: i is its initiator, t its token, ph[a] whether  *)
(* agent a has begun or ended it, mk[a] and rs[a] are the agents whose marks *)
(* and answers it has read.  An agent's mark is in the channels from when it *)
(* begins until it is read, and so is the answer to the initiator from when  *)
(* it ends; nothing else of the snapshot is.                                *)

Phases == {"out", "in", "done"}

MarkWay(s, t, kind, onWay) == IF onWay THEN MarkOn(s, t, kind) ELSE Free(s, MarkKinds, t)
RespWay(s, t, onWay) == IF onWay THEN RespOn(s, t) ELSE Free(s, RespKinds, t)
KindOf(p, i) == IF p = i THEN "INIT" ELSE "MARK"

Heard(i, a, ph, mk, rs) ==
    /\ ph[a] \in Phases
    /\ mk[a] \subseteq Others(a) /\ rs[a] \subseteq mk[a]
    /\ ph[a] = "out" => mk[a] = {}
    /\ ph[a] = "in" /\ a # i => mk[a] # Others(a)
    /\ ph[a] = "in" /\ a = i => rs[a] # Others(a)
    /\ ph[a] = "done" => mk[a] = Others(a) /\ (a = i => rs[a] = Others(a))
    /\ a # i => rs[a] = {}
    /\ \A p \in mk[a] : ph[p] # "out"
    /\ \A p \in rs[a] : ph[p] = "done"

AllHeard(i, ph, mk, rs) == \A a \in Agent : Heard(i, a, ph, mk, rs)

Round(ch, t, i, ph, mk, rs) ==
    /\ AllHeard(i, ph, mk, rs)
    /\ ph[i] = "out" => \A a \in Agent : ph[a] = "out"
    /\ \A p \in Agent : \A q \in Others(p) :
          /\ MarkWay(ch[p][q], t, KindOf(p, i), ph[p] # "out" /\ p \notin mk[q])
          /\ RespWay(ch[p][q], t, ph[p] = "done" /\ q = i /\ p \notin rs[q])

Channels(M) == [Agent -> [Agent -> Seq(M)]]

\* A channel that changes by other messages only.
Keeps(s, u, t) ==
    /\ \A K \in {MarkKinds, RespKinds} : Free(s, K, t) => Free(u, K, t)
    /\ \A kind : MarkOn(s, t, kind) => MarkOn(u, t, kind)
    /\ RespOn(s, t) => RespOn(u, t)

\* What a step does: to what an agent has heard, to its phase, and to the
\* channels; the next message from b to a is one of the snapshot.
Hears(mk, mk2, a, b) == \A c \in Agent : mk2[c] = IF c = a THEN mk[c] \cup {b} ELSE mk[c]
Turns(ph, ph2, a, phase) == \A c \in Agent : ph2[c] = IF c = a THEN phase ELSE ph[c]
HeadIs(ch, b, a, K, t) == ch[b][a] # <<>> /\ Is(Head(ch[b][a]), K, t)
Sends(ch, ch2, a, S, x) == \A p \in Agent : \A q \in Others(p) :
    ch2[p][q] = IF p = a /\ q \in S THEN Append(ch[p][q], x) ELSE ch[p][q]
Reads(ch, ch2, b, a) == \A p \in Agent : \A q \in Others(p) :
    ch2[p][q] = IF p = b /\ q = a THEN Tail(ch[p][q]) ELSE ch[p][q]

Apart(m, t) == ~Is(m, MarkKinds, t) /\ ~Is(m, RespKinds, t)

\* A channel does when a message of something else is added or read.
LEMMA KeepsMove ==
    ASSUME NEW M, NEW s \in Seq(M), NEW t
    PROVE  /\ Keeps(s, s, t)
           /\ \A x \in M : Apart(x, t) => Keeps(s, Append(s, x), t)
           /\ s # <<>> /\ Apart(Head(s), t) => Keeps(s, Tail(s), t)
<1>1. ASSUME NEW x \in M, Apart(x, t)
      PROVE  Keeps(s, Append(s, x), t)
    BY <1>1, FreeAppend, MarkAppend, RespAppend DEF Keeps, Apart
<1>2. ASSUME s # <<>>, Apart(Head(s), t)
      PROVE  Keeps(s, Tail(s), t)
  <2>1. \A K : Free(s, K, t) => Free(Tail(s), K, t)
    BY <1>2, FreeTail
  <2>2. \A kind : MarkOn(s, t, kind) => MarkOn(Tail(s), t, kind)
    BY <1>2, MarkTail DEF Apart
  <2>3. RespOn(s, t) => RespOn(Tail(s), t)
    BY <1>2, RespTail DEF Apart
  <2> QED BY <2>1, <2>2, <2>3 DEF Keeps
<1> QED BY <1>1, <1>2 DEF Keeps

\* What keeps a channel keeps what is on its way in it.
LEMMA WayKeeps ==
    ASSUME NEW s, NEW u, NEW t, Keeps(s, u, t), NEW kind, NEW onWay
    PROVE  /\ MarkWay(s, t, kind, onWay) => MarkWay(u, t, kind, onWay)
           /\ RespWay(s, t, onWay) => RespWay(u, t, onWay)
BY DEF Keeps, MarkWay, RespWay

\* The round goes on where the channels change by other messages only.
LEMMA RoundKeeps ==
    ASSUME NEW ch, NEW ch2, NEW t, NEW i \in Agent, NEW ph, NEW mk, NEW rs,
           Round(ch, t, i, ph, mk, rs),
           \A p \in Agent : \A q \in Others(p) : Keeps(ch[p][q], ch2[p][q], t)
    PROVE  Round(ch2, t, i, ph, mk, rs)
<1>1. ASSUME NEW p \in Agent, NEW q \in Others(p)
      PROVE  /\ MarkWay(ch2[p][q], t, KindOf(p, i), ph[p] # "out" /\ p \notin mk[q])
             /\ RespWay(ch2[p][q], t, ph[p] = "done" /\ q = i /\ p \notin rs[q])
  <2>1. /\ MarkWay(ch[p][q], t, KindOf(p, i), ph[p] # "out" /\ p \notin mk[q])
        /\ RespWay(ch[p][q], t, ph[p] = "done" /\ q = i /\ p \notin rs[q])
        /\ Keeps(ch[p][q], ch2[p][q], t)
    BY DEF Round
  <2> QED BY <2>1, WayKeeps
<1> QED BY <1>1 DEF Round

\* A mark that is read comes in time, and it is the only one.
LEMMA RoundHeadMark ==
    ASSUME NEW M, NEW ch \in Channels(M), NEW t, NEW i \in Agent, NEW ph, NEW mk, NEW rs,
           Round(ch, t, i, ph, mk, rs), NEW a \in Agent, NEW b \in Others(a),
           HeadIs(ch, b, a, MarkKinds, t)
    PROVE  /\ ph[b] # "out" /\ ph[i] # "out" /\ ph[a] # "done" /\ b \notin mk[a]
           /\ Free(Tail(ch[b][a]), MarkKinds, t)
<1> USE DEF Hears, Turns, HeadIs, Sends, Reads
<1>1. ch[b][a] \in Seq(M) /\ b \in Agent /\ a \in Others(b)
    BY DEF Channels, Others
<1>2. MarkWay(ch[b][a], t, KindOf(b, i), ph[b] # "out" /\ b \notin mk[a])
    BY <1>1 DEF Round, AllHeard
<1>3. ~Free(ch[b][a], MarkKinds, t)
    BY <1>1, FreeTail
<1>4. ph[b] # "out" /\ b \notin mk[a] /\ MarkOn(ch[b][a], t, KindOf(b, i))
    BY <1>2, <1>3 DEF MarkWay
<1>5. Free(Tail(ch[b][a]), MarkKinds, t)
    BY <1>1, <1>4, MarkTail
<1>6. ph[a] # "done"
    BY <1>4 DEF Round, AllHeard, Heard
<1>7. ph[i] # "out"
    BY <1>1, <1>4 DEF Round, AllHeard
<1> QED BY <1>4, <1>5, <1>6, <1>7

\* So does an answer. Only the initiator is answered,
LEMMA RoundAnswered ==
    ASSUME NEW M, NEW ch \in Channels(M), NEW t, NEW i \in Agent, NEW ph, NEW mk, NEW rs,
           Round(ch, t, i, ph, mk, rs), NEW a \in Agent, NEW b \in Others(a),
           HeadIs(ch, b, a, RespKinds, t)
    PROVE  a = i
<1> USE DEF HeadIs
<1>1. ch[b][a] \in Seq(M) /\ b \in Agent /\ a \in Others(b)
    BY DEF Channels, Others
<1>2. RespWay(ch[b][a], t, ph[b] = "done" /\ a = i /\ b \notin rs[a])
    BY <1>1 DEF Round
<1>3. ~Free(ch[b][a], RespKinds, t)
    BY <1>1, FreeTail
<1> QED BY <1>2, <1>3 DEF RespWay

\* and it reads the answer after the mark.
LEMMA RoundHeadResp ==
    ASSUME NEW M, NEW ch \in Channels(M), NEW t, NEW i \in Agent, NEW ph, NEW mk, NEW rs,
           Round(ch, t, i, ph, mk, rs), NEW b \in Others(i),
           HeadIs(ch, b, i, RespKinds, t)
    PROVE  /\ ph[b] = "done" /\ ph[i] = "in" /\ b \notin rs[i] /\ b \in mk[i]
           /\ Free(Tail(ch[b][i]), RespKinds, t)
<1> USE DEF HeadIs
<1>1. ch[b][i] \in Seq(M) /\ b \in Agent /\ i \in Others(b) /\ b # i
    BY DEF Channels, Others
<1>2. /\ MarkWay(ch[b][i], t, KindOf(b, i), ph[b] # "out" /\ b \notin mk[i])
      /\ RespWay(ch[b][i], t, ph[b] = "done" /\ i = i /\ b \notin rs[i])
    BY <1>1 DEF Round
<1>3. ~Free(ch[b][i], RespKinds, t)
    BY <1>1, FreeTail
<1>4. ph[b] = "done" /\ b \notin rs[i] /\ RespOn(ch[b][i], t)
    BY <1>2, <1>3 DEF RespWay
<1>5. Free(Tail(ch[b][i]), RespKinds, t) /\ Free(ch[b][i], MarkKinds, t)
    BY <1>1, <1>4, RespTail
<1>6. b \in mk[i]
  <2>1. ~MarkOn(ch[b][i], t, KindOf(b, i))
    BY <1>5 DEF MarkOn, Only, Free
  <2> QED BY <1>2, <1>4, <2>1 DEF MarkWay
<1>7. ph[i] = "in"
  <2>1. Heard(i, i, ph, mk, rs)
    BY DEF Round, AllHeard
  <2>2. ph[i] # "out"
    BY <1>6, <2>1 DEF Heard
  <2>3. ph[i] # "done"
    BY <1>1, <1>4, <2>1 DEF Heard
  <2> QED BY <2>1, <2>2, <2>3 DEF Heard, Phases
<1> QED BY <1>4, <1>5, <1>6, <1>7

\* The others are some.
LEMMA SomeOther ==
    ASSUME NEW a \in Agent
    PROVE  Others(a) # {} /\ Others(a) \subseteq Agent /\ a \notin Others(a)
<1>1. (IF a = 0 THEN 1 ELSE 0) \in Others(a)
    BY SizeAssumption DEF Others, Agent
<1> QED BY <1>1 DEF Others

\* An agent begins, and sends its mark to all others.
LEMMA RoundBegins ==
    ASSUME NEW M, NEW ch \in Channels(M), NEW t, NEW i \in Agent, NEW ph, NEW mk, NEW rs,
           Round(ch, t, i, ph, mk, rs), NEW a \in Agent, ph[a] = "out",
           a = i \/ ph[i] # "out",
           NEW x \in M, x.kind = KindOf(a, i), x.token = t,
           NEW ch2, Sends(ch, ch2, a, Others(a), x),
           NEW ph2, Turns(ph, ph2, a, "in")
    PROVE  Round(ch2, t, i, ph2, mk, rs)
<1> USE DEF Hears, Turns, HeadIs, Sends, Reads
<1>1. Is(x, MarkKinds, t) /\ ~Is(x, RespKinds, t)
    BY DEF Is, MarkKinds, RespKinds, KindOf
<1>2. \A c \in Agent : Heard(i, c, ph, mk, rs)
    BY DEF Round, AllHeard
<1>3. \A c \in Agent : a \notin mk[c] /\ a \notin rs[c]
    BY <1>2 DEF Heard
<1>4. ASSUME NEW c \in Agent
      PROVE  Heard(i, c, ph2, mk, rs)
  <2>1. /\ Heard(i, c, ph, mk, rs) /\ mk[c] \subseteq Agent /\ rs[c] \subseteq Agent
        /\ Others(c) # {}
    BY <1>2, SomeOther DEF Heard
  <2>2. /\ \A p \in mk[c] : ph2[p] # "out"
        /\ \A p \in rs[c] : ph2[p] = "done"
    BY <1>3, <2>1 DEF Heard
  <2>3. CASE c = a
    <3>1. mk[c] = {} /\ rs[c] = {}
      BY <2>1, <2>3 DEF Heard
    <3> QED BY <2>1, <2>2, <2>3, <3>1 DEF Heard, Phases
  <2>4. CASE c # a
    BY <2>1, <2>2, <2>4 DEF Heard
  <2> QED BY <2>3, <2>4
<1>5. ph2[i] # "out"
  <2>1. CASE a = i
    BY <2>1
  <2>2. CASE a # i
    BY <2>2
  <2> QED BY <2>1, <2>2
<1>6. ASSUME NEW p \in Agent, NEW q \in Others(p)
      PROVE  /\ MarkWay(ch2[p][q], t, KindOf(p, i), ph2[p] # "out" /\ p \notin mk[q])
             /\ RespWay(ch2[p][q], t, ph2[p] = "done" /\ q = i /\ p \notin rs[q])
  <2>1. /\ MarkWay(ch[p][q], t, KindOf(p, i), ph[p] # "out" /\ p \notin mk[q])
        /\ RespWay(ch[p][q], t, ph[p] = "done" /\ q = i /\ p \notin rs[q])
        /\ q \in Agent /\ ch[p][q] \in Seq(M)
    BY DEF Round, AllHeard, Others, Channels
  <2>2. CASE p = a
    <3>1. Free(ch[p][q], MarkKinds, t) /\ Free(ch[p][q], RespKinds, t)
      BY <2>1, <2>2 DEF MarkWay, RespWay
    <3>2. MarkOn(ch2[p][q], t, KindOf(p, i)) /\ Free(ch2[p][q], RespKinds, t)
      BY <1>1, <2>1, <2>2, <3>1, MarkAppend, FreeAppend
    <3>3. ph2[p] = "in" /\ p \notin mk[q]
      BY <1>3, <2>1, <2>2
    <3> QED BY <3>2, <3>3 DEF MarkWay, RespWay
  <2>3. CASE p # a
    BY <2>1, <2>3
  <2> QED BY <2>2, <2>3
<1> QED BY <1>4, <1>5, <1>6 DEF Round, AllHeard

\* Reading one message takes the snapshot's messages of its kinds away.
LEMMA CellRead ==
    ASSUME NEW M, NEW s \in Seq(M), s # <<>>, NEW t, NEW kind
    PROVE  /\ Is(Head(s), MarkKinds, t) =>
                /\ \A w : RespWay(s, t, w) => RespWay(Tail(s), t, w)
           /\ Is(Head(s), RespKinds, t) =>
                /\ \A w : MarkWay(s, t, kind, w) => MarkWay(Tail(s), t, kind, w)
<1>1. ~(Is(Head(s), MarkKinds, t) /\ Is(Head(s), RespKinds, t))
    BY DEF Is, MarkKinds, RespKinds
<1>2. ASSUME Is(Head(s), MarkKinds, t), NEW w, RespWay(s, t, w)
      PROVE  RespWay(Tail(s), t, w)
    BY <1>1, <1>2, FreeTail, RespTail DEF RespWay
<1>3. ASSUME Is(Head(s), RespKinds, t), NEW w, MarkWay(s, t, kind, w)
      PROVE  MarkWay(Tail(s), t, kind, w)
    BY <1>1, <1>3, FreeTail, MarkTail DEF MarkWay
<1> QED BY <1>2, <1>3

\* What the agents have heard when one of them has read a mark.
LEMMA HeardMark ==
    ASSUME NEW i \in Agent, NEW ph, NEW mk, NEW rs, NEW a \in Agent, NEW b \in Others(a),
           AllHeard(i, ph, mk, rs), ph[b] # "out", ph[a] = "in",
           NEW mk2, Hears(mk, mk2, a, b), a = i \/ mk2[a] # Others(a)
    PROVE  AllHeard(i, ph, mk2, rs)
<1>1. Heard(i, a, ph, mk, rs) /\ mk2[a] = mk[a] \cup {b}
    BY DEF AllHeard, Hears
<1>2. ASSUME NEW c \in Agent, c # a
      PROVE  Heard(i, c, ph, mk2, rs)
  <2>1. Heard(i, c, ph, mk, rs) /\ mk2[c] = mk[c]
    BY <1>2 DEF AllHeard, Hears
  <2> QED BY <2>1 DEF Heard
<1>3. Heard(i, a, ph, mk2, rs)
    BY <1>1 DEF Heard
<1> QED BY <1>2, <1>3 DEF AllHeard

\* The agent reads a mark, but waits for other messages still.
LEMMA RoundReadsMark ==
    ASSUME NEW M, NEW ch \in Channels(M), NEW t, NEW i \in Agent, NEW ph, NEW mk, NEW rs,
           Round(ch, t, i, ph, mk, rs), NEW a \in Agent, NEW b \in Others(a), ph[a] = "in",
           HeadIs(ch, b, a, MarkKinds, t),
           NEW mk2, Hears(mk, mk2, a, b),
           a = i \/ mk2[a] # Others(a),
           NEW ch2, Reads(ch, ch2, b, a)
    PROVE  Round(ch2, t, i, ph, mk2, rs)
<1>1. /\ ph[b] # "out" /\ ph[i] # "out" /\ b \notin mk[a]
      /\ Free(Tail(ch[b][a]), MarkKinds, t)
    BY RoundHeadMark
<1>0. AllHeard(i, ph, mk, rs)
    BY DEF Round
<1>2. AllHeard(i, ph, mk2, rs)
    BY <1>0, <1>1, HeardMark
<1> USE DEF Hears, Turns, HeadIs, Sends, Reads
<1>3. ASSUME NEW p \in Agent, NEW q \in Others(p)
      PROVE  /\ MarkWay(ch2[p][q], t, KindOf(p, i), ph[p] # "out" /\ p \notin mk2[q])
             /\ RespWay(ch2[p][q], t, ph[p] = "done" /\ q = i /\ p \notin rs[q])
  <2>1. /\ MarkWay(ch[p][q], t, KindOf(p, i), ph[p] # "out" /\ p \notin mk[q])
        /\ RespWay(ch[p][q], t, ph[p] = "done" /\ q = i /\ p \notin rs[q])
        /\ q \in Agent /\ ch[p][q] \in Seq(M)
    BY DEF Round, AllHeard, Others, Channels
  <2>2. CASE p = b /\ q = a
    <3>1. ch2[p][q] = Tail(ch[p][q]) /\ p \in mk2[q]
      BY <2>2
    <3>2. MarkWay(ch2[p][q], t, KindOf(p, i), FALSE)
      BY <1>1, <2>2, <3>1 DEF MarkWay
    <3>3. RespWay(ch2[p][q], t, ph[p] = "done" /\ q = i /\ p \notin rs[q])
      BY <2>1, <2>2, <3>1, CellRead
    <3> QED BY <3>1, <3>2, <3>3 DEF MarkWay
  <2>3. CASE ~(p = b /\ q = a)
    <3>1. ch2[p][q] = ch[p][q] /\ (p \in mk2[q] <=> p \in mk[q])
      BY <2>1, <2>3
    <3> QED BY <2>1, <3>1 DEF MarkWay
  <2> QED BY <2>2, <2>3
<1> QED BY <1>1, <1>2, <1>3 DEF Round, AllHeard

\* The agent reads the last mark, and answers the initiator.
LEMMA RoundAnswers ==
    ASSUME NEW M, NEW ch \in Channels(M), NEW t, NEW i \in Agent, NEW ph, NEW mk, NEW rs,
           Round(ch, t, i, ph, mk, rs), NEW a \in Agent, NEW b \in Others(a), ph[a] = "in",
           HeadIs(ch, b, a, MarkKinds, t),
           NEW mk2, Hears(mk, mk2, a, b),
           a # i, mk2[a] = Others(a),
           NEW y \in M, y.kind = "RESPONSE", y.token = t,
           NEW ch1, Reads(ch, ch1, b, a), NEW ch2, Sends(ch1, ch2, a, {i}, y),
           NEW ph2, Turns(ph, ph2, a, "done")
    PROVE  Round(ch2, t, i, ph2, mk2, rs)
<1>1. /\ ph[b] # "out" /\ ph[i] # "out" /\ b \notin mk[a]
      /\ Free(Tail(ch[b][a]), MarkKinds, t)
    BY RoundHeadMark
<1> USE DEF Hears, Turns, HeadIs, Sends, Reads, AllHeard
<1>0. ~Is(y, MarkKinds, t) /\ Is(y, RespKinds, t)
    BY DEF Is, MarkKinds, RespKinds
<1>3. AllHeard(i, ph, mk, rs)
    BY DEF Round
<1>2. /\ \A c \in Agent \ {a} : Heard(i, c, ph, mk2, rs)
      /\ mk2[a] \subseteq Others(a) /\ rs[a] \subseteq mk2[a]
      /\ \A p \in mk2[a] : ph[p] # "out"
  <2>1. Heard(i, a, ph, mk, rs) /\ mk2[a] = mk[a] \cup {b}
    BY <1>3
  <2>2. ASSUME NEW c \in Agent \ {a}
        PROVE  Heard(i, c, ph, mk2, rs)
    <3>1. Heard(i, c, ph, mk, rs) /\ mk2[c] = mk[c]
      BY <1>3
    <3> QED BY <3>1 DEF Heard
  <2> QED BY <1>1, <2>1, <2>2 DEF Heard
<1>4. rs[a] = {} /\ \A c \in Agent : a \notin rs[c]
    BY <1>3 DEF Heard
<1>5. ASSUME NEW c \in Agent
      PROVE  Heard(i, c, ph2, mk2, rs)
  <2>1. mk2[c] \subseteq Agent /\ \A p \in mk2[c] : ph2[p] # "out"
    <3>1. mk2[c] \subseteq Agent /\ \A p \in mk2[c] : ph[p] # "out"
      BY <1>2, SomeOther DEF Heard
    <3> QED BY <3>1
  <2>2. \A p \in rs[c] : ph2[p] = "done"
    <3>1. rs[c] \subseteq Agent /\ \A p \in rs[c] : ph[p] = "done"
      BY <1>3, SomeOther DEF Heard
    <3> QED BY <3>1
  <2>3. CASE c = a
    BY <1>2, <1>4, <2>1, <2>2, <2>3 DEF Heard, Phases
  <2>4. CASE c # a
    <3>1. Heard(i, c, ph, mk2, rs) /\ ph2[c] = ph[c]
      BY <1>2, <2>4
    <3> QED BY <2>1, <2>2, <3>1 DEF Heard
  <2> QED BY <2>3, <2>4
<1>6. ph2[i] # "out"
    BY <1>1
<1>7. ASSUME NEW p \in Agent, NEW q \in Others(p)
      PROVE  /\ MarkWay(ch2[p][q], t, KindOf(p, i), ph2[p] # "out" /\ p \notin mk2[q])
             /\ RespWay(ch2[p][q], t, ph2[p] = "done" /\ q = i /\ p \notin rs[q])
  <2>1. /\ MarkWay(ch[p][q], t, KindOf(p, i), ph[p] # "out" /\ p \notin mk[q])
        /\ RespWay(ch[p][q], t, ph[p] = "done" /\ q = i /\ p \notin rs[q])
        /\ q \in Agent /\ ch[p][q] \in Seq(M)
    BY DEF Round, AllHeard, Others, Channels
  <2>5. ph2[p] # "out" <=> ph[p] # "out"
    OBVIOUS
  <2>2. CASE p = b /\ q = a
    <3>1. ch2[p][q] = Tail(ch[p][q]) /\ p \in mk2[q] /\ q # i
      BY <2>2
    <3>2. MarkWay(ch2[p][q], t, KindOf(p, i), FALSE)
      BY <1>1, <2>2, <3>1 DEF MarkWay
    <3>3. RespWay(ch2[p][q], t, FALSE)
      BY <2>1, <2>2, <3>1, CellRead DEF RespWay
    <3> QED BY <3>1, <3>2, <3>3 DEF MarkWay, RespWay
  <2>3. CASE p = a /\ q = i
    <3>1. ch2[p][q] = Append(ch[p][q], y) /\ ph2[p] = "done" /\ p \notin rs[q]
      BY <1>4, <2>1, <2>3, SomeOther
    <3>2. p \in mk2[q] <=> p \in mk[q]
      BY <2>3
    <3>3. Free(ch[p][q], RespKinds, t)
      BY <2>1, <2>3 DEF RespWay
    <3>4. RespOn(ch2[p][q], t)
      BY <1>0, <2>1, <3>1, <3>3, RespAppend
    <3>5. \A w : MarkWay(ch[p][q], t, KindOf(p, i), w)
                    => MarkWay(ch2[p][q], t, KindOf(p, i), w)
      BY <1>0, <2>1, <3>1, MarkAppend, FreeAppend DEF MarkWay
    <3>6. MarkWay(ch2[p][q], t, KindOf(p, i), ph[p] # "out" /\ p \notin mk[q])
      BY <2>1, <3>5
    <3> QED BY <2>1, <2>3, <2>5, <3>1, <3>2, <3>4, <3>6 DEF MarkWay, RespWay
  <2>4. CASE ~(p = b /\ q = a) /\ ~(p = a /\ q = i)
    <3>3. ch2[p][q] = ch[p][q]
      BY <2>1, <2>4
    <3>4. mk2[q] = IF q = a THEN mk[q] \cup {b} ELSE mk[q]
      BY <2>1
    <3>1. ch2[p][q] = ch[p][q] /\ (p \in mk2[q] <=> p \in mk[q])
      BY ONLY <2>4, <3>3, <3>4
    <3>2. ph2[p] = "done" /\ q = i <=> ph[p] = "done" /\ q = i
      BY <2>4
    <3> QED BY <2>1, <2>5, <3>1, <3>2 DEF MarkWay, RespWay
  <2> QED BY <2>2, <2>3, <2>4
<1> QED BY <1>5, <1>6, <1>7 DEF Round, AllHeard

\* The initiator reads an answer, and ends when it has all.
LEMMA RoundReadsResp ==
    ASSUME NEW M, NEW ch \in Channels(M), NEW t, NEW i \in Agent, NEW ph, NEW mk, NEW rs,
           Round(ch, t, i, ph, mk, rs), NEW b \in Others(i),
           HeadIs(ch, b, i, RespKinds, t),
           NEW rs2, Hears(rs, rs2, i, b),
           NEW ch2, Reads(ch, ch2, b, i),
           NEW ph2, IF rs2[i] = Others(i) THEN Turns(ph, ph2, i, "done") ELSE ph2 = ph
    PROVE  Round(ch2, t, i, ph2, mk, rs2)
<1>1. /\ ph[b] = "done" /\ ph[i] = "in" /\ b \notin rs[i] /\ b \in mk[i]
      /\ Free(Tail(ch[b][i]), RespKinds, t)
    BY RoundHeadResp
<1> USE DEF Hears, Turns, HeadIs, Sends, Reads
<1>2. \A c \in Agent : Heard(i, c, ph, mk, rs)
    BY DEF Round, AllHeard
<1>3. /\ \A c \in Agent : (ph2[c] # "out" <=> ph[c] # "out")
      /\ \A c \in Agent : ph[c] = "done" => ph2[c] = "done"
      /\ \A c \in Agent \ {i} : ph2[c] = ph[c]
    BY <1>1
<1>4. ASSUME NEW c \in Agent
      PROVE  Heard(i, c, ph2, mk, rs2)
  <2>1. /\ Heard(i, c, ph, mk, rs) /\ mk[c] \subseteq Agent /\ rs[c] \subseteq Agent
        /\ \A p \in mk[c] : ph2[p] # "out"
        /\ \A p \in rs[c] : ph2[p] = "done"
    BY <1>2, <1>3, SomeOther DEF Heard
  <2>2. CASE c # i
    <3>1. rs2[c] = rs[c] /\ ph2[c] = ph[c]
      BY <2>2
    <3> QED BY <2>1, <2>2, <3>1 DEF Heard
  <2>3. CASE c = i
    <3>1. rs2[i] = rs[i] \cup {b} /\ b \in Agent /\ ph2[b] = "done"
      BY <1>1, <1>3, SomeOther
    <3>2. rs2[i] \subseteq mk[i] /\ mk[i] \subseteq Others(i)
      BY <1>1, <2>1, <2>3, <3>1 DEF Heard
    <3>3. ph2[i] = IF rs2[i] = Others(i) THEN "done" ELSE "in"
      BY <1>1
    <3> QED BY <2>1, <2>3, <3>1, <3>2, <3>3 DEF Heard, Phases
  <2> QED BY <2>2, <2>3
<1>5. ASSUME NEW p \in Agent, NEW q \in Others(p)
      PROVE  /\ MarkWay(ch2[p][q], t, KindOf(p, i), ph2[p] # "out" /\ p \notin mk[q])
             /\ RespWay(ch2[p][q], t, ph2[p] = "done" /\ q = i /\ p \notin rs2[q])
  <2>1. /\ MarkWay(ch[p][q], t, KindOf(p, i), ph[p] # "out" /\ p \notin mk[q])
        /\ RespWay(ch[p][q], t, ph[p] = "done" /\ q = i /\ p \notin rs[q])
        /\ q \in Agent /\ p # q /\ ch[p][q] \in Seq(M)
    <3>1. q \in Agent /\ p # q
      BY DEF Others
    <3>2. ch[p][q] \in Seq(M)
      BY <3>1 DEF Channels
    <3> QED BY <3>1, <3>2 DEF Round
  <2>2. ph2[p] # "out" /\ p \notin mk[q] <=> ph[p] # "out" /\ p \notin mk[q]
    BY <1>3
  <2>3. CASE p = b /\ q = i
    <3>1. ch2[p][q] = Tail(ch[p][q]) /\ p \in rs2[q]
      BY <2>3
    <3>2. RespWay(ch2[p][q], t, FALSE)
      BY <1>1, <2>3, <3>1 DEF RespWay
    <3>3. MarkWay(ch2[p][q], t, KindOf(p, i), ph[p] # "out" /\ p \notin mk[q])
      BY <2>1, <2>3, <3>1, CellRead
    <3> QED BY <2>2, <3>1, <3>2, <3>3 DEF MarkWay, RespWay
  <2>4. CASE ~(p = b /\ q = i)
    <3>1. ch2[p][q] = ch[p][q] /\ (q = i => (p \in rs2[q] <=> p \in rs[q]))
      BY <2>1, <2>4
    <3>2. q = i => ph2[p] = ph[p]
      BY <1>3, <2>1
    <3> QED BY <2>1, <2>2, <3>1, <3>2 DEF MarkWay, RespWay
  <2> QED BY <2>3, <2>4
<1>6. ph2[i] # "out"
    BY <1>1
<1> QED BY <1>4, <1>5, <1>6 DEF Round, AllHeard

=============================================================================
