------------------------------ MODULE StatePacker ------------------------------
(***************************************************************************)
(* States packed into words (state_packer.c, part_state.c).  A word is the  *)
(* set of its one bits, so that & is \cap, | is \cup and ~ is a difference. *)
(* The variables are numbered, each a record [range, private, ma]: ma marks *)
(* the variable that stands for the private parts of the other agents.      *)
(***************************************************************************)
EXTENDS Integers, FiniteSetsExt, TLC

CONSTANT WordBits              \* PLAN_PACKER_WORD_BITS

Bit == 0 .. WordBits - 1
BitsOf(val) == {b \in Bit : (val \div 2^b) % 2 = 1}
ValOf(bits) == MapThenSumSet(LAMBDA b : 2^b, bits)

\* Every value of the range has a pattern of its own, and takes one bit at least.
BitsNeeded(range) == Min({n \in 1 .. WordBits : 2^n >= range})

Mask(field) == field.shift .. field.shift + field.bits - 1
Shifted(field, val) == {b + field.shift : b \in BitsOf(val)} \cap Mask(field)
Get(field, buf) == ValOf({b - field.shift : b \in buf[field.pos] \cap Mask(field)})

-----------------------------------------------------------------------------
(* The layout: one word after the other is filled with the widest variable  *)
(* that fits, public variables first, then private ones.                    *)

Private(vars) == {v \in DOMAIN vars : vars[v].private /\ ~ vars[v].ma}
Public(vars) == {v \in DOMAIN vars : ~ vars[v].private /\ ~ vars[v].ma}
MAVars(vars) == {v \in DOMAIN vars : vars[v].ma}

\* sortedVarsNext: of the public variables while there are any.
Fitting(vars, placed, filled) ==
    LET left == Public(vars) \ placed
        pool == IF left # {} THEN left ELSE Private(vars) \ placed
    IN {v \in pool : BitsNeeded(vars[v].range) + filled <= WordBits}
Widest(vars, those) ==
    CHOOSE v \in those : \A w \in those :
        LET bv == BitsNeeded(vars[v].range)
            bw == BitsNeeded(vars[w].range)
        IN bv > bw \/ (bv = bw /\ v <= w)

\* The next variable gets the highest free bits of the word, or the next word begins.
Placed(vars, s) ==
    LET fits == Fitting(vars, DOMAIN s.field, s.filled)
        v == Widest(vars, fits)
        bits == BitsNeeded(vars[v].range)
        next == [pos |-> s.word, shift |-> WordBits - s.filled - bits, bits |-> bits]
    IN IF DOMAIN s.field = Public(vars) \cup Private(vars) THEN s
       ELSE IF fits = {} THEN [s EXCEPT !.word = @ + 1, !.filled = 0]
       ELSE [s EXCEPT !.field = @ @@ (v :> next), !.filled = @ + bits]

Layout(vars) ==
    LET after[i \in 0 .. 2 * Cardinality(DOMAIN vars)] ==
            IF i = 0 THEN [field |-> <<>>, word |-> 0, filled |-> 0]
            ELSE Placed(vars, after[i - 1])
        plain == after[2 * Cardinality(DOMAIN vars)].field
        last == IF DOMAIN plain = {} THEN -1 ELSE after[2 * Cardinality(DOMAIN vars)].word
        own == [pos |-> last + 1, shift |-> 0, bits |-> WordBits]
    IN plain @@ [v \in MAVars(vars) |-> own]

\* planStatePackerNew, with setUpPubPart and setUpPrivatePart.
Packer(vars) ==
    LET field == Layout(vars)
        Words(those) == {field[v].pos : v \in those}
        Masks(those, word) == UNION {Mask(field[v]) : v \in {u \in those : field[u].pos = word}}
        pubLast == Max(Words(Public(vars)) \cup {0})
        privWords == Words(Private(vars))
        privFirst == IF privWords = {} THEN 0 ELSE Min(privWords)
    IN [field |-> field,
        size |-> Max(Words(DOMAIN vars) \cup {0}) + 1,
        pubLast |-> pubLast,
        pubMask |-> Masks(Public(vars), pubLast),
        privFirst |-> privFirst,
        privSize |-> IF privWords = {} THEN 0 ELSE Max(privWords) - privFirst + 1,
        privMask |-> Masks(Private(vars), privFirst)]

Zeros(p) == [w \in 0 .. p.size - 1 |-> {}]

-----------------------------------------------------------------------------
(* Packing.  A partial state, a function of some variables, is packed into  *)
(* its values and the mask of what it says.                                 *)

PackPart(p, part) ==
    LET In(w) == {v \in DOMAIN part : p.field[v].pos = w}
    IN [val |-> [w \in 0 .. p.size - 1 |-> UNION {Shifted(p.field[v], part[v]) : v \in In(w)}],
        mask |-> [w \in 0 .. p.size - 1 |-> UNION {Mask(p.field[v]) : v \in In(w)}]]

\* bitApplyWithMask: the values where the mask is set, the rest as it was.
Overwrite(packed, buf) ==
    [w \in DOMAIN buf |-> (buf[w] \ packed.mask[w]) \cup packed.val[w]]
IsSubset(packed, buf) == \A w \in DOMAIN buf : buf[w] \cap packed.mask[w] = packed.val[w]

Pack(p, state, buf) == Overwrite(PackPart(p, state), buf)
Unpack(p, buf) == [v \in DOMAIN p.field |-> Get(p.field[v], buf)]

-----------------------------------------------------------------------------
(* The public and the private part of a packed state                        *)

ExtractPubPart(p, buf) ==
    [w \in 0 .. p.pubLast |-> IF w = p.pubLast THEN buf[w] \cap p.pubMask ELSE buf[w]]
\* Mutant: the last word of the public part is copied as a whole.
SetPubWords(p, pub, buf) == [w \in DOMAIN buf |-> IF w <= p.pubLast THEN pub[w] ELSE buf[w]]
SetPubPart(p, pub, buf) ==
    [w \in DOMAIN buf |-> CASE w < p.pubLast -> pub[w]
                            [] w = p.pubLast -> (buf[w] \ p.pubMask) \cup pub[w]
                            [] OTHER -> buf[w]]

ExtractPrivatePart(p, buf) ==
    [w \in 0 .. p.privSize - 1 |-> IF w = 0 THEN buf[p.privFirst] \cap p.privMask
                                   ELSE buf[p.privFirst + w]]
SetPrivatePart(p, priv, buf) ==
    [w \in DOMAIN buf |->
        CASE w = p.privFirst -> (buf[w] \ p.privMask) \cup priv[0]
          [] w \in p.privFirst + 1 .. p.privFirst + p.privSize - 1 -> priv[w - p.privFirst]
          [] OTHER -> buf[w]]

\* The whole last word; -1 is all ones.
SetMAPrivacyVar(p, bits, buf) == [buf EXCEPT ![p.size - 1] = bits]
GetMAPrivacyVar(p, buf) == ValOf(buf[p.size - 1])
=============================================================================
