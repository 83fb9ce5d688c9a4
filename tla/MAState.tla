-------------------------------- MODULE MAState --------------------------------
(***************************************************************************)
(* The identity of states among agents that hide their private variables   *)
(* from each other (ma_state.c, ma_private_state.c, state_pool.c).  Every   *)
(* agent numbers the states it meets, the private parts of its own, and the *)
(* combinations of the numbers of the others.  A state travels as its       *)
(* packed public part and one number per agent.  `seen` is not in the code: *)
(* the state of the whole problem every number of a pool was given to.      *)
(***************************************************************************)
EXTENDS StatePacker, SequencesExt

CONSTANTS N, Tasks, MaxStates, MaxMsgs

Agent == 0 .. N - 1
Everyone == N                \* the owner of a public variable

VARIABLES task,
          packer,            \* the layout of an agent's states
          pool,              \* its packed states, by number
          privs,             \* priv_data: their private parts, by number
          others,            \* private_state: numbers of the others' parts, by number
          buf,               \* ma_state->buf
          msgs,              \* states that were sent
          seen,
          got                \* the last state an agent read for a heuristic

vars == <<task, packer, pool, privs, others, buf, msgs, seen, got>>

-----------------------------------------------------------------------------
(* The problem of an agent: task.vars and task.ops speak of all variables.  *)

\* Without privacy every agent has all variables, packed as public ones.
\* Variables keep their numbers, of which only the order matters.
Known(a) == {v \in DOMAIN task.vars : task.privacy => task.vars[v].owner \in {a, Everyone}}
PrivacyVar == Len(task.vars) + 1
LocalVars(a) ==
    [v \in Known(a) |-> [range |-> task.vars[v].range, ma |-> FALSE,
                         private |-> task.privacy /\ task.vars[v].owner = a]]
        @@ [v \in IF task.privacy THEN {PrivacyVar} ELSE {} |->
              [range |-> 0, private |-> FALSE, ma |-> TRUE]]

Packed(a, part) == PackPart(packer[a], part)

-----------------------------------------------------------------------------
(* Tables without duplicates: the number of an element is its index - 1.    *)

With(table, x) == IF Contains(table, x) THEN table ELSE Append(table, x)
Number(table, x) == SelectInSeq(table, LAMBDA y : y = x) - 1
At(table, number) == table[number + 1]

\* privID: there is nothing to number without private variables.
PrivWith(a, state) == IF packer[a].privSize = 0 THEN privs[a]
                      ELSE With(privs[a], ExtractPrivatePart(packer[a], state))
PrivNumber(a, state) ==
    IF packer[a].privSize = 0 THEN 0
    ELSE Number(PrivWith(a, state), ExtractPrivatePart(packer[a], state))

Init ==
    /\ task \in Tasks
    /\ packer = [a \in Agent |-> Packer(LocalVars(a))]
    /\ LET zero(a) == [v \in DOMAIN LocalVars(a) |-> 0]
           first(a) == Pack(packer[a], zero(a), Zeros(packer[a]))
       IN /\ pool = [a \in Agent |-> <<first(a)>>]
          /\ privs = [a \in Agent |-> IF packer[a].privSize = 0 THEN <<>>
                                      ELSE <<ExtractPrivatePart(packer[a], first(a))>>]
    /\ others = [a \in Agent |-> <<[b \in Agent \ {a} |-> 0]>>]
    /\ buf = [a \in Agent |-> Zeros(packer[a])]
    /\ msgs = {}
    /\ seen = [a \in Agent |-> {<<0, [v \in DOMAIN task.vars |-> 0]>>}]
    /\ got = [a \in Agent |-> <<>>]

\* insertIntoHTable: the number of the state, a new one if it is new.
InsertPacked(a, state, truth) ==
    /\ pool' = [pool EXCEPT ![a] = With(@, state)]
    /\ Len(pool'[a]) <= MaxStates
    /\ seen' = [seen EXCEPT ![a] = @ \cup {<<Number(pool'[a], state), truth>>}]

\* applyWithCondEff: conditional effects are judged in the state before, and
\* overwrite each other in their order.
Applied(a, op, state) ==
    FoldLeft(LAMBDA b, c : IF IsSubset(Packed(a, c.pre), state)
                           THEN Overwrite(Packed(a, c.eff), b) ELSE b,
             Overwrite(Packed(a, op.eff), state), op.cond)

\* The same in the state of the whole problem.
Agrees(part, truth) == \A v \in DOMAIN part : truth[v] = part[v]
TrulyApplied(op, truth) ==
    FoldLeft(LAMBDA t, c : IF Agrees(c.pre, truth) THEN c.eff @@ t ELSE t,
             op.eff @@ truth, op.cond)

Apply(a, op, entry) ==
    LET state == At(pool[a], entry[1])
    IN /\ op.owner = a
       /\ IsSubset(Packed(a, op.pre), state)
       /\ InsertPacked(a, Applied(a, op, state), TrulyApplied(op, entry[2]))
       /\ UNCHANGED <<task, packer, privs, others, buf, msgs, got>>

-----------------------------------------------------------------------------
(* States in messages                                                       *)

\* setPrivacyMAMsg, or the whole packed state.
Message(a, state, truth) ==
    LET ids == At(others[a], GetMAPrivacyVar(packer[a], state)) @@ (a :> PrivNumber(a, state))
    IN [from |-> a, truth |-> truth,
        state |-> IF task.privacy THEN ExtractPubPart(packer[a], state) ELSE state,
        ids |-> IF task.privacy THEN ids ELSE <<>>]
SetMAMsg(a, state, truth) ==
    /\ msgs' = msgs \cup {Message(a, state, truth)}
    /\ Cardinality(msgs') <= MaxMsgs
    /\ privs' = [privs EXCEPT ![a] = PrivWith(a, state)]

\* planMAStateSetMAMsg, for the other agents' searches.
Publish(a, entry) ==
    /\ SetMAMsg(a, At(pool[a], entry[1]), entry[2])
    /\ UNCHANGED <<task, packer, pool, others, buf, seen, got>>

\* planMAStateSetMAMsg2, for the other agents' heuristics: of an unpacked
\* state, which is packed into the buffer.
Ask(a, entry) ==
    LET state == Pack(packer[a], Unpack(packer[a], At(pool[a], entry[1])), buf[a])
    IN /\ buf' = [buf EXCEPT ![a] = state]
       /\ SetMAMsg(a, state, entry[2])
       /\ UNCHANGED <<task, packer, pool, others, seen, got>>

\* recoverPrivacyStateBuf: the private part by its number, the public part
\* from the message, on top of what the buffer held.
Parts(a, m) ==
    LET private == IF privs[a] = <<>> THEN buf[a]
                   ELSE SetPrivatePart(packer[a], At(privs[a], m.ids[a]), buf[a])
    IN SetPubPart(packer[a], m.state, private)
IdsOfOthers(a, m) == [b \in Agent \ {a} |-> m.ids[b]]

\* planMAStateInsertFromMAMsg
Insert(a, m) ==
    LET table == With(others[a], IdsOfOthers(a, m))
        state == SetMAPrivacyVar(packer[a], BitsOf(Number(table, IdsOfOthers(a, m))), Parts(a, m))
    IN /\ a # m.from
       /\ IF task.privacy
          THEN /\ others' = [others EXCEPT ![a] = table]
               /\ buf' = [buf EXCEPT ![a] = state]
               /\ InsertPacked(a, state, m.truth)
          ELSE InsertPacked(a, m.state, m.truth) /\ UNCHANGED <<others, buf>>
       /\ UNCHANGED <<task, packer, privs, msgs, got>>

\* planMAStateGetFromMAMsg: the privacy variable is set to -1.
GetState(a, m) ==
    LET state == SetMAPrivacyVar(packer[a], Bit, Parts(a, m))
    IN /\ a # m.from
       /\ buf' = IF task.privacy THEN [buf EXCEPT ![a] = state] ELSE buf
       /\ got' = [got EXCEPT ![a] = <<Unpack(packer[a], IF task.privacy THEN state ELSE m.state),
                                      m.truth>>]
       /\ UNCHANGED <<task, packer, pool, privs, others, msgs, seen>>

Next == \/ \E a \in Agent : \E entry \in seen[a] :
             \/ \E i \in DOMAIN task.ops : Apply(a, task.ops[i], entry)
             \/ Publish(a, entry) \/ Ask(a, entry)
        \/ \E m \in msgs, a \in Agent : Insert(a, m) \/ GetState(a, m)
Spec == Init /\ [][Next]_vars

-----------------------------------------------------------------------------
(* Properties *)

\* What an agent reads out of a packed state is its part of the state.
TrueView(a, state, truth) == \A v \in Known(a) : state[v] = truth[v]

\* planStatePoolInsert, planMAStateInsertFromMAMsg: however a state came about
\* or came in, an agent has one number for it, and it has a number of its own;
\* what the number stands for is the state as far as the agent knows it.
OneNumberPerState ==
    \A a \in Agent :
        /\ \A x, y \in seen[a] : x[1] = y[1] <=> x[2] = y[2]
        /\ \A x \in seen[a] : TrueView(a, Unpack(packer[a], At(pool[a], x[1])), x[2])
        /\ got[a] # <<>> => TrueView(a, got[a][1], got[a][2])
=============================================================================
