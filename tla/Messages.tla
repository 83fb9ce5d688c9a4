-------------------------------- MODULE Messages --------------------------------
(***************************************************************************)
(* The messages of agents (ma_msg.c) and their way between hosts of either  *)
(* byte order.  An agent makes a message with the calls that the senders of *)
(* its type make, sends it, and the receiver reads it, extends it, or makes *)
(* a new one of it.  `said` is not in the code: what the calls were given.  *)
(***************************************************************************)
EXTENDS MsgSchema, FiniteSetsExt

CONSTANTS Ints,           \* numbers that are put into messages
          HeurSubtypes,   \* of 1 .. 16 and, the responses, multiples of 256
          Hosts,          \* byte orders of the two hosts
          MaxCalls, MaxHops

Agent == {0, 1}

VARIABLES host,           \* the byte order of every agent's host
          at,             \* the agent that has the message
          msg, said,
          wire,           \* the buffer it came in
          counter,        \* snapshot_token_counter
          calls, hops

msgVars == <<host, at, msg, said, wire, counter, calls, hops>>

-----------------------------------------------------------------------------
(* The schemas *)

Int32(names) == [i \in DOMAIN names |-> Field(names[i], "INT32")]
schema_pot_submatrix == Int32(<<"cols", "rows">>) \o <<Arr("coef", "INT32")>>
schema_pot_agent ==
    <<Msg("pub_op", schema_pot_submatrix), Msg("priv_op", schema_pot_submatrix),
      Msg("maxpot", schema_pot_submatrix), Arr("op_cost", "INT32"), Arr("goal", "INT32"),
      Arr("coef", "INT32")>>
schema_pot ==
    <<Arr("fact_range", "INT32")>>
      \o Int32(<<"lp_private_var_size", "fact_range_lcm", "lp_var_size", "lp_var_offset">>)
      \o <<Arr("pot", "INT64"), Field("init_heur", "INT64"), Msg("agent", schema_pot_agent)>>
schema_op == Int32(<<"op_id", "cost", "owner", "value">>) \o <<Arr("name", "INT8")>>
schema_dtg_req == Int32(<<"var", "val_from", "val_to">>) \o <<Arr("reachable", "INT32")>>
schema_msg ==
    Int32(<<"type", "agent_id", "terminate_agent_id">>)
      \o <<Arr("state_buf", "INT8"), Arr("state_private_id", "INT32")>>
      \o Int32(<<"state_id", "state_cost", "state_heur", "initiator_agent_id">>)
      \o <<Field("snapshot_token", "INT64")>>
      \o Int32(<<"snapshot_type", "snapshot_ack", "goal_op_id", "min_cut_cost", "heur_token">>)
      \o <<Arr("heur_requested_agent", "INT32")>>
      \o Int32(<<"heur_cost">>)
      \o <<Msg("dtg_req", schema_dtg_req), Field("search_res", "INT32"),
           MsgArr("op", schema_op), Msg("pot", schema_pot)>>

\* The masks M_*, as the numbers of their bits from 1 on.
Enumerated(names) == [n \in ToSet(names) |-> SelectInSeq(names, LAMBDA m : m = n)]
M_submatrix == Enumerated(<<"cols", "rows", "coef">>)
M_pot_agent == Enumerated(<<"pub_op", "priv_op", "maxpot", "op_cost", "goal", "coef">>)
M_pot == Enumerated(<<"fact_range", "lp_private_var_size", "fact_range_lcm", "lp_var_size",
                      "lp_var_offset", "pot", "init_heur", "agent">>)
M_op == Enumerated(<<"op_id", "cost", "owner", "value", "name">>)
M_dtg_req == Enumerated(<<"var", "val_from", "val_to", "reachable">>)
M_msg == Enumerated(<<"type", "agent_id", "terminate_agent_id", "state_buf", "state_private_id",
                      "state_id", "state_cost", "state_heur", "initiator_agent_id",
                      "snapshot_token", "snapshot_type", "snapshot_ack", "goal_op_id",
                      "min_cut_cost", "heur_token", "heur_requested_agent", "heur_cost",
                      "dtg_req", "search_res", "op", "pot">>)

Types == [TERMINATE |-> 0, TRACE_PATH |-> 1, PUBLIC_STATE |-> 2, SNAPSHOT |-> 3, HEUR |-> 4]
Subtypes ==
    [TERMINATE |-> {0, 1, 2, 3}, TRACE_PATH |-> {0}, PUBLIC_STATE |-> {0}, SNAPSHOT |-> {0},
     HEUR |-> HeurSubtypes]

-----------------------------------------------------------------------------
(* Access to structures *)

Marked(s, M, member) == [s EXCEPT !.header = @ \cup {M[member]}]
\* SET_VAL, MEMCPY_ARR and CPY_ARR
Set(s, M, member, val) == [Marked(s, M, member) EXCEPT ![member] = val]
SetInt(s, M, member, val) == Set(s, M, member, Number(val, 4))
SetInts(s, M, member, vals) == Set(s, M, member, [i \in DOMAIN vals |-> Number(vals[i], 4)])
\* ADD_VAL
AddInt(s, M, member, val) == [Marked(s, M, member) EXCEPT ![member] = Append(@, Number(val, 4))]

\* (subtype << 4) | type, and back.
TypeNumber(type, subtype) == Number(subtype * 16 + Types[type], 4)
ValueOf(number) == FoldRight(LAMBDA byte, n : n * 256 + byte, number, 0)
SubType(m) == ValueOf(m.type) \div 16
HeurType(m) ==
    CASE ValueOf(m.type) % 16 # Types.HEUR -> "none"
      [] SubType(m) % 256 = SubType(m) -> "request"
      [] SubType(m) % 256 = 0 -> "update"
      [] OTHER -> "none"

\* planMAMsgInit
Started(type, subtype, a) ==
    SetInt(Set(Zero(schema_msg), M_msg, "type", TypeNumber(type, subtype)), M_msg, "agent_id", a)
Token(n, a) == Number(a, 4) \o Number(n, 4)
Init(type, subtype, a) ==
    LET m == Started(type, subtype, a)
    IN CASE type = "TRACE_PATH" -> SetInt(m, M_msg, "initiator_agent_id", a)
         [] type = "SNAPSHOT" /\ subtype = 0 -> Set(m, M_msg, "snapshot_token", Token(counter, a))
         [] OTHER -> m

\* planMAMsgTracePathAppendPath: the last operator first.
OpOf(o) ==
    LET numbers == SetInt(SetInt(SetInt(Zero(schema_op), M_op, "op_id", o.global_id),
                                 M_op, "cost", o.cost), M_op, "owner", o.owner)
    IN  Set(numbers, M_op, "name", <<<<o.name>>, <<0>>>>)
AppendPath(m, path) ==
    IF path = <<>> THEN m
    ELSE [Marked(m, M_msg, "op") EXCEPT !.op = @ \o Reverse([i \in DOMAIN path |-> OpOf(path[i])])]
\* planMAMsgTracePathExtractPath
ExtractPath(m) ==
    FoldLeft(LAMBDA path, op :
                 <<[name |-> ValueOf(op.name[1]), cost |-> ValueOf(op.cost),
                    global_id |-> ValueOf(op.op_id), owner |-> ValueOf(op.owner)]>> \o path,
             <<>>, m.op)

\* planMAMsgSetDTGReq, planMAMsgAddDTGReqReachable
SetDTGReq(m, var, from, to) ==
    [Marked(m, M_msg, "dtg_req") EXCEPT
        !.dtg_req = SetInt(SetInt(SetInt(@, M_dtg_req, "var", var), M_dtg_req, "val_from", from),
                           M_dtg_req, "val_to", to)]
AddReachable(m, val) ==
    [Marked(m, M_msg, "dtg_req") EXCEPT !.dtg_req = AddInt(@, M_dtg_req, "reachable", val)]

\* The functions of the potential heuristic.  A matrix is a sequence of rows.
Pot(m, pot) == [Marked(m, M_msg, "pot") EXCEPT !.pot = pot]
SetPotInt(m, member, val) == Pot(m, SetInt(m.pot, M_pot, member, val))
AddFactRange(m, range) ==
    Pot(m, IF Contains(m.pot.fact_range, Number(range, 4)) THEN Marked(m.pot, M_pot, "fact_range")
           ELSE AddInt(m.pot, M_pot, "fact_range", range))
Submatrix(matrix, cols) ==
    LET sizes == SetInt(SetInt(Zero(schema_pot_submatrix), M_submatrix, "cols", cols),
                        M_submatrix, "rows", Len(matrix))
    IN IF cols * Len(matrix) = 0 THEN sizes
       ELSE SetInts(sizes, M_submatrix, "coef", FlattenSeq(matrix))
SetPotAgent(m, pa) ==
    LET ops == Set(Set(Set(SetInts(m.pot.agent, M_pot_agent, "op_cost", pa.op_cost),
                           M_pot_agent, "pub_op", Submatrix(pa.pub_op, 1)),
                       M_pot_agent, "priv_op", Submatrix(pa.priv_op, Len(pa.goal))),
                   M_pot_agent, "maxpot", Submatrix(<<>>, 0))
        all == IF pa.goal = <<>> THEN ops
               ELSE SetInts(SetInts(ops, M_pot_agent, "goal", pa.goal), M_pot_agent, "coef", pa.goal)
    IN Pot(m, Set(m.pot, M_pot, "agent", all))

\* pack754: a number is zero, or a sign, an exponent and the set of the ones
\* among the 52 binary places of its significand.
Bytes(bits) == [i \in 1 .. 8 |-> MapThenSumSet(LAMBDA b : 2^b, {b \in 0 .. 7 : 8 * (i - 1) + b \in bits})]
BitsOf(bytes) == {b \in 0 .. 63 : (bytes[b \div 8 + 1] \div 2^(b % 8)) % 2 = 1}
Pack754(f) ==
    Bytes(IF f.zero THEN {}
          ELSE f.places \cup {52 + b : b \in {c \in 0 .. 10 : ((f.exp + 1023) \div 2^c) % 2 = 1}}
                 \cup (IF f.negative THEN {63} ELSE {}))
Unpack754(bytes) ==
    LET bits == BitsOf(bytes)
    IN IF bits = {} THEN [zero |-> TRUE]
       ELSE [zero |-> FALSE, negative |-> 63 \in bits, places |-> bits \cap 0 .. 51,
             exp |-> MapThenSumSet(LAMBDA b : 2^(b - 52), bits \cap 52 .. 62) - 1023]
Doubles == {[zero |-> TRUE], [zero |-> FALSE, negative |-> TRUE, exp |-> -1, places |-> {51}],
            [zero |-> FALSE, negative |-> FALSE, exp |-> 40, places |-> {0, 13}]}

-----------------------------------------------------------------------------
(* The calls that senders make; what they are given is noted down.          *)

IntCalls ==
    [TERMINATE |-> {"terminate_agent_id", "search_res"}, TRACE_PATH |-> {"state_id"},
     PUBLIC_STATE |-> {"state_id", "state_cost", "state_heur"},
     SNAPSHOT |-> {"snapshot_type", "snapshot_ack", "state_cost"},
     HEUR |-> {"goal_op_id", "min_cut_cost", "heur_token", "heur_cost"}]
PathOp(name, cost, owner) ==
    [name |-> name, global_id |-> name, cost |-> cost, owner |-> owner]
Paths == {<<PathOp(1, 256, 0)>>, <<PathOp(2, 0, 1), PathOp(3, 1, 0)>>}
PotAgents == {[op_cost |-> <<2, 3>>, pub_op |-> <<<<1>>, <<-1>>>>, priv_op |-> <<<<258, 0>>>>,
               goal |-> <<1, 0>>],
              [op_cost |-> <<>>, pub_op |-> <<>>, priv_op |-> <<>>, goal |-> <<>>]}

Earlier(name, none) == IF name \in DOMAIN said THEN said[name] ELSE none
Say(name, val) == said' = (name :> val) @@ said
Is(type) == ValueOf(msg.type) % 16 = Types[type]

Call ==
    /\ msg # <<>> /\ calls < MaxCalls
    /\ \/ \E type \in DOMAIN Types : Is(type) /\
            \E name \in IntCalls[type], val \in Ints :
                msg' = SetInt(msg, M_msg, name, val) /\ Say(name, val)
       \/ \E path \in Paths :
            /\ Is("TRACE_PATH") \/ Is("TERMINATE")
            /\ msg' = AppendPath(msg, path)
            /\ Say("path", path \o Earlier("path", <<>>))
       \/ \E ids \in {<<0, 258>>} :
            /\ Is("PUBLIC_STATE") \/ Is("SNAPSHOT") \/ Is("HEUR")
            /\ msg' = SetInts(Set(msg, M_msg, "state_buf", <<<<7>>, <<0>>>>), M_msg, "state_private_id", ids)
            /\ Say("ids", ids)
       \/ \E val \in Ints :
            /\ Is("HEUR")
            /\ \/ msg' = AddInt(msg, M_msg, "heur_requested_agent", val)
                  /\ Say("requested", Append(Earlier("requested", <<>>), val))
               \/ msg' = AddReachable(msg, val)
                  /\ Say("reachable", Append(Earlier("reachable", <<>>), val))
               \/ msg' = SetDTGReq(msg, 3, 0, val)
                  /\ Say("val_to", val)
               \/ msg' = AddFactRange(msg, val) /\ Say("ranges", Earlier("ranges", {}) \cup {val})
               \/ msg' = SetPotInt(msg, "lp_var_size", val) /\ Say("lp_var_size", val)
       \/ \E pa \in PotAgents : /\ Is("HEUR") /\ "agent" \notin DOMAIN said
                              /\ msg' = SetPotAgent(msg, pa) /\ Say("agent", pa)
       \/ \E f \in Doubles :
            /\ Is("HEUR")
            /\ \/ msg' = Pot(msg, Set(msg.pot, M_pot, "init_heur", Pack754(f))) /\ Say("init_heur", f)
               \/ msg' = Pot(msg, Set(msg.pot, M_pot, "pot", <<Pack754(f), Pack754(f)>>)) /\ Say("pot", f)
    /\ calls' = calls + 1
    /\ UNCHANGED <<host, at, wire, counter, hops>>

New ==
    /\ msg = <<>>
    /\ \E type \in DOMAIN Types : \E subtype \in Subtypes[type] :
         /\ msg' = Init(type, subtype, at)
         /\ said' = [kind |-> <<type, subtype>>, sender |-> at, token |-> <<counter, at>>]
         /\ counter' = IF type = "SNAPSHOT" THEN counter + 1 ELSE counter
    /\ UNCHANGED <<host, at, wire, calls, hops>>

\* planMACommSendToNode, planMACommRecv
Send ==
    /\ msg # <<>> /\ hops < MaxHops
    /\ at' = 1 - at
    /\ wire' = Encode(host[at], msg, schema_msg)
    /\ msg' = Decode(host[at'], wire', schema_msg).msg
    /\ hops' = hops + 1
    /\ UNCHANGED <<host, said, counter, calls>>

\* planMAMsgSnapshotNewMark, planMAMsgSnapshotNewResponse
AnswerSnapshot ==
    /\ msg # <<>> /\ hops > 0 /\ said.kind = <<"SNAPSHOT", 0>>
    /\ \E subtype \in {1, 2} :
         /\ msg' = Set(Set(Started("SNAPSHOT", subtype, at), M_msg, "snapshot_token", msg.snapshot_token),
                       M_msg, "snapshot_type", msg.snapshot_type)
         /\ said' = [kind |-> <<"SNAPSHOT", subtype>>, sender |-> at, token |-> said.token,
                     snapshot_type |-> Earlier("snapshot_type", 0)]
    /\ UNCHANGED <<host, at, wire, counter, calls, hops>>

\* sendRequest of heur_ma_dtg.c: the request goes on with what is reachable
\* already, and with one more agent.
ForwardRequest ==
    /\ msg # <<>> /\ hops > 0 /\ calls < MaxCalls
    /\ said.kind[1] = "HEUR" /\ "reachable" \in DOMAIN said
    /\ LET copied == Set([Started("HEUR", 10, at) EXCEPT !.dtg_req =
                            Set(@, M_dtg_req, "reachable", msg.dtg_req.reachable)],
                         M_msg, "heur_requested_agent", msg.heur_requested_agent)
           asked == AddInt(copied, M_msg, "heur_requested_agent", at)
       IN msg' = SetDTGReq(asked, 3, 0, 1)
    /\ said' = [kind |-> <<"HEUR", 10>>, sender |-> at, reachable |-> said.reachable, val_to |-> 1,
                requested |-> Append(Earlier("requested", <<>>), at)]
    /\ calls' = calls + 1
    /\ UNCHANGED <<host, at, wire, counter, hops>>

MessagesInit ==
    /\ host \in Hosts
    /\ at = 0 /\ msg = <<>> /\ said = <<>> /\ wire = <<>>
    /\ counter = 0 /\ calls = 0 /\ hops = 0
MessagesNext == Call \/ New \/ Send \/ AnswerSnapshot \/ ForwardRequest
MessagesSpec == MessagesInit /\ [][MessagesNext]_msgVars

-----------------------------------------------------------------------------
(* Properties *)

IntsOf(vals) == [i \in DOMAIN vals |-> Number(vals[i], 4)]
MatrixOf(sub) == IF sub.cols = Number(0, 4) THEN <<>> ELSE sub.coef

\* planMsgEncode, planMsgDecode and the functions of ma_msg.c: whatever the
\* byte orders of the agents on its way, a message says what it was made to
\* say, and nothing else.
SaysWhatWasSaid ==
    msg # <<>> =>
        LET Given(name, val) == name \in DOMAIN said => val = said[name]
            Same(name, val, Rep(_)) == name \in DOMAIN said => val = Rep(said[name])
            pa == msg.pot.agent
        IN /\ msg.type = TypeNumber(said.kind[1], said.kind[2])
           /\ HeurType(msg) = (CASE said.kind[1] # "HEUR" -> "none"
                                 [] said.kind[2] >= 256 -> "update" [] OTHER -> "request")
           /\ msg.agent_id = Number(said.sender, 4)
           /\ said.kind[1] = "SNAPSHOT" => msg.snapshot_token = Token(said.token[1], said.token[2])
           /\ \A name \in DOMAIN said \cap UNION {IntCalls[t] : t \in DOMAIN IntCalls} :
                msg[name] = Number(said[name], 4)
           /\ Given("path", ExtractPath(msg))
           /\ Same("ids", msg.state_private_id, IntsOf)
           /\ Same("requested", msg.heur_requested_agent, IntsOf)
           /\ Same("reachable", msg.dtg_req.reachable, IntsOf)
           /\ "val_to" \in DOMAIN said => msg.dtg_req.val_to = Number(said.val_to, 4)
           /\ "ranges" \in DOMAIN said => /\ ToSet(msg.pot.fact_range) = {Number(r, 4) : r \in said.ranges}
                                          /\ IsInjective(msg.pot.fact_range)
           /\ "lp_var_size" \in DOMAIN said => msg.pot.lp_var_size = Number(said.lp_var_size, 4)
           /\ Given("init_heur", Unpack754(msg.pot.init_heur))
           /\ "pot" \in DOMAIN said => \A i \in DOMAIN msg.pot.pot : Unpack754(msg.pot.pot[i]) = said.pot
           /\ "agent" \in DOMAIN said =>
                /\ pa.op_cost = IntsOf(said.agent.op_cost) /\ pa.goal = IntsOf(said.agent.goal)
                /\ MatrixOf(pa.pub_op) = IntsOf(FlattenSeq(said.agent.pub_op))
                /\ MatrixOf(pa.priv_op) = IntsOf(FlattenSeq(said.agent.priv_op))
           /\ Len(Encode(host[at], msg, schema_msg)) = BufSize(msg, schema_msg)
=============================================================================
