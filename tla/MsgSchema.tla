------------------------------- MODULE MsgSchema -------------------------------
(***************************************************************************)
(* How structures become buffers (msg_schema.c).  A schema is a sequence of *)
(* fields [name, type, arr, sub]; a structure is a function of the names,   *)
(* and of "header", the set of the numbers of the fields that were set.  A  *)
(* number is the sequence of its bytes, the lowest first; a host that is    *)
(* big endian keeps and writes it the other way round.                      *)
(***************************************************************************)
EXTENDS Integers, Sequences, SequencesExt, TLC

ByteSize(type) == CASE type = "INT8" -> 1 [] type = "INT32" -> 4 [] type = "INT64" -> 8

\* Two's complement.
Number(val, size) == [i \in 1 .. size |-> IF i > 4 THEN (IF val < 0 THEN 255 ELSE 0)
                                          ELSE (val \div 256^(i - 1)) % 256]

InMemory(host, number) == IF host = "little" THEN number ELSE Reverse(number)
FromMemory(host, bytes) == InMemory(host, bytes)

\* PLAN_MSG_SCHEMA_ADD, _ADD_ARR, _ADD_MSG, _ADD_MSG_ARR
Field(name, type) == [name |-> name, type |-> type, arr |-> FALSE, sub |-> <<>>]
Arr(name, type) == [name |-> name, type |-> type, arr |-> TRUE, sub |-> <<>>]
Msg(name, schema) == [name |-> name, type |-> "MSG", arr |-> FALSE, sub |-> schema]
MsgArr(name, schema) == [name |-> name, type |-> "MSG", arr |-> TRUE, sub |-> schema]

\* A structure after bzero.
RECURSIVE Zero(_)
Zero(schema) ==
    [name \in {schema[i].name : i \in DOMAIN schema} |->
        LET f == CHOOSE g \in ToSet(schema) : g.name = name
        IN CASE f.arr -> <<>>
             [] f.type = "MSG" -> Zero(f.sub)
             [] OTHER -> Number(0, ByteSize(f.type))]
        @@ [header |-> {}]

\* wHeader and wArrLen: little endian, with a bit for the host.
HeaderBytes(host, header) == <<[little |-> host = "little", header |-> header], 0, 0, 0>>
ArrLen(arr) == Number(Len(arr), 4)

-----------------------------------------------------------------------------
RECURSIVE BufSize(_, _)
BufSize(msg, schema) ==
    LET SizeOf(f) ==
            LET x == msg[f.name]
            IN CASE f.type = "MSG" /\ ~ f.arr -> BufSize(x, f.sub)
                 [] f.type = "MSG" /\ f.arr ->
                      FoldLeft(LAMBDA n, y : n + BufSize(y, f.sub), 4, x)
                 [] f.type # "MSG" /\ ~ f.arr -> ByteSize(f.type)
                 [] OTHER -> 4 + Len(x) * ByteSize(f.type)
    IN FoldLeft(LAMBDA n, i : IF i \in msg.header THEN n + SizeOf(schema[i]) ELSE n,
                4, [i \in DOMAIN schema |-> i])

RECURSIVE Encode(_, _, _)
Encode(host, msg, schema) ==
    LET Bytes(f) ==
            LET x == msg[f.name]
            IN CASE f.type = "MSG" /\ ~ f.arr -> Encode(host, x, f.sub)
                 [] f.type = "MSG" /\ f.arr ->
                      ArrLen(x) \o FlattenSeq([j \in DOMAIN x |-> Encode(host, x[j], f.sub)])
                 [] f.type # "MSG" /\ ~ f.arr -> InMemory(host, x)
                 [] OTHER -> ArrLen(x) \o FlattenSeq([j \in DOMAIN x |-> InMemory(host, x[j])])
    IN HeaderBytes(host, msg.header)
         \o FlattenSeq([i \in DOMAIN schema |-> IF i \in msg.header THEN Bytes(schema[i]) ELSE <<>>])

\* Mutant: arrays are left as they are.
ChangeEndianField(f, x) ==
    IF f.type \in {"INT32", "INT64"} /\ ~ f.arr THEN Reverse(x) ELSE x
\* convEndian and convEndianArr; what is inside of a message was converted there.
ChangeEndian(f, x) ==
    CASE f.type \notin {"INT32", "INT64"} -> x
      [] f.arr -> [j \in DOMAIN x |-> Reverse(x[j])]
      [] OTHER -> Reverse(x)

From(buf, n) == SubSeq(buf, n + 1, Len(buf))

\* The structure, and what is left of the buffer.
RECURSIVE Decode(_, _, _)
Decode(host, buf, schema) ==
    LET head == Head(buf)
        One(type, b) == IF type.type = "MSG" THEN Decode(host, b, type.sub)
                        ELSE LET n == ByteSize(type.type)
                             IN [msg |-> FromMemory(host, SubSeq(b, 1, n)), rest |-> From(b, n)]
        More(f, done, n) == LET one == One(f, done.rest)
                            IN [msg |-> Append(done.msg, one.msg), rest |-> one.rest]
        Many(f, b) == FoldLeft(LAMBDA done, n : More(f, done, n), [msg |-> <<>>, rest |-> From(b, 4)],
                               [j \in 1 .. b[1] |-> j])
        Read(f, b) == IF f.arr THEN Many(f, b) ELSE One(f, b)
        Turned(f, x) == IF head.little = (host = "little") THEN x ELSE ChangeEndian(f, x)
        Next(done, i) ==
            LET f == schema[i]
                read == Read(f, done.rest)
            IN IF i \notin head.header THEN done
               ELSE [msg |-> [done.msg EXCEPT ![f.name] = Turned(f, read.msg)], rest |-> read.rest]
    IN FoldLeft(Next, [msg |-> [Zero(schema) EXCEPT !.header = head.header], rest |-> From(buf, 4)],
                [i \in DOMAIN schema |-> i])
=============================================================================
