------------------------------ MODULE ClusterWire ------------------------------
(***************************************************************************)
(* The packets of the cluster protocol: cluster.core of src/lua_cluster.cpp.*)
(*                                                                         *)
(* A payload is a sequence of bytes and a packet a record with the fields  *)
(* that the code lays out behind the two bytes of the length, its type     *)
(* spelled out: "req" for 0 and 0x80, "multi" for 1, 0x41, 0x81 and 0xc1,  *)
(* "more" and "last" for 2 and 3; of responses "error", "ok", "begin",     *)
(* "part" and "end" for 0 to 4.  A value that may be nil in Lua is a       *)
(* sequence of at most one element.                                        *)
(***************************************************************************)
EXTENDS Integers, Sequences, SequencesExt

CONSTANTS
  MULTI_PART,       \* 0x8000 in the code
  INT32_MAX,        \* the largest session
  LUAL_BUFFERSIZE   \* what a luaL_Buffer holds without a box

ASSUME WireAssumption ==
  MULTI_PART \in Nat \ {0} /\ INT32_MAX \in Nat \ {0} /\ LUAL_BUFFERSIZE \in Nat

None == <<>>
Some(x) == <<x>>

\* The chunks of a payload: the last has what the others leave.
PartCount(sz) == (sz - 1) \div MULTI_PART + 1
Chunk(msg, i) ==
  SubSeq(msg, (i - 1) * MULTI_PART + 1, IF i = PartCount(Len(msg)) THEN Len(msg) ELSE i * MULTI_PART)

-------------------------------------------------------------------------------
(* Requests.                                                               *)

\* Mutant: the source pointer is not advanced.
packreq_multiStuck(session, msg) ==
  [i \in 1 .. PartCount(Len(msg)) |->
     [type |-> IF i < PartCount(Len(msg)) THEN "more" ELSE "last", session |-> session,
      data |-> Chunk(msg, 1)]]

packreq_multi(session, msg) ==
  [i \in 1 .. PartCount(Len(msg)) |->
     [type |-> IF i < PartCount(Len(msg)) THEN "more" ELSE "last", session |-> session,
      data |-> Chunk(msg, i)]]

\* packreq_number and packreq_string: the first packet.
packreq(addr, session, msg, is_push) ==
  IF Len(msg) < MULTI_PART
  THEN [type |-> "req", addr |-> addr, session |-> IF is_push THEN 0 ELSE session, data |-> msg]
  ELSE [type |-> "multi", addr |-> addr, session |-> session, size |-> Len(msg), is_push |-> is_push]

\* lpackrequest and lpackpush: all the packets, and the session after this one.
packrequest(addr, session, msg, is_push) ==
  [packets |-> <<packreq(addr, session, msg, is_push)>>
                 \o (IF Len(msg) < MULTI_PART THEN <<>> ELSE packreq_multi(session, msg)),
   new_session |-> IF session + 1 > INT32_MAX THEN 1 ELSE session + 1,
   padding |-> Len(msg) >= MULTI_PART]

lunpackrequest(p) ==
  CASE p.type = "req" ->
         [addr |-> Some(p.addr), session |-> p.session, msg |-> Some(p.data), sz |-> Len(p.data),
          padding |-> FALSE, is_push |-> p.session = 0]
    [] p.type = "multi" ->
         [addr |-> Some(p.addr), session |-> p.session, msg |-> None, sz |-> p.size,
          padding |-> TRUE, is_push |-> p.is_push]
    [] p.type \in {"more", "last"} ->
         [addr |-> None, session |-> p.session, msg |-> Some(p.data), sz |-> Len(p.data),
          padding |-> p.type = "more", is_push |-> FALSE]

-------------------------------------------------------------------------------
(* Responses.                                                              *)

Response(type, session, data) == [type |-> type, session |-> session, data |-> data]

\* lpackresponse: an error is cut off at MULTI_PART, a payload beyond it is split.
lpackresponse(session, ok, msg) ==
  LET n == PartCount(Len(msg))
  IN CASE ~ok -> <<Response("error", session, SubSeq(msg, 1, IF Len(msg) > MULTI_PART THEN MULTI_PART ELSE Len(msg)))>>
       [] ok /\ Len(msg) <= MULTI_PART -> <<Response("ok", session, msg)>>
       [] ok /\ Len(msg) > MULTI_PART ->
            <<[type |-> "begin", session |-> session, total |-> Len(msg)]>>
            \o [i \in 1 .. n |-> Response(IF i < n THEN "part" ELSE "end", session, Chunk(msg, i))]

\* An element of a table of parts: a number or a string.
Number(n) == [num |-> n]
String(s) == [str |-> s]

lunpackresponse(p) ==
  [session |-> p.session, ok |-> p.type # "error",
   data |-> IF p.type = "begin" THEN Number(p.total) ELSE String(p.data),
   padding |-> p.type \in {"begin", "part"}]

-------------------------------------------------------------------------------
(* Tables of parts.                                                        *)

lappend(t, msg, sz) == Append(t, IF msg = None THEN Number(sz) ELSE String(msg[1]))

IsNumber(x) == "num" \in DOMAIN x

\* lconcat of a table whose first element alone may be a number.  A luaL_Buffer keeps a
\* box on the top of the stack once it outgrows LUAL_BUFFERSIZE, where lconcat pushes and
\* pops the parts: the box is closed with the first pop and its memory used afterwards.
lconcat(t) ==
  IF t = <<>> \/ ~IsNumber(t[1]) THEN [outcome |-> "nothing", msg |-> <<>>]
  ELSE LET msg == FlattenSeq([i \in 1 .. Len(t) - 1 |-> t[i + 1].str])
       IN CASE Len(msg) > LUAL_BUFFERSIZE -> [outcome |-> "crash", msg |-> <<>>]
            [] Len(msg) <= LUAL_BUFFERSIZE /\ Len(msg) # t[1].num -> [outcome |-> "nothing", msg |-> <<>>]
            [] Len(msg) <= LUAL_BUFFERSIZE /\ Len(msg) = t[1].num -> [outcome |-> "string", msg |-> msg]

=============================================================================
