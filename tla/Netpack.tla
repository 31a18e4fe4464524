------------------------------- MODULE Netpack -------------------------------
(***************************************************************************)
(* The framing of src/lua_netpack.cpp: a frame is its length in two bytes, *)
(* the high byte first, and then the payload.  A byte is a digit of base   *)
(* ByteBase, which is 256 in the code.                                     *)
(***************************************************************************)
EXTENDS Integers, Sequences

CONSTANT ByteBase

ASSUME ByteBaseAssumption == ByteBase \in Nat \ {0, 1}

Bytes == 0 .. ByteBase - 1

\* The longest payload whose length fits the header (0xFFFF).
MaxPayload == ByteBase * ByteBase - 1

\* netpack.pack raises an error for a longer payload: it has no frame.
Packable(payload) == Len(payload) <= MaxPayload

\* Mutant: the high byte of the length is not shifted down.
lpackNoShift(payload) == <<Len(payload), Len(payload) % ByteBase>> \o payload

\* netpack.pack.
lpack(payload) ==
  <<(Len(payload) \div ByteBase) % ByteBase, Len(payload) % ByteBase>> \o payload

\* payload_len, read from the two bytes at pos.
PayloadLen(b, pos) == b[pos] * ByteBase + b[pos + 1]

\* b holds a whole frame that starts at pos.
Complete(b, pos) ==
  /\ pos + 1 <= Len(b)
  /\ pos + 1 + PayloadLen(b, pos) <= Len(b)

\* netpack.unpack: the offset after the frame at pos and its payload, << >> for nil.
lunpack(b, pos) ==
  IF pos >= 1 /\ Complete(b, pos)
  THEN LET end == pos + 1 + PayloadLen(b, pos)
       IN <<end + 1, SubSeq(b, pos + 2, end)>>
  ELSE <<>>

\* The frames of lfilter's `combined` from its start, and what is left of it.
Frames[b \in Seq(Bytes)] ==
  IF ~Complete(b, 1) THEN [msgs |-> <<>>, remaining |-> b]
  ELSE LET end  == 2 + PayloadLen(b, 1)
           rest == Frames[SubSeq(b, end + 1, Len(b))]
       IN [msgs |-> <<SubSeq(b, 3, end)>> \o rest.msgs, remaining |-> rest.remaining]

\* Mutant: what is left of the last incomplete frame is dropped.
lfilterDropsRest(buf, new_data) ==
  [Frames[buf \o new_data] EXCEPT !.remaining = <<>>]

\* netpack.filter(buffer, new_data).
lfilter(buf, new_data) == Frames[buf \o new_data]

=============================================================================
