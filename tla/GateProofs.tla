------------------------------ MODULE GateProofs ------------------------------
(***************************************************************************)
(* Theorems about Netpack and Gate.  What netpack.filter                   *)
(* (src/lua_binding.cpp) finds in the bytes of a stream of frames is       *)
(* FilterFindsFrames; Frames is a recursive function, and that it          *)
(* satisfies its own definition is proved first for short strings          *)
(* (FramesUpTo) and then for all.  The safety properties of Gate hold for  *)
(* every number of peers, script, size of read_buf_, set of replies and    *)
(* number of commands.                                                     *)
(*                                                                         *)
(* The inductive invariant GateInv is the conjunction of                   *)
(*   TypeInv     the types, what a read has brought is in read_buf_, and   *)
(*               a write is in progress while write_queue_ is not empty;   *)
(*   PhaseInv    nothing refers to a connection that was not accepted;     *)
(*   CallsInv, BoxOrder    the callbacks and the accept events are in      *)
(*               order;                                                    *)
(*   AllReading  every open connection is being read;                      *)
(*   AllWriting  what was written is at the peer, in the queue or posted;  *)
(*   AcceptPart  the accept event comes before the data of its connection; *)
(*   FramePart   the bytes between the peer and the handler are the frames *)
(*               that were sent and not handed over;                       *)
(*   WholePart   gateserver's buffer holds no whole frame.                 *)
(***************************************************************************)
EXTENDS Gate, SequenceLemmas

-------------------------------------------------------------------------------
(* lfilter's loop.                                                         *)

\* The first frame of b, what follows it, and the two as results of lfilter's loop.
Payload(b) == SubSeq(b, 3, 2 + PayloadLen(b, 1))
Rest(b) == SubSeq(b, 2 + PayloadLen(b, 1) + 1, Len(b))
Joined(b, r) == [msgs |-> <<Payload(b)>> \o r.msgs, remaining |-> r.remaining]
FramesValue(f, b) ==
  IF ~Complete(b, 1) THEN [msgs |-> <<>>, remaining |-> b] ELSE Joined(b, f[Rest(b)])

\* The two bytes of a header give a length.
LEMMA PayloadLenType ==
  ASSUME NEW b \in Seq(Bytes), 2 <= Len(b)
  PROVE  PayloadLen(b, 1) \in Nat
<1>1. b[1] \in Nat /\ b[2] \in Nat /\ ByteBase \in Nat /\ 1 + 1 = 2
  BY ByteBaseAssumption DEF Bytes
<1>2. b[1] * ByteBase \in Nat
  BY <1>1
<1> QED
  BY <1>1, <1>2 DEF PayloadLen

\* A whole frame is a header and a payload of the length it says; lunpack's offset after
\* it leaves a shorter string.
LEMMA RestShorter ==
  ASSUME NEW b \in Seq(Bytes), Complete(b, 1)
  PROVE  /\ Payload(b) \in Seq(Bytes) /\ Len(Payload(b)) = PayloadLen(b, 1)
         /\ Rest(b) \in Seq(Bytes) /\ Len(Rest(b)) = Len(b) - 2 - PayloadLen(b, 1)
         /\ Len(Rest(b)) < Len(b) /\ PayloadLen(b, 1) \in Nat
<1>1. 2 <= Len(b) /\ 2 + PayloadLen(b, 1) <= Len(b)
  BY DEF Complete
<1>2. PayloadLen(b, 1) \in Nat
  BY <1>1, PayloadLenType
<1> DEFINE n == PayloadLen(b, 1)
<1> HIDE DEF n
<1>3. n \in Nat /\ 2 + n <= Len(b)
  BY <1>1, <1>2 DEF n
<1>4. SubSeq(b, 3, 2 + n) \in Seq(Bytes) /\ Len(SubSeq(b, 3, 2 + n)) = n
  BY <1>3
<1>5. SubSeq(b, 2 + n + 1, Len(b)) \in Seq(Bytes)
      /\ Len(SubSeq(b, 2 + n + 1, Len(b))) = Len(b) - 2 - n
  BY <1>3
<1> QED
  BY <1>3, <1>4, <1>5 DEF n, Payload, Rest

\* f is lfilter's loop on the strings of up to n bytes.
Short(n) == {b \in Seq(Bytes) : Len(b) <= n}
FramesUpTo(f, n) == \A b \in Short(n) : f[b] = FramesValue(f, b)

\* lfilter's loop has a result for every string of up to n bytes.
LEMMA FramesUpToExists ==
  ASSUME NEW n \in Nat
  PROVE  \E f : FramesUpTo(f, n)
<1> DEFINE S == {m \in Nat : \E f : FramesUpTo(f, m)}
<1>1. 0 \in S
  <2> DEFINE f == [b \in Short(0) |-> [msgs |-> <<>>, remaining |-> b]]
  <2>1. \A b \in Short(0) : ~Complete(b, 1)
    BY DEF Short, Complete
  <2>2. FramesUpTo(f, 0)
    BY <2>1 DEF FramesUpTo, FramesValue
  <2> QED
    BY <2>2
<1>2. ASSUME NEW m \in Nat, m \in S PROVE m + 1 \in S
  <2>1. PICK f : FramesUpTo(f, m)
    BY <1>2
  <2> DEFINE g == [b \in Short(m + 1) |-> FramesValue(f, b)]
  <2>2. ASSUME NEW b \in Short(m) PROVE g[b] = f[b]
    <3>1. b \in Short(m + 1)
      BY DEF Short
    <3> QED
      BY <2>1, <3>1 DEF FramesUpTo
  <2>3. ASSUME NEW b \in Short(m + 1) PROVE g[b] = FramesValue(g, b)
    <3>1. CASE ~Complete(b, 1)
      BY <3>1 DEF FramesValue
    <3>2. CASE Complete(b, 1)
      <4>1. Rest(b) \in Short(m)
        <5>1. b \in Seq(Bytes) /\ Len(b) <= m + 1
          BY DEF Short
        <5>2. Rest(b) \in Seq(Bytes) /\ Len(Rest(b)) < Len(b)
          BY <3>2, <5>1, RestShorter
        <5> QED
          BY <5>1, <5>2 DEF Short
      <4>2. g[Rest(b)] = f[Rest(b)]
        BY <2>2, <4>1
      <4>3. g[b] = FramesValue(f, b)
        OBVIOUS
      <4> HIDE DEF g
      <4> QED
        BY <4>2, <4>3, <3>2 DEF FramesValue
    <3> QED
      BY <3>1, <3>2
  <2> HIDE DEF g
  <2> QED
    BY <2>3 DEF FramesUpTo
<1> HIDE DEF S
<1>3. n \in S
  BY <1>1, <1>2, NatSet
<1> QED
  BY <1>3 DEF S

\* The result for a string does not depend on how long the others are.
LEMMA FramesUpToUnique ==
  ASSUME NEW f, NEW g, NEW n \in Nat, NEW m \in Nat, n <= m, FramesUpTo(f, n), FramesUpTo(g, m)
  PROVE  \A b \in Short(n) : f[b] = g[b]
<1> DEFINE S == {k \in Nat : k <= n => \A b \in Short(k) : f[b] = g[b]}
<1>1. ASSUME NEW b \in Short(n), Complete(b, 1) => f[Rest(b)] = g[Rest(b)]
      PROVE  f[b] = g[b]
  <2>1. b \in Short(m)
    BY DEF Short
  <2>2. f[b] = FramesValue(f, b) /\ g[b] = FramesValue(g, b)
    BY <2>1, Zenon DEF FramesUpTo
  <2> QED
    BY <1>1, <2>2 DEF FramesValue
<1>2. 0 \in S
  <2>1. ASSUME NEW b \in Short(0) PROVE b \in Short(n) /\ ~Complete(b, 1)
    BY DEF Short, Complete
  <2> QED
    BY <1>1, <2>1
<1>3. ASSUME NEW k \in Nat, k \in S PROVE k + 1 \in S
  <2> SUFFICES ASSUME k + 1 <= n, NEW b \in Short(k + 1) PROVE f[b] = g[b]
    OBVIOUS
  <2>1. b \in Short(n) /\ b \in Seq(Bytes) /\ Len(b) <= k + 1
    BY DEF Short
  <2>2. ASSUME Complete(b, 1) PROVE f[Rest(b)] = g[Rest(b)]
    <3>1. Rest(b) \in Seq(Bytes) /\ Len(Rest(b)) < Len(b)
      BY <2>1, <2>2, RestShorter
    <3>2. Rest(b) \in Short(k)
      BY <2>1, <3>1 DEF Short
    <3> QED
      BY <1>3, <3>2
  <2> QED
    BY <1>1, <2>1, <2>2
<1> HIDE DEF S
<1>4. n \in S
  BY <1>2, <1>3, NatSet
<1> QED
  BY <1>4 DEF S

\* Frames satisfies its recursive definition.
LEMMA FramesIs ==
  ASSUME NEW b \in Seq(Bytes)
  PROVE  Frames[b] = FramesValue(Frames, b)
<1> DEFINE Of(n) == CHOOSE f : FramesUpTo(f, n)
           F == [c \in Seq(Bytes) |-> Of(Len(c))[c]]
           Is(f) == f = [c \in Seq(Bytes) |->
              IF ~Complete(c, 1) THEN [msgs |-> <<>>, remaining |-> c]
              ELSE LET end  == 2 + PayloadLen(c, 1)
                       rest == f[SubSeq(c, end + 1, Len(c))]
                   IN [msgs |-> <<SubSeq(c, 3, end)>> \o rest.msgs, remaining |-> rest.remaining]]
<1>1. \A n \in Nat : FramesUpTo(Of(n), n)
  BY FramesUpToExists, Zenon
<1>2. ASSUME NEW c \in Seq(Bytes) PROVE F[c] = FramesValue(F, c)
  <2> DEFINE f == Of(Len(c))
  <2>1. Len(c) \in Nat /\ c \in Short(Len(c))
    BY DEF Short
  <2>2. F[c] = f[c]
    OBVIOUS
  <2>3. f[c] = FramesValue(f, c)
    <3>1. FramesUpTo(f, Len(c))
      BY <1>1, <2>1
    <3> HIDE DEF f
    <3> QED
      BY <2>1, <3>1 DEF FramesUpTo
  <2>4. CASE ~Complete(c, 1)
    BY <2>2, <2>3, <2>4 DEF FramesValue
  <2>5. CASE Complete(c, 1)
    <3> DEFINE d == Rest(c)
               g == Of(Len(d))
    <3>1. d \in Seq(Bytes) /\ Len(d) \in Nat /\ Len(d) <= Len(c) /\ d \in Short(Len(d))
      BY <2>5, RestShorter DEF Short
    <3>2. FramesUpTo(g, Len(d)) /\ FramesUpTo(f, Len(c))
      BY <1>1, <2>1, <3>1
    <3>3. F[d] = g[d]
      BY <3>1
    <3> HIDE DEF d, g, f
    <3>4. g[d] = f[d]
      BY <2>1, <3>1, <3>2, FramesUpToUnique
    <3>5. F[d] = f[d]
      BY <3>3, <3>4
    <3> HIDE DEF F
    <3> QED
      BY <2>2, <2>3, <2>5, <3>5 DEF FramesValue, d
  <2> QED
    BY <2>4, <2>5
<1>3. Is(F)
  <2>1. F = [c \in Seq(Bytes) |-> F[c]]
    OBVIOUS
  <2> HIDE DEF F
  <2>2. F = [c \in Seq(Bytes) |-> FramesValue(F, c)]
    BY <1>2, <2>1, Zenon
  <2> QED
    BY <2>2, Zenon DEF FramesValue, Joined, Payload, Rest
<1>4. Is(Frames)
  <2>1. Frames = CHOOSE f : Is(f)
    BY DEF Frames
  <2>2. \E f : Is(f)
    BY <1>3
  <2> HIDE DEF Is
  <2> QED
    BY <2>1, <2>2
<1>5. Frames[b] = IF ~Complete(b, 1) THEN [msgs |-> <<>>, remaining |-> b]
                  ELSE LET end  == 2 + PayloadLen(b, 1)
                           rest == Frames[SubSeq(b, end + 1, Len(b))]
                       IN [msgs |-> <<SubSeq(b, 3, end)>> \o rest.msgs, remaining |-> rest.remaining]
  BY <1>4, Zenon
<1> QED
  BY <1>5, Zenon DEF FramesValue, Joined, Payload, Rest


\* What lfilter returns.
Filtered == [msgs : Seq(Seq(Bytes)), remaining : Seq(Bytes)]

\* What lfilter's loop returns: payloads, and a rest that holds no whole frame.
LEMMA FramesType ==
  ASSUME NEW b \in Seq(Bytes)
  PROVE  Frames[b] \in Filtered /\ ~Complete(Frames[b].remaining, 1)
<1> DEFINE Good(c) == Frames[c] \in Filtered /\ ~Complete(Frames[c].remaining, 1)
           S == {n \in Nat : \A c \in Seq(Bytes) : Len(c) <= n => Good(c)}
<1>1. ASSUME NEW c \in Seq(Bytes), ~Complete(c, 1) PROVE Good(c)
  <2>1. Frames[c] = [msgs |-> <<>>, remaining |-> c]
    BY <1>1, FramesIs DEF FramesValue
  <2> QED
    BY <1>1, <2>1 DEF Filtered
<1>2. ASSUME NEW c \in Seq(Bytes), Complete(c, 1), Good(Rest(c)) PROVE Good(c)
  <2>1. Frames[c] = Joined(c, Frames[Rest(c)])
    BY <1>2, FramesIs DEF FramesValue
  <2>2. Payload(c) \in Seq(Bytes)
    BY <1>2, RestShorter
  <2>3. PICK r \in Filtered : r = Frames[Rest(c)] /\ ~Complete(r.remaining, 1)
    BY <1>2
  <2>4. r.msgs \in Seq(Seq(Bytes)) /\ r.remaining \in Seq(Bytes)
    BY DEF Filtered
  <2>5. <<Payload(c)>> \o r.msgs \in Seq(Seq(Bytes))
    BY <2>2, <2>4
  <2>6. Joined(c, r) \in Filtered /\ Joined(c, r).remaining = r.remaining
    BY <2>4, <2>5 DEF Filtered, Joined
  <2> QED
    BY <2>1, <2>3, <2>6
<1> HIDE DEF Good
<1>3. 0 \in S
  <2> SUFFICES ASSUME NEW c \in Seq(Bytes), Len(c) <= 0 PROVE Good(c)
    OBVIOUS
  <2>1. ~Complete(c, 1)
    BY DEF Complete
  <2> QED
    BY <1>1, <2>1
<1>4. ASSUME NEW n \in Nat, n \in S PROVE n + 1 \in S
  <2> SUFFICES ASSUME NEW c \in Seq(Bytes), Len(c) <= n + 1 PROVE Good(c)
    OBVIOUS
  <2>1. ASSUME Complete(c, 1) PROVE Good(Rest(c))
    <3>1. Rest(c) \in Seq(Bytes) /\ Len(Rest(c)) < Len(c) /\ Len(Rest(c)) \in Nat /\ Len(c) \in Nat
      BY <2>1, RestShorter
    <3>2. Len(Rest(c)) <= n
      BY <3>1
    <3> QED
      BY <1>4, <3>1, <3>2
  <2> QED
    BY <1>1, <1>2, <2>1
<1> HIDE DEF S
<1>5. Len(b) \in Nat /\ Len(b) \in S
  BY <1>3, <1>4, NatSet
<1>6. Good(b)
  BY <1>5 DEF S
<1> QED
  BY <1>6 DEF Good

-------------------------------------------------------------------------------
(* Headers and frames.                                                     *)

\* The two bytes that lpack writes hold every length up to MaxPayload.
LEMMA HeaderHoldsLength ==
  ASSUME NEW m \in Nat, m <= MaxPayload
  PROVE  /\ (m \div ByteBase) % ByteBase \in Bytes /\ m % ByteBase \in Bytes
         /\ ((m \div ByteBase) % ByteBase) * ByteBase + (m % ByteBase) = m
<1> DEFINE q == m \div ByteBase
           r == m % ByteBase
<1>1. ByteBase \in Nat /\ ByteBase > 1
  BY ByteBaseAssumption
<1>2. q \in Nat /\ r \in 0 .. ByteBase - 1 /\ m = q * ByteBase + r
  BY <1>1
<1>3. q < ByteBase
  <2> HIDE DEF q, r
  <2>1. m < ByteBase * ByteBase
    BY <1>1 DEF MaxPayload
  <2> SUFFICES ASSUME q >= ByteBase PROVE FALSE
    BY <1>1, <1>2
  <2>2. q * ByteBase >= ByteBase * ByteBase
    BY <1>1, <1>2
  <2> QED
    BY <1>1, <1>2, <2>1, <2>2
<1>4. q % ByteBase = q
  <2> HIDE DEF q
  <2> QED
    BY <1>1, <1>2, <1>3
<1>5. q \in Bytes /\ r \in Bytes
  BY <1>1, <1>2, <1>3 DEF Bytes
<1>6. (q % ByteBase) * ByteBase + r = m
  BY <1>2, <1>4
<1>7. q % ByteBase \in Bytes
  BY <1>4, <1>5
<1> QED
  BY <1>5, <1>6, <1>7

\* The bytes of the frames of ss.
Stream(ss) == FlattenSeq([k \in 1 .. Len(ss) |-> lpack(ss[k])])

\* lpack of a payload that fits is a frame that lunpack reads back.
LEMMA lpackType ==
  ASSUME NEW p \in Seq(Bytes), Packable(p)
  PROVE  /\ lpack(p) \in Seq(Bytes) /\ Len(lpack(p)) = 2 + Len(p)
         /\ lpack(p)[1] * ByteBase + lpack(p)[2] = Len(p)
         /\ SubSeq(lpack(p), 3, 2 + Len(p)) = p
<1> DEFINE h == (Len(p) \div ByteBase) % ByteBase
           l == Len(p) % ByteBase
<1>1. h \in Bytes /\ l \in Bytes /\ h * ByteBase + l = Len(p)
  <2>1. Len(p) \in Nat /\ Len(p) <= MaxPayload
    BY DEF Packable
  <2> QED
    BY <2>1, HeaderHoldsLength, Zenon
<1>2. lpack(p) = <<h, l>> \o p
  BY DEF lpack
<1> HIDE DEF h, l
<1>3. <<h, l>> \in Seq(Bytes) /\ Len(<<h, l>>) = 2 /\ <<h, l>>[1] = h /\ <<h, l>>[2] = l
  BY <1>1
<1>4. <<h, l>> \o p \in Seq(Bytes) /\ Len(<<h, l>> \o p) = 2 + Len(p)
  BY <1>3
<1>5. (<<h, l>> \o p)[1] = h /\ (<<h, l>> \o p)[2] = l
  BY <1>3
<1>6. SubSeq(<<h, l>> \o p, 3, 2 + Len(p)) = p
  <2> DEFINE q == SubSeq(<<h, l>> \o p, 3, 2 + Len(p))
  <2>1. q \in Seq(Bytes) /\ Len(q) = Len(p)
    BY <1>4
  <2>2. \A k \in 1 .. Len(p) : q[k] = p[k]
    BY <1>3, <1>4
  <2> HIDE DEF q
  <2>3. q = p
    BY <2>1, <2>2, SeqEqual
  <2> QED
    BY <2>3 DEF q
<1> QED
  BY <1>1, <1>2, <1>4, <1>5, <1>6


-------------------------------------------------------------------------------
(* Concatenations over the members of a sequence.                          *)

\* The concatenation of what e gives for the elements of q.
Picked(q, e) == FlattenSeq([k \in 1 .. Len(q) |-> e[q[k]]])

\* What is picked from the members of a sequence is a sequence.
LEMMA PickedType ==
  ASSUME NEW D, NEW T, NEW e \in [D -> Seq(T)], NEW q \in Seq(D)
  PROVE  /\ [k \in 1 .. Len(q) |-> e[q[k]]] \in Seq(Seq(T))
         /\ Len([k \in 1 .. Len(q) |-> e[q[k]]]) = Len(q)
         /\ Picked(q, e) \in Seq(T)
<1> DEFINE m == [k \in 1 .. Len(q) |-> e[q[k]]]
<1>1. m \in Seq(Seq(T)) /\ Len(m) = Len(q)
  <2>1. \A k \in 1 .. Len(q) : e[q[k]] \in Seq(T)
    OBVIOUS
  <2> QED
    BY <2>1, Len(q) \in Nat
<1> HIDE DEF m
<1>2. FlattenSeq(m) \in Seq(T)
  BY <1>1, FlattenType
<1> QED
  BY <1>1, <1>2 DEF m, Picked

\* Nothing is picked from the empty sequence.
LEMMA PickedEmpty == \A e : Picked(<<>>, e) = <<>>
<1> SUFFICES ASSUME NEW e PROVE Picked(<<>>, e) = <<>>
  OBVIOUS
<1>1. [k \in 1 .. Len(<<>>) |-> e[<<>>[k]]] = <<>>
  OBVIOUS
<1> QED
  BY <1>1, FlattenEmpty DEF Picked

\* What one more member adds is at the end.
LEMMA PickedAppend ==
  ASSUME NEW D, NEW T, NEW e \in [D -> Seq(T)], NEW q \in Seq(D), NEW x \in D
  PROVE  Picked(Append(q, x), e) = Picked(q, e) \o e[x]
<1> DEFINE m == [k \in 1 .. Len(q) |-> e[q[k]]]
           r == Append(q, x)
           n == [k \in 1 .. Len(r) |-> e[r[k]]]
<1>1. m \in Seq(Seq(T)) /\ Len(m) = Len(q) /\ Len(q) \in Nat /\ \A k \in 1 .. Len(q) : m[k] = e[q[k]]
  BY PickedType
<1>2. r \in Seq(D) /\ Len(r) = Len(q) + 1 /\ r[Len(q) + 1] = x /\ \A k \in 1 .. Len(q) : r[k] = q[k]
  BY AppendProperties
<1>3. n \in Seq(Seq(T)) /\ Len(n) = Len(r) /\ \A k \in 1 .. Len(r) : n[k] = e[r[k]]
  <2> HIDE DEF r
  <2> QED
    BY <1>2, PickedType
<1> HIDE DEF m, n, r
<1>4. e[x] \in Seq(T)
  OBVIOUS
<1>5. n = Append(m, e[x])
  <2>1. /\ Append(m, e[x]) \in Seq(Seq(T)) /\ Len(Append(m, e[x])) = Len(m) + 1
        /\ Append(m, e[x])[Len(m) + 1] = e[x] /\ \A k \in 1 .. Len(m) : Append(m, e[x])[k] = m[k]
    BY <1>1, <1>4, AppendProperties
  <2>2. ASSUME NEW k \in 1 .. Len(q) + 1 PROVE n[k] = Append(m, e[x])[k]
    <3>1. CASE k = Len(q) + 1
      BY <1>1, <1>2, <1>3, <2>1, <3>1
    <3>2. CASE k # Len(q) + 1
      <4>1. k \in 1 .. Len(q)
        BY <3>2, <1>1
      <4> QED
        BY SMTT(30), <1>1, <1>2, <1>3, <2>1, <4>1
    <3> QED
      BY <3>1, <3>2
  <2> QED
    BY <1>1, <1>2, <1>3, <2>1, <2>2, SeqEqual
<1>6. FlattenSeq(n) = FlattenSeq(m) \o e[x]
  BY <1>1, <1>4, <1>5, FlattenAppend
<1> QED
  BY <1>6 DEF Picked, m, n, r

\* What the first member gives is at the beginning.
LEMMA PickedHead ==
  ASSUME NEW D, NEW T, NEW e \in [D -> Seq(T)], NEW q \in Seq(D), q # <<>>
  PROVE  Picked(q, e) = e[Head(q)] \o Picked(Tail(q), e)
<1> DEFINE m == [k \in 1 .. Len(q) |-> e[q[k]]]
           r == Tail(q)
           n == [k \in 1 .. Len(r) |-> e[r[k]]]
<1>1. m \in Seq(Seq(T)) /\ Len(m) = Len(q) /\ Len(q) \in Nat \ {0} /\ \A k \in 1 .. Len(q) : m[k] = e[q[k]]
  BY PickedType
<1>2. r \in Seq(D) /\ Len(r) = Len(q) - 1 /\ \A k \in 1 .. Len(q) - 1 : r[k] = q[k + 1]
  BY HeadTailProperties
<1>3. n \in Seq(Seq(T)) /\ Len(n) = Len(r) /\ \A k \in 1 .. Len(r) : n[k] = e[r[k]]
  <2> HIDE DEF r
  <2> QED
    BY <1>2, PickedType
<1>4. Head(q) = q[1]
  OBVIOUS
<1> HIDE DEF m, n, r
<1>5. m # <<>>
  BY <1>1, EmptySeq
<1>6. Head(m) = e[Head(q)]
  BY <1>1, <1>4, <1>5
<1>7. Tail(m) = n
  <2>1. Tail(m) \in Seq(Seq(T)) /\ Len(Tail(m)) = Len(m) - 1
        /\ \A k \in 1 .. Len(m) - 1 : Tail(m)[k] = m[k + 1]
    BY <1>1, <1>5, HeadTailProperties
  <2>2. ASSUME NEW k \in 1 .. Len(q) - 1 PROVE Tail(m)[k] = n[k]
    <3>1. k + 1 \in 1 .. Len(q) /\ k \in 1 .. Len(m) - 1 /\ k \in 1 .. Len(r)
      BY <1>1, <1>2
    <3> QED
      BY ZenonT(60), <1>1, <1>2, <1>3, <2>1, <3>1
  <2> QED
    BY <1>1, <1>2, <1>3, <2>1, <2>2, SeqEqual
<1>8. FlattenSeq(m) = Head(m) \o FlattenSeq(Tail(m))
  BY <1>1, <1>5, FlattenHead
<1> QED
  BY <1>6, <1>7, <1>8 DEF Picked, m, n, r

\* u is the sequence of y alone; v adds vs to what is picked from q.
IsSingle(u, y) == Len(u) = 1 /\ u[1] = y
Adds(e, q, v, vs) == Picked(q \o v, e) = Picked(q, e) \o vs

\* The same, after another concatenation.
LEMMA ConcatSingle ==
  ASSUME NEW T, NEW a \in Seq(T), NEW b \in Seq(T), NEW y \in T, NEW u \in Seq(T), IsSingle(u, y)
  PROVE  (a \o b) \o u = a \o Append(b, y)
<1>1. (a \o b) \o u = a \o (b \o u)
  BY Associative
<1>2. Append(b, y) = b \o u
  <2>1. Len(u) = 1 /\ u[1] = y
    BY DEF IsSingle
  <2> QED
    BY <2>1, AppendOfSingle, Zenon
<1> QED
  BY <1>1, <1>2, Zenon

\* A member that gives one value adds it.
LEMMA PickedSingle ==
  ASSUME NEW D, NEW T, NEW e \in [D -> Seq(T)], NEW q \in Seq(D), NEW v \in Seq(D), NEW x \in D,
         NEW vs \in Seq(T), NEW y \in T, IsSingle(e[x], y), Adds(e, q, v, vs)
  PROVE  Adds(e, q, Append(v, x), Append(vs, y))
<1> DEFINE pq == Picked(q, e)
           qv == q \o v
           ex == e[x]
<1>1. pq \in Seq(T) /\ ex \in Seq(T) /\ IsSingle(ex, y)
  BY PickedType
<1>2. qv \in Seq(D) /\ q \o Append(v, x) = Append(qv, x)
  OBVIOUS
<1>3. Picked(Append(qv, x), e) = Picked(qv, e) \o ex
  <2> HIDE DEF qv
  <2> QED
    BY <1>2, PickedAppend
<1>4. Picked(qv, e) = pq \o vs
  BY DEF Adds
<1> HIDE DEF pq, qv, ex
<1>5. (pq \o vs) \o ex = pq \o Append(vs, y)
  BY <1>1, ConcatSingle, ZenonT(60)
<1>6. Picked(Append(qv, x), e) = pq \o Append(vs, y)
  BY <1>3, <1>4, <1>5, Zenon
<1> QED
  BY <1>2, <1>6 DEF pq, qv, ex, Adds

\* Members that give one value each add these values in order.
LEMMA PickedSingles ==
  ASSUME NEW D, NEW T, NEW e \in [D -> Seq(T)], NEW q \in Seq(D), NEW ms \in Seq(T), NEW t \in Seq(D),
         Len(t) = Len(ms), \A k \in 1 .. Len(ms) : IsSingle(e[t[k]], ms[k])
  PROVE  Adds(e, q, t, ms)
<1> DEFINE Good(n) == Adds(e, q, SubSeq(t, 1, n), SubSeq(ms, 1, n))
           S == {n \in Nat : n <= Len(ms) => Good(n)}
<1>1. Good(0)
  <2>1. SubSeq(t, 1, 0) = <<>> /\ SubSeq(ms, 1, 0) = <<>>
    BY SubSeqEmpty
  <2>2. q \o <<>> = q
    BY ConcatEmptySeq
  <2>3. Picked(q, e) \in Seq(T)
    BY PickedType
  <2>4. Picked(q, e) \o <<>> = Picked(q, e)
    BY <2>3, ConcatEmptySeq
  <2> QED
    BY <2>1, <2>2, <2>4 DEF Adds
<1>2. ASSUME NEW n \in Nat, n + 1 <= Len(ms), Good(n) PROVE Good(n + 1)
  <2>1. /\ SubSeq(t, 1, n) \in Seq(D) /\ t[n + 1] \in D
        /\ SubSeq(t, 1, n + 1) = Append(SubSeq(t, 1, n), t[n + 1])
    BY <1>2, SubSeqNext
  <2>2. /\ SubSeq(ms, 1, n) \in Seq(T) /\ ms[n + 1] \in T
        /\ SubSeq(ms, 1, n + 1) = Append(SubSeq(ms, 1, n), ms[n + 1])
    BY <1>2, SubSeqNext
  <2>3. IsSingle(e[t[n + 1]], ms[n + 1])
    <3>1. n + 1 \in 1 .. Len(ms)
      BY <1>2
    <3> QED
      BY <3>1
  <2> DEFINE tn == SubSeq(t, 1, n)
             mn == SubSeq(ms, 1, n)
             tx == t[n + 1]
             mx == ms[n + 1]
  <2>4. /\ tn \in Seq(D) /\ tx \in D /\ mn \in Seq(T) /\ mx \in T
        /\ IsSingle(e[tx], mx) /\ Adds(e, q, tn, mn)
    BY <1>2, <2>1, <2>2, <2>3
  <2> HIDE DEF tn, tx, mn, mx
  <2>5. Adds(e, q, Append(tn, tx), Append(mn, mx))
    BY <2>4, PickedSingle
  <2> QED
    BY <2>1, <2>2, <2>5 DEF tn, tx, mn, mx
<1> HIDE DEF Good
<1>3. 0 \in S
  BY <1>1
<1>4. ASSUME NEW n \in Nat, n \in S PROVE n + 1 \in S
  <2> SUFFICES ASSUME n + 1 <= Len(ms) PROVE Good(n + 1)
    OBVIOUS
  <2>1. n <= Len(ms)
    OBVIOUS
  <2> QED
    BY <1>2, <1>4, <2>1
<1> HIDE DEF S
<1>5. Len(ms) \in S
  BY <1>3, <1>4, NatSet, Len(ms) \in Nat
<1>6. Good(Len(ms))
  BY <1>5 DEF S
<1>7. SubSeq(t, 1, Len(ms)) = t /\ SubSeq(ms, 1, Len(ms)) = ms
  BY SubSeqFull
<1> QED
  BY <1>6, <1>7 DEF Good

-------------------------------------------------------------------------------
(* Streams of frames.                                                      *)

\* The payloads that fit a header, and their frames.
Payloads == {p \in Seq(Bytes) : Packable(p)}
Framed == [p \in Payloads |-> lpack(p)]

\* Every payload has a frame.
LEMMA FramedType == Framed \in [Payloads -> Seq(Bytes)]
BY lpackType DEF Framed, Payloads

\* A stream is picked from the payloads.
LEMMA StreamIsPicked ==
  ASSUME NEW ss \in Seq(Payloads)
  PROVE  Stream(ss) = Picked(ss, Framed)
<1>1. \A k \in 1 .. Len(ss) : Framed[ss[k]] = lpack(ss[k])
  BY DEF Framed
<1>2. [k \in 1 .. Len(ss) |-> lpack(ss[k])] = [k \in 1 .. Len(ss) |-> Framed[ss[k]]]
  BY <1>1
<1> QED
  BY <1>2 DEF Stream, Picked

\* A stream is a string of bytes.
LEMMA StreamType ==
  ASSUME NEW ss \in Seq(Payloads)
  PROVE  Stream(ss) \in Seq(Bytes)
BY StreamIsPicked, PickedType, FramedType

\* The first frame of a stream, and the others.
LEMMA StreamHead ==
  ASSUME NEW ss \in Seq(Payloads), ss # <<>>
  PROVE  Stream(ss) = lpack(Head(ss)) \o Stream(Tail(ss))
<1>1. Tail(ss) \in Seq(Payloads) /\ Head(ss) \in Payloads
  OBVIOUS
<1>2. Framed[Head(ss)] = lpack(Head(ss))
  BY <1>1 DEF Framed
<1>3. Picked(ss, Framed) = Framed[Head(ss)] \o Picked(Tail(ss), Framed)
  BY FramedType, PickedHead
<1>4. Stream(Tail(ss)) = Picked(Tail(ss), Framed) /\ Stream(ss) = Picked(ss, Framed)
  BY <1>1, StreamIsPicked
<1> QED
  BY <1>2, <1>3, <1>4

\* A frame that is sent is added to the end of the stream.
LEMMA StreamAppend ==
  ASSUME NEW ss \in Seq(Payloads), NEW p \in Payloads
  PROVE  Stream(Append(ss, p)) = Stream(ss) \o lpack(p)
<1>1. Append(ss, p) \in Seq(Payloads)
  OBVIOUS
<1>2. Framed[p] = lpack(p)
  BY DEF Framed
<1>3. Picked(Append(ss, p), Framed) = Picked(ss, Framed) \o Framed[p]
  BY FramedType, PickedAppend
<1>4. Stream(Append(ss, p)) = Picked(Append(ss, p), Framed) /\ Stream(ss) = Picked(ss, Framed)
  BY <1>1, StreamIsPicked
<1> QED
  BY <1>2, <1>3, <1>4

\* A common beginning is dropped from both sides.
LEMMA DropPrefix ==
  ASSUME NEW T, NEW c \in Seq(T), NEW x \in Seq(T), NEW a \in Seq(T), NEW y \in Seq(T),
         Len(a) <= Len(c)
  PROVE  c \o x = a \o y => SubSeq(c, Len(a) + 1, Len(c)) \o x = y
<1> DEFINE r == SubSeq(c, Len(a) + 1, Len(c))
           L(k) == (c \o x)[k + Len(a)]
           R(k) == (a \o y)[k + Len(a)]
<1>1. /\ r \in Seq(T) /\ Len(r) = Len(c) - Len(a)
      /\ \A k \in 1 .. Len(r) : r[k] = c[k + Len(a)]
  OBVIOUS
<1>2. Len(c \o x) = Len(c) + Len(x) /\ Len(a \o y) = Len(a) + Len(y)
  OBVIOUS
<1> HIDE DEF r
<1>3. r \o x \in Seq(T) /\ Len(r \o x) = Len(r) + Len(x)
  <2>1. r \in Seq(T)
    BY <1>1
  <2> QED
    BY <2>1, ConcatProperties
<1>4. \A k \in 1 .. Len(y) : R(k) = y[k]
  OBVIOUS
<1>5. ASSUME NEW k \in 1 .. Len(r) + Len(x) PROVE (r \o x)[k] = L(k)
  <2>1. CASE k <= Len(r)
    <3>1. (r \o x)[k] = r[k] /\ r[k] = c[k + Len(a)]
      BY <1>1, <2>1
    <3>2. L(k) = c[k + Len(a)]
      BY <1>1, <2>1
    <3> QED
      BY <3>1, <3>2
  <2>2. CASE ~(k <= Len(r))
    <3>1. (r \o x)[k] = x[k - Len(r)]
      BY SMTT(30), <1>1, <2>2
    <3>2. L(k) = x[k + Len(a) - Len(c)]
      BY <1>1, <2>2
    <3>3. k + Len(a) - Len(c) = k - Len(r)
      BY <1>1
    <3> QED
      BY <3>1, <3>2, <3>3
  <2> QED
    BY <2>1, <2>2
<1> SUFFICES ASSUME c \o x = a \o y PROVE r \o x = y
  BY DEF r
<1>6. Len(r) + Len(x) = Len(y)
  BY <1>1, <1>2
<1>7. \A k \in 1 .. Len(y) : (r \o x)[k] = y[k]
  BY <1>4, <1>5, <1>6
<1> QED
  BY <1>3, <1>6, <1>7, SeqEqual

\* However a stream of frames is cut, what lfilter finds in its first bytes b (when x is
\* what has not arrived) are the first frames of the stream, whole, unchanged and in
\* order, and what it keeps for the next call, followed by x, is the stream of the others.
THEOREM FilterFindsFrames ==
  ASSUME NEW b \in Seq(Bytes), NEW x \in Seq(Bytes), NEW ss \in Seq(Payloads), b \o x = Stream(ss)
  PROVE  \E n \in 0 .. Len(ss) :
           /\ Frames[b].msgs = SubSeq(ss, 1, n)
           /\ Frames[b].remaining \o x = Stream(SubSeq(ss, n + 1, Len(ss)))
<1> DEFINE Found(c, tt, n) == /\ Frames[c].msgs = SubSeq(tt, 1, n)
                              /\ Frames[c].remaining \o x = Stream(SubSeq(tt, n + 1, Len(tt)))
           Good(c) == \A tt \in Seq(Payloads) : c \o x = Stream(tt) =>
                        \E n \in 0 .. Len(tt) : Found(c, tt, n)
           S == {n \in Nat : \A c \in Seq(Bytes) : Len(c) <= n => Good(c)}
<1>1. ASSUME NEW c \in Seq(Bytes), ~Complete(c, 1) PROVE Good(c)
  <2> SUFFICES ASSUME NEW tt \in Seq(Payloads), c \o x = Stream(tt)
               PROVE  \E n \in 0 .. Len(tt) : Found(c, tt, n)
    OBVIOUS
  <2>1. Frames[c] = [msgs |-> <<>>, remaining |-> c]
    BY <1>1, FramesIs DEF FramesValue
  <2>2. SubSeq(tt, 1, 0) = <<>> /\ SubSeq(tt, 0 + 1, Len(tt)) = tt /\ 0 \in 0 .. Len(tt)
    BY SubSeqEmpty, SubSeqFull
  <2>3. Found(c, tt, 0)
    <3>1. Frames[c].msgs = <<>> /\ Frames[c].remaining = c
      BY <2>1
    <3> QED
      BY <2>2, <3>1
  <2> QED
    BY <2>2, <2>3
<1>2. ASSUME NEW c \in Seq(Bytes), Complete(c, 1), Good(Rest(c)) PROVE Good(c)
  <2> SUFFICES ASSUME NEW tt \in Seq(Payloads), c \o x = Stream(tt)
               PROVE  \E n \in 0 .. Len(tt) : Found(c, tt, n)
    OBVIOUS
  <2>1. 2 <= Len(c) /\ 2 + PayloadLen(c, 1) <= Len(c) /\ Len(c) \in Nat
    BY <1>2 DEF Complete
  <2>2. Frames[c] = Joined(c, Frames[Rest(c)])
    BY <1>2, FramesIs DEF FramesValue
  <2>3. tt # <<>>
    <3>1. Len(c \o x) = Len(c) + Len(x) /\ Len(x) \in Nat
      OBVIOUS
    <3>2. Stream(<<>>) = <<>>
      BY FlattenEmpty DEF Stream
    <3> QED
      BY <2>1, <3>1, <3>2
  <2> DEFINE p == Head(tt)
             ts == Tail(tt)
  <2>4. p \in Seq(Bytes) /\ Packable(p) /\ ts \in Seq(Payloads)
        /\ Len(ts) = Len(tt) - 1 /\ Len(tt) \in Nat \ {0}
    BY <2>3 DEF Payloads
  <2>5. Stream(tt) = lpack(p) \o Stream(ts) /\ Stream(ts) \in Seq(Bytes)
    BY <2>3, <2>4, StreamHead, StreamType
  <2>6. tt = <<p>> \o ts
    BY <2>3
  <2> HIDE DEF p, ts
  <2> DEFINE a == lpack(p)
             y == Stream(ts)
  <2>7. a \in Seq(Bytes) /\ Len(a) = 2 + Len(p) /\ a[1] * ByteBase + a[2] = Len(p)
        /\ SubSeq(a, 3, 2 + Len(p)) = p /\ y \in Seq(Bytes) /\ c \o x = a \o y
    BY <2>4, <2>5, lpackType
  <2> HIDE DEF a, y
  <2>8. \A k \in 1 .. Len(c) : k <= Len(a) => c[k] = a[k]
    <3> TAKE k \in 1 .. Len(c)
    <3> HAVE k <= Len(a)
    <3>1. (c \o x)[k] = c[k] /\ (a \o y)[k] = a[k]
      BY <2>7, ConcatProperties
    <3> QED
      BY <2>7, <3>1
  <2>9. PayloadLen(c, 1) = Len(p)
    <3>1. c[1] = a[1] /\ c[2] = a[2]
      BY <2>1, <2>7, <2>8, <2>4
    <3> QED
      BY <2>7, <3>1, 1 + 1 = 2 DEF PayloadLen
  <2>10. Payload(c) = p
    <3>1. Payload(c) \in Seq(Bytes) /\ Len(Payload(c)) = Len(p)
      BY <1>2, <2>9, RestShorter
    <3>2. ASSUME NEW k \in 1 .. Len(p) PROVE Payload(c)[k] = p[k]
      <4>1. Payload(c)[k] = c[k + 2]
        BY <2>1, <2>9, <2>4 DEF Payload
      <4>2. p[k] = a[k + 2]
        <5>1. SubSeq(a, 3, 2 + Len(p))[k] = a[k + 2]
          BY <2>7, <2>4
        <5> QED
          BY <2>7, <5>1
      <4>3. c[k + 2] = a[k + 2]
        <5>1. k + 2 \in 1 .. Len(c) /\ k + 2 <= Len(a)
          BY SMTT(30), <2>1, <2>7, <2>9, <2>4
        <5> QED
          BY <2>8, <5>1
      <4> QED
        BY <4>1, <4>2, <4>3
    <3> QED
      BY <2>4, <3>1, <3>2, SeqEqual
  <2>11. Rest(c) \in Seq(Bytes) /\ Rest(c) \o x = y
    <3>1. Len(a) <= Len(c) /\ Rest(c) = SubSeq(c, Len(a) + 1, Len(c))
      BY <2>1, <2>7, <2>9 DEF Rest
    <3>2. Rest(c) \in Seq(Bytes)
      BY <1>2, RestShorter
    <3>3. SubSeq(c, Len(a) + 1, Len(c)) \o x = y
      BY <2>7, <3>1, DropPrefix
    <3> QED
      BY <3>1, <3>2, <3>3
  <2>12. PICK n \in 0 .. Len(ts) : Found(Rest(c), ts, n)
    BY <1>2, <2>4, <2>11 DEF y
  <2>13. n + 1 \in 0 .. Len(tt)
    BY <2>4
  <2>14. <<p>> \o SubSeq(ts, 1, n) = SubSeq(tt, 1, n + 1)
    BY <2>4, <2>6, <2>13
  <2>15. SubSeq(ts, n + 1, Len(ts)) = SubSeq(tt, n + 1 + 1, Len(tt))
    BY <2>4, <2>6, <2>13
  <2>16. Frames[c].msgs = <<p>> \o Frames[Rest(c)].msgs /\ Frames[c].remaining = Frames[Rest(c)].remaining
    BY SMTT(30), <2>2, <2>10 DEF Joined
  <2>17. Found(c, tt, n + 1)
    BY <2>12, <2>14, <2>15, <2>16
  <2> QED
    BY <2>13, <2>17
<1> HIDE DEF Good
<1>3. 0 \in S
  <2> SUFFICES ASSUME NEW c \in Seq(Bytes), Len(c) <= 0 PROVE Good(c)
    OBVIOUS
  <2>1. ~Complete(c, 1)
    BY DEF Complete
  <2> QED
    BY <1>1, <2>1
<1>4. ASSUME NEW n \in Nat, n \in S PROVE n + 1 \in S
  <2> SUFFICES ASSUME NEW c \in Seq(Bytes), Len(c) <= n + 1 PROVE Good(c)
    OBVIOUS
  <2>1. ASSUME Complete(c, 1) PROVE Good(Rest(c))
    <3>1. Rest(c) \in Seq(Bytes) /\ Len(Rest(c)) < Len(c) /\ Len(Rest(c)) \in Nat /\ Len(c) \in Nat
      BY <2>1, RestShorter
    <3>2. Len(Rest(c)) <= n
      BY <3>1
    <3> QED
      BY <1>4, <3>1, <3>2
  <2> QED
    BY <1>1, <1>2, <2>1
<1> HIDE DEF S
<1>5. Len(b) \in Nat /\ Len(b) \in S
  BY SMTT(30), <1>3, <1>4, NatSet
<1>6. Good(b)
  BY <1>5 DEF S
<1> QED
  BY <1>6 DEF Good

-------------------------------------------------------------------------------
(* Types, and what refers to a connection.                                 *)

\* A read that was done is of bytes that read_buf_ holds, and a write is in progress
\* while there is something in the queue.
GoodConnections ==
  {c \in TcpConnections :
     /\ \A k \in 1 .. Len(c.reads) : c.reads[k] \in -1 .. Len(c.read_buf)
     /\ c.is_writing <=> c.write_queue # <<>>}

TypeInv == TypeOK /\ conn \in [Conns -> GoodConnections]

\* Nothing refers to a connection that was not accepted yet.
PhaseInv ==
  /\ \A i \in Conns : phase[i] # "accepted" =>
       /\ conn[i] = NewConnection
       /\ i \notin connections
       /\ calls[i] = <<>> /\ i \notin DOMAIN gate_conns
       /\ back[i] = <<>> /\ written[i] = <<>>
  /\ \A k \in 1 .. Len(mailbox) : phase[mailbox[k].id] = "accepted"
  /\ \A k \in 1 .. Len(posted) : posted[k].op # "stop" => phase[posted[k].id] = "accepted"

-------------------------------------------------------------------------------
(* What the operations of TcpConnection keep.                              *)

\* What a step that is not about reading leaves alone, and one that is not about writing.
SameReading(c, d) ==
  /\ d.open = c.open /\ d.reads = c.reads /\ d.read_buf = c.read_buf /\ d.is_paused = c.is_paused
SameWriting(c, d) ==
  /\ d.write_queue = c.write_queue /\ d.is_writing = c.is_writing
  /\ d.write_failed = c.write_failed /\ d.pending_bytes = c.pending_bytes

\* The connection before its start().
LEMMA NewConnectionGood ==
  /\ NewConnection \in GoodConnections
  /\ NewConnection.reads = <<>> /\ ~NewConnection.is_paused /\ ~NewConnection.open
  /\ NewConnection.write_queue = <<>> /\ NewConnection.pending_bytes = 0
  /\ ~NewConnection.is_writing
BY DEF NewConnection, GoodConnections, TcpConnections

\* What do_read changes.
LEMMA do_readGood ==
  ASSUME NEW c \in GoodConnections
  PROVE  /\ do_read(c) \in GoodConnections
         /\ SameWriting(c, do_read(c))
         /\ do_read(c).open = c.open /\ do_read(c).read_buf = c.read_buf
         /\ do_read(c).is_paused = c.is_paused
         /\ do_read(c).reads = IF c.is_paused THEN c.reads
                               ELSE Append(c.reads, IF c.open THEN 0 ELSE -1)
<1> DEFINE d == do_read(c)
           r == IF c.is_paused THEN c.reads ELSE Append(c.reads, IF c.open THEN 0 ELSE -1)
<1>1. /\ c \in TcpConnections /\ c.reads \in Seq(Int) /\ c.read_buf \in Seq(Bytes)
      /\ c.open \in BOOLEAN /\ c.is_paused \in BOOLEAN
      /\ \A k \in 1 .. Len(c.reads) : c.reads[k] \in -1 .. Len(c.read_buf)
      /\ c.is_writing <=> c.write_queue # <<>>
  BY DEF GoodConnections, TcpConnections
<1>2. r \in Seq(Int) /\ \A k \in 1 .. Len(r) : r[k] \in -1 .. Len(c.read_buf)
  <2>1. CASE c.is_paused
    BY <1>1, <2>1
  <2>2. CASE ~c.is_paused
    <3> DEFINE n == IF c.open THEN 0 ELSE -1
    <3>1. n \in Int /\ n \in -1 .. Len(c.read_buf) /\ r = Append(c.reads, n)
      BY <1>1, <2>2
    <3> HIDE DEF n, r
    <3> QED
      BY <1>1, <3>1
  <2> QED
    BY <1>1, <2>1, <2>2
<1>3. d = [c EXCEPT !.reads = r]
  <2>1. CASE c.is_paused
    BY <1>1, <2>1 DEF do_read, TcpConnections
  <2>2. CASE ~c.is_paused
    BY <1>1, <2>2 DEF do_read, TcpConnections
  <2> QED
    BY <1>1, <2>1, <2>2
<1> HIDE DEF r, d
<1>4. /\ d \in TcpConnections /\ SameWriting(c, d) /\ d.open = c.open /\ d.read_buf = c.read_buf
      /\ d.is_paused = c.is_paused /\ d.reads = r
  BY <1>1, <1>2, <1>3 DEF TcpConnections, SameWriting
<1>5. d \in GoodConnections
  BY <1>1, <1>2, <1>4 DEF GoodConnections, SameWriting
<1> QED
  BY <1>4, <1>5 DEF d, r

\* What start() changes before its do_read.
LEMMA OpenedGood ==
  ASSUME NEW c \in GoodConnections
  PROVE  /\ [c EXCEPT !.open = TRUE] \in GoodConnections
         /\ SameWriting(c, [c EXCEPT !.open = TRUE])
         /\ [c EXCEPT !.open = TRUE].open
         /\ [c EXCEPT !.open = TRUE].reads = c.reads
         /\ [c EXCEPT !.open = TRUE].is_paused = c.is_paused
BY DEF GoodConnections, TcpConnections, SameWriting

\* Forgetting the bytes that no handler will copy changes read_buf_ only.
LEMMA ForgetGood ==
  ASSUME NEW c \in GoodConnections
  PROVE  /\ Forget(c) \in GoodConnections
         /\ SameWriting(c, Forget(c))
         /\ Forget(c).open = c.open /\ Forget(c).reads = c.reads
         /\ Forget(c).is_paused = c.is_paused
<1> DEFINE none == <<>>
           d == [c EXCEPT !.read_buf = none]
<1>0. none \in Seq(Bytes) /\ Len(none) = 0
  OBVIOUS
<1> HIDE DEF none
<1>1. /\ c \in TcpConnections /\ c.reads \in Seq(Int) /\ c.read_buf \in Seq(Bytes)
      /\ \A k \in 1 .. Len(c.reads) : c.reads[k] \in -1 .. Len(c.read_buf)
      /\ c.is_writing <=> c.write_queue # <<>>
  BY DEF GoodConnections, TcpConnections
<1>2. /\ d \in TcpConnections /\ SameWriting(c, d) /\ d.open = c.open /\ d.reads = c.reads
      /\ d.is_paused = c.is_paused /\ d.read_buf = none
  BY <1>0, <1>1 DEF TcpConnections, SameWriting
<1> HIDE DEF d
<1>3. CASE \E k \in 1 .. Len(c.reads) : c.reads[k] > 0
  BY <1>3 DEF Forget, SameWriting
<1>4. CASE ~\E k \in 1 .. Len(c.reads) : c.reads[k] > 0
  <2>1. Forget(c) = d
    BY <1>4 DEF Forget, d, none
  <2>2. \A k \in 1 .. Len(d.reads) : d.reads[k] \in -1 .. Len(d.read_buf)
    BY <1>0, <1>1, <1>2, <1>4
  <2>3. d \in GoodConnections
    BY <1>1, <1>2, <2>2 DEF GoodConnections, SameWriting
  <2> QED
    BY <1>2, <2>1, <2>3
<1> QED
  BY <1>3, <1>4

\* What the handler of async_write changes.
LEMMA WrittenGood ==
  ASSUME NEW c \in GoodConnections, c.write_queue # <<>>
  PROVE  /\ Written(c) \in GoodConnections
         /\ SameReading(c, Written(c))
         /\ Written(c).write_queue = Tail(c.write_queue)
         /\ Written(c).pending_bytes = c.pending_bytes - Len(Head(c.write_queue))
<1> DEFINE d == Written(c)
           q == Tail(c.write_queue)
           n == c.pending_bytes - Len(Head(c.write_queue))
<1>1. /\ c \in TcpConnections /\ c.write_queue \in Seq(Seq(Bytes)) /\ c.pending_bytes \in Int
      /\ \A k \in 1 .. Len(c.reads) : c.reads[k] \in -1 .. Len(c.read_buf)
  BY DEF GoodConnections, TcpConnections
<1>2. q \in Seq(Seq(Bytes)) /\ n \in Int
  BY <1>1
<1>3. d = [c EXCEPT !.pending_bytes = n, !.warned = FALSE, !.write_queue = q, !.is_writing = q # <<>>]
  BY <1>1 DEF Written, do_write, TcpConnections
<1> HIDE DEF d, q, n
<1>4. /\ d \in TcpConnections /\ SameReading(c, d) /\ d.write_queue = q /\ d.pending_bytes = n
      /\ d.is_writing = (q # <<>>)
  BY <1>1, <1>2, <1>3 DEF TcpConnections, SameReading
<1>5. d \in GoodConnections
  BY <1>1, <1>4 DEF GoodConnections, SameReading
<1> QED
  BY <1>4, <1>5 DEF d, q, n

\* What send()'s lambda changes.
LEMMA SentGood ==
  ASSUME NEW c \in GoodConnections, NEW data \in Seq(Bytes)
  PROVE  /\ Sent(c, data)[1] \in GoodConnections /\ Sent(c, data)[2] \in BOOLEAN
         /\ SameReading(c, Sent(c, data)[1])
         /\ Sent(c, data)[1].write_queue = Append(c.write_queue, data)
         /\ Sent(c, data)[1].pending_bytes = c.pending_bytes + Len(data)
<1> DEFINE d == Sent(c, data)[1]
           q == Append(c.write_queue, data)
           n == c.pending_bytes + Len(data)
           warns == ~c.warned /\ n >= SEND_BUFFER_WARNING
           w == c.warned \/ warns
<1>1. /\ c \in TcpConnections /\ c.write_queue \in Seq(Seq(Bytes)) /\ c.pending_bytes \in Int
      /\ c.is_writing \in BOOLEAN /\ c.warned \in BOOLEAN
      /\ \A k \in 1 .. Len(c.reads) : c.reads[k] \in -1 .. Len(c.read_buf)
  BY DEF GoodConnections, TcpConnections
<1>2. q \in Seq(Seq(Bytes)) /\ q # <<>> /\ n \in Int
  BY <1>1
<1>3. d = [c EXCEPT !.pending_bytes = n, !.warned = w, !.write_queue = q, !.is_writing = TRUE]
  <2>1. CASE c.is_writing
    BY <1>1, <1>2, <2>1 DEF Sent, TcpConnections
  <2>2. CASE ~c.is_writing
    BY <1>1, <1>2, <2>2 DEF Sent, do_write, TcpConnections
  <2> QED
    BY <1>1, <2>1, <2>2
<1>4. warns \in BOOLEAN /\ w \in BOOLEAN /\ Sent(c, data)[2] = warns
  BY <1>1 DEF Sent, TcpConnections
<1> HIDE DEF d, q, n, warns, w
<1>5. /\ d \in TcpConnections /\ SameReading(c, d) /\ d.write_queue = q /\ d.pending_bytes = n
      /\ d.is_writing
  BY <1>1, <1>2, <1>3, <1>4 DEF TcpConnections, SameReading
<1>6. d \in GoodConnections
  BY <1>1, <1>2, <1>5 DEF GoodConnections, SameReading
<1> QED
  BY <1>4, <1>5, <1>6 DEF d, q, n

\* What close()'s lambda changes.
LEMMA ClosedGood ==
  ASSUME NEW c \in GoodConnections
  PROVE  /\ Closed(c) \in GoodConnections
         /\ SameWriting(c, Closed(c))
         /\ ~Closed(c).open /\ Closed(c).read_buf = c.read_buf
         /\ Closed(c).is_paused = c.is_paused /\ Len(Closed(c).reads) = Len(c.reads)
         /\ \A k \in 1 .. Len(c.reads) :
              Closed(c).reads[k] = IF c.reads[k] = 0 THEN -1 ELSE c.reads[k]
<1> DEFINE d == Closed(c)
           r == [k \in 1 .. Len(c.reads) |-> IF c.reads[k] = 0 THEN -1 ELSE c.reads[k]]
<1>1. /\ c \in TcpConnections /\ c.reads \in Seq(Int) /\ c.read_buf \in Seq(Bytes)
      /\ \A k \in 1 .. Len(c.reads) : c.reads[k] \in -1 .. Len(c.read_buf)
      /\ c.is_writing <=> c.write_queue # <<>>
  BY DEF GoodConnections, TcpConnections
<1>2. /\ r \in Seq(Int) /\ Len(r) = Len(c.reads)
      /\ \A k \in 1 .. Len(c.reads) : r[k] = IF c.reads[k] = 0 THEN -1 ELSE c.reads[k]
  <2>1. Len(c.reads) \in Nat /\ \A k \in 1 .. Len(c.reads) : c.reads[k] \in Int
    BY <1>1
  <2>2. \A k \in 1 .. Len(c.reads) : (IF c.reads[k] = 0 THEN -1 ELSE c.reads[k]) \in Int
    BY <2>1
  <2> QED
    BY <2>1, <2>2
<1>3. d = [c EXCEPT !.open = FALSE, !.reads = r]
  BY <1>1 DEF Closed, TcpConnections
<1> HIDE DEF d, r
<1>4. /\ d \in TcpConnections /\ SameWriting(c, d) /\ ~d.open /\ d.read_buf = c.read_buf
      /\ d.is_paused = c.is_paused /\ d.reads = r
  BY <1>1, <1>2, <1>3 DEF TcpConnections, SameWriting
<1>5. \A k \in 1 .. Len(r) : r[k] \in -1 .. Len(c.read_buf)
  BY SMTT(30), <1>1, <1>2
<1>6. d \in GoodConnections
  BY <1>1, <1>4, <1>5 DEF GoodConnections, SameWriting
<1> QED
  BY <1>2, <1>4, <1>6 DEF d

\* What resume()'s lambda changes.
LEMMA ResumedGood ==
  ASSUME NEW c \in GoodConnections
  PROVE  /\ Resumed(c) \in GoodConnections
         /\ SameWriting(c, Resumed(c))
         /\ Resumed(c).open = c.open /\ Resumed(c).read_buf = c.read_buf
         /\ ~Resumed(c).is_paused
         /\ Resumed(c).reads = IF c.is_paused THEN Append(c.reads, IF c.open THEN 0 ELSE -1)
                               ELSE c.reads
<1> DEFINE d == [c EXCEPT !.is_paused = FALSE]
<1>1. d \in GoodConnections /\ d.open = c.open /\ d.read_buf = c.read_buf /\ d.is_paused = FALSE
      /\ d.reads = c.reads /\ SameWriting(c, d)
  BY DEF GoodConnections, TcpConnections, SameWriting
<1> HIDE DEF d
<1>2. c.is_paused \in BOOLEAN
  BY DEF GoodConnections, TcpConnections
<1>3. Resumed(c) = IF c.is_paused THEN do_read(d) ELSE c
  BY DEF Resumed, d
<1> QED
  BY <1>1, <1>2, <1>3, do_readGood DEF SameWriting

\* What pause()'s lambda changes.
LEMMA PausedGood ==
  ASSUME NEW c \in GoodConnections
  PROVE  /\ [c EXCEPT !.is_paused = TRUE] \in GoodConnections
         /\ SameWriting(c, [c EXCEPT !.is_paused = TRUE])
         /\ [c EXCEPT !.is_paused = TRUE].open = c.open
         /\ [c EXCEPT !.is_paused = TRUE].reads = c.reads
         /\ [c EXCEPT !.is_paused = TRUE].read_buf = c.read_buf
         /\ [c EXCEPT !.is_paused = TRUE].is_paused
BY DEF GoodConnections, TcpConnections, SameWriting

\* What a write that fails changes.
LEMMA FailedGood ==
  ASSUME NEW c \in GoodConnections
  PROVE  /\ [c EXCEPT !.write_failed = TRUE] \in GoodConnections
         /\ SameReading(c, [c EXCEPT !.write_failed = TRUE])
         /\ [c EXCEPT !.write_failed = TRUE].write_queue = c.write_queue
         /\ [c EXCEPT !.write_failed = TRUE].pending_bytes = c.pending_bytes
BY DEF GoodConnections, TcpConnections, SameReading

-------------------------------------------------------------------------------
(* Types.                                                                  *)

\* The parts of TypeInv, each about what one action changes.
LEMMA EventTyped ==
  ASSUME NEW kind \in {"accept", "data", "close", "warning"}, NEW i \in Conns,
         NEW data \in Seq(Bytes), NEW m \in Seq(SocketEvents)
  PROVE  Append(m, SocketEvent(kind, i, data)) \in Seq(SocketEvents)
BY DEF SocketEvent, SocketEvents

\* A lambda that is posted.
LEMMA LambdaTyped ==
  ASSUME NEW op \in {"send", "close", "pause", "resume", "stop"}, NEW i \in Conns,
         NEW data \in Seq(Bytes), NEW q \in Seq(Lambdas)
  PROVE  Append(q, Lambda(op, i, data)) \in Seq(Lambdas)
BY DEF Lambda, Lambdas

\* The empty sequence is a sequence over every set.
LEMMA EmptyTyped == \A T : <<>> \in Seq(T)
OBVIOUS

\* TypeInv holds initially.
LEMMA InitType == Init => TypeInv
<1> SUFFICES ASSUME Init PROVE TypeInv
  OBVIOUS
<1>1. conn \in [Conns -> GoodConnections] /\ conn \in [Conns -> TcpConnections]
  BY NewConnectionGood DEF Init, GoodConnections
<1>2. /\ mailbox \in Seq(SocketEvents) /\ posted \in Seq(Lambdas)
      /\ calls \in [Conns -> Seq(Callbacks)] /\ back \in [Conns -> Seq(Bytes)]
      /\ wire \in [Conns -> Seq(Bytes)] /\ written \in [Conns -> Seq(Bytes)]
      /\ sent \in [Conns -> Nat]
  BY EmptyTyped DEF Init
<1>3. DOMAIN gate_conns = {} /\ socket_conns = {} /\ 0 \in 0 .. MaxCommands
  BY GateAssumption DEF Init
<1> QED
  BY <1>1, <1>2, <1>3 DEF Init, TypeInv, TypeOK, ListenerId

\* TypeInv is kept by every step.
LEMMA TypeStep == TypeInv /\ [Next]_vars => TypeInv'
<1> SUFFICES ASSUME TypeInv, [Next]_vars PROVE TypeInv'
  OBVIOUS
<1> USE DEF TypeInv
<1>c. conn' \in [Conns -> GoodConnections] => conn' \in [Conns -> TcpConnections]
  BY DEF GoodConnections
<1>1. CASE RunPosted
  <2> DEFINE l == Head(posted)
             c == conn[l.id]
  <2>1. l \in Lambdas /\ c \in GoodConnections /\ posted' \in Seq(Lambdas)
        /\ l.id \in Conns /\ l.data \in Seq(Bytes)
    <3>1. posted \in Seq(Lambdas) /\ posted # <<>> /\ posted' = Tail(posted)
      BY <1>1 DEF RunPosted, TypeOK
    <3>2. l \in Lambdas /\ posted' \in Seq(Lambdas)
      BY <3>1
    <3> HIDE DEF l
    <3> QED
      BY <3>2 DEF Lambdas
  <2> HIDE DEF l, c
  <2>2. mailbox' \in Seq(SocketEvents) /\ conn' \in [Conns -> GoodConnections]
        /\ acceptor' \in {"none", "waiting", "ended"} /\ overlap' \subseteq Conns
    <3>1. CASE /\ l.op = "send"
               /\ conn' = [conn EXCEPT ![l.id] = Sent(c, l.data)[1]]
               /\ mailbox' = IF Sent(c, l.data)[2]
                             THEN Append(mailbox, SocketEvent("warning", l.id, <<>>))
                             ELSE mailbox
               /\ UNCHANGED <<acceptor, overlap>>
      BY <2>1, <3>1, SentGood, EventTyped, EmptyTyped DEF TypeOK
    <3>2. CASE /\ l.op = "close" /\ conn' = [conn EXCEPT ![l.id] = Closed(c)]
               /\ UNCHANGED <<mailbox, acceptor, overlap>>
      BY <2>1, <3>2, ClosedGood DEF TypeOK
    <3>3. CASE /\ l.op = "pause" /\ conn' = [conn EXCEPT ![l.id].is_paused = TRUE]
               /\ UNCHANGED <<mailbox, acceptor, overlap>>
      BY <2>1, <3>3, PausedGood DEF TypeOK, c
    <3>4. CASE /\ l.op = "resume" /\ conn' = [conn EXCEPT ![l.id] = Resumed(c)]
               /\ overlap' \in {overlap \cup {l.id}, overlap}
               /\ UNCHANGED <<mailbox, acceptor>>
      BY <2>1, <3>4, ResumedGood DEF TypeOK
    <3>5. CASE acceptor' = "ended" /\ UNCHANGED <<conn, mailbox, overlap>>
      BY <3>5 DEF TypeOK
    <3> QED
      BY <1>1, <3>1, <3>2, <3>3, <3>4, <3>5 DEF RunPosted, l, c
  <2> QED
    BY <1>1, <1>c, <2>1, <2>2 DEF RunPosted, TypeOK, peerVars
<1>2. CASE HandleEvent
  <2> DEFINE ev == Head(mailbox)
             i == ev.id
  <2>1. ev \in SocketEvents /\ mailbox' \in Seq(SocketEvents)
    BY <1>2 DEF HandleEvent, TypeOK
  <2>2. i \in Conns /\ ev.data \in Seq(Bytes)
    <3> HIDE DEF ev
    <3> QED
      BY <2>1 DEF SocketEvents
  <2> HIDE DEF ev
  <2> DEFINE Good == /\ socket_conns' \subseteq Conns
                     /\ DOMAIN gate_conns' \subseteq Conns
                     /\ \A j \in DOMAIN gate_conns' : gate_conns'[j] \in Seq(Bytes)
                     /\ calls' \in [Conns -> Seq(Callbacks)]
  <2> HIDE DEF i
  <2>3. /\ calls \in [Conns -> Seq(Callbacks)] /\ socket_conns \subseteq Conns
        /\ DOMAIN gate_conns \subseteq Conns /\ \A j \in DOMAIN gate_conns : gate_conns[j] \in Seq(Bytes)
    BY DEF TypeOK
  <2>4. \A name \in {"connect", "message", "disconnect", "kicked"} : \A data \in Seq(Bytes) :
          Call(name, data) \in Callbacks
    BY DEF Call, Callbacks
  <2>e. Call("connect", <<>>) \in Callbacks /\ Call("disconnect", <<>>) \in Callbacks
    BY EmptyTyped DEF Call, Callbacks
  <2>5. ASSUME on_accept(i) PROVE Good
    <3>1. Append(calls[i], Call("connect", <<>>)) \in Seq(Callbacks)
      BY <2>2, <2>3, <2>e
    <3> QED
      BY <2>2, <2>3, <2>5, <3>1, EmptyTyped DEF on_accept
  <2>6. ASSUME on_data(i, ev.data) PROVE Good
    <3>1. CASE i \in socket_conns /\ i \in DOMAIN gate_conns
      <4> DEFINE f == lfilter(gate_conns[i], ev.data)
                 ms == [k \in 1 .. Len(f.msgs) |-> Call("message", f.msgs[k])]
      <4>1. f.msgs \in Seq(Seq(Bytes)) /\ f.remaining \in Seq(Bytes)
        <5>1. gate_conns[i] \o ev.data \in Seq(Bytes)
          BY <2>2, <2>3, <3>1
        <5> QED
          BY <5>1, FramesType DEF lfilter, Filtered
      <4> HIDE DEF f
      <4>2. ms \in Seq(Callbacks)
        <5>1. \A k \in 1 .. Len(f.msgs) : Call("message", f.msgs[k]) \in Callbacks
          BY <2>4, <4>1
        <5> QED
          BY <4>1, <5>1, Len(f.msgs) \in Nat
      <4> HIDE DEF ms
      <4>3. calls[i] \o ms \in Seq(Callbacks)
        BY <2>2, <2>3, <4>2
      <4>4. /\ gate_conns' = [gate_conns EXCEPT ![i] = f.remaining]
            /\ calls' = [calls EXCEPT ![i] = calls[i] \o ms] /\ socket_conns' = socket_conns
        BY <2>6, <3>1 DEF on_data, f, ms
      <4> QED
        BY <2>2, <2>3, <4>1, <4>3, <4>4
    <3>2. CASE ~(i \in socket_conns /\ i \in DOMAIN gate_conns)
      BY <2>3, <2>6, <3>2 DEF on_data
    <3> QED
      BY <3>1, <3>2
  <2>7. ASSUME on_close(i) PROVE Good
    <3>1. Append(calls[i], Call("disconnect", <<>>)) \in Seq(Callbacks)
      BY <2>2, <2>3, <2>e
    <3> QED
      BY <2>2, <2>3, <2>7, <3>1 DEF on_close, Restrict
  <2>8. ASSUME UNCHANGED <<socket_conns, gate_conns, calls>> PROVE Good
    BY <2>3, <2>8
  <2>9. Good
    BY <1>2, <2>5, <2>6, <2>7, <2>8 DEF HandleEvent, ev, i
  <2> QED
    BY <1>2, <2>1, <2>9 DEF HandleEvent, TypeOK, peerVars, ioVars
<1>3. CASE Open
  BY <1>3 DEF Open, TypeOK, peerVars, history, ListenerId
<1>4. CASE AcceptFails
  BY <1>4 DEF AcceptFails, TypeOK, peerVars, luaVars, history
<1>5. ASSUME NEW i \in Conns, Recv(i) PROVE TypeInv'
  <2> DEFINE c == conn[i]
  <2>1. /\ c \in TcpConnections /\ c.reads \in Seq(Int) /\ c.read_buf \in Seq(Bytes)
        /\ \A k \in 1 .. Len(c.reads) : c.reads[k] \in -1 .. Len(c.read_buf)
        /\ c.is_writing <=> c.write_queue # <<>>
        /\ wire[i] \in Seq(Bytes) /\ wire \in [Conns -> Seq(Bytes)]
    BY DEF GoodConnections, TcpConnections, TypeOK
  <2> HIDE DEF c
  <2>2. ASSUME NEW k \in 1 .. Len(c.reads), NEW n \in Int, NEW b \in Seq(Bytes),
               n \in -1 .. Len(b), Len(c.read_buf) <= Len(b)
        PROVE  [c EXCEPT !.reads[k] = n, !.read_buf = b] \in GoodConnections
    <3> DEFINE r == [c.reads EXCEPT ![k] = n]
               d == [c EXCEPT !.reads[k] = n, !.read_buf = b]
    <3>1. r \in Seq(Int) /\ Len(r) = Len(c.reads) /\ \A j \in 1 .. Len(r) : r[j] \in -1 .. Len(b)
      BY SMTT(30), <2>1, <2>2
    <3>2. d = [c EXCEPT !.reads = r, !.read_buf = b]
      BY <2>1 DEF TcpConnections
    <3> HIDE DEF r, d
    <3>3. /\ d \in TcpConnections /\ d.reads = r /\ d.read_buf = b
          /\ d.is_writing = c.is_writing /\ d.write_queue = c.write_queue
      BY <2>1, <3>1, <3>2 DEF TcpConnections
    <3>4. d \in GoodConnections
      BY <2>1, <3>1, <3>3 DEF GoodConnections
    <3> QED
      BY <3>4 DEF d
  <2>3. PICK k \in 1 .. Len(c.reads) :
         \/ \E n \in 1 .. ReadBufSize :
               /\ n <= Len(wire[i])
               /\ wire' = [wire EXCEPT ![i] = SubSeq(@, n + 1, Len(@))]
               /\ conn' = [conn EXCEPT
                    ![i].reads[k] = n,
                    ![i].read_buf = SubSeq(wire[i], 1, n) \o SubSeq(@, n + 1, Len(@))]
         \/ /\ conn' = [conn EXCEPT ![i].reads[k] = -1]
            /\ UNCHANGED wire
    BY <1>5 DEF Recv, c
  <2>4. wire' \in [Conns -> Seq(Bytes)] /\ conn' \in [Conns -> GoodConnections]
    <3>1. ASSUME NEW n \in 1 .. ReadBufSize, n <= Len(wire[i]),
                 wire' = [wire EXCEPT ![i] = SubSeq(@, n + 1, Len(@))],
                 conn' = [conn EXCEPT
                    ![i].reads[k] = n,
                    ![i].read_buf = SubSeq(wire[i], 1, n) \o SubSeq(@, n + 1, Len(@))]
          PROVE  wire' \in [Conns -> Seq(Bytes)] /\ conn' \in [Conns -> GoodConnections]
      <4> DEFINE x == SubSeq(wire[i], 1, n)
                 y == SubSeq(c.read_buf, n + 1, Len(c.read_buf))
      <4>1. n \in Nat /\ n > 0
        BY GateAssumption
      <4>2. x \in Seq(Bytes) /\ Len(x) = n
        BY SMTT(30), <2>1, <3>1, <4>1
      <4>3. y \in Seq(Bytes) /\ n + Len(y) >= Len(c.read_buf)
        BY <2>1, <4>1
      <4> HIDE DEF x, y
      <4>4. x \o y \in Seq(Bytes) /\ Len(x \o y) = n + Len(y) /\ Len(y) \in Nat
        BY <4>2, <4>3
      <4> DEFINE b == x \o y
      <4>5. b \in Seq(Bytes) /\ n \in -1 .. Len(b) /\ Len(c.read_buf) <= Len(b) /\ n \in Int
        BY <2>1, <4>1, <4>3, <4>4
      <4> HIDE DEF b
      <4>6. [c EXCEPT !.reads[k] = n, !.read_buf = b] \in GoodConnections
        BY <2>2, <4>5
      <4>7. conn' = [conn EXCEPT ![i] = [c EXCEPT !.reads[k] = n, !.read_buf = b]]
        BY <3>1 DEF b, x, y, c
      <4>8. SubSeq(wire[i], n + 1, Len(wire[i])) \in Seq(Bytes)
        BY <2>1, <4>1
      <4> QED
        BY <2>1, <3>1, <4>6, <4>7, <4>8
    <3>2. ASSUME conn' = [conn EXCEPT ![i].reads[k] = -1], UNCHANGED wire
          PROVE  wire' \in [Conns -> Seq(Bytes)] /\ conn' \in [Conns -> GoodConnections]
      <4>1. Len(c.read_buf) \in Nat /\ -1 \in -1 .. Len(c.read_buf)
        BY <2>1
      <4> DEFINE m == -1
      <4>m. m \in Int /\ m \in -1 .. Len(c.read_buf) /\ Len(c.read_buf) <= Len(c.read_buf)
        BY <4>1
      <4> HIDE DEF m
      <4>2. [c EXCEPT !.reads[k] = m, !.read_buf = c.read_buf] \in GoodConnections
        BY <2>1, <2>2, <4>m
      <4>3. [c EXCEPT !.reads[k] = m, !.read_buf = c.read_buf] = [c EXCEPT !.reads[k] = m]
        BY <2>1 DEF TcpConnections
      <4>4. conn' = [conn EXCEPT ![i] = [c EXCEPT !.reads[k] = m]]
        BY <3>2 DEF c, m
      <4> DEFINE d == [c EXCEPT !.reads[k] = m]
      <4>5. d \in GoodConnections /\ conn' = [conn EXCEPT ![i] = d]
        BY <4>2, <4>3, <4>4
      <4> HIDE DEF d
      <4> QED
        BY <2>1, <3>2, <4>5
    <3> QED
      BY <2>3, <3>1, <3>2
  <2> QED
    BY <1>5, <1>c, <2>4 DEF Recv, TypeOK, luaVars, history
<1>6. ASSUME NEW i \in Conns, ReadHandler(i) PROVE TypeInv'
  <2> DEFINE c == conn[i]
             n == Head(c.reads)
             rest == [c EXCEPT !.reads = Tail(@)]
  <2>1. /\ c \in TcpConnections /\ c.reads \in Seq(Int) /\ c.read_buf \in Seq(Bytes)
        /\ \A k \in 1 .. Len(c.reads) : c.reads[k] \in -1 .. Len(c.read_buf)
        /\ c.is_writing <=> c.write_queue # <<>>
        /\ c.reads # <<>>
    BY <1>6 DEF ReadHandler, GoodConnections, TcpConnections, TypeOK
  <2> HIDE DEF c
  <2>2. n \in -1 .. Len(c.read_buf) /\ Len(c.read_buf) \in Nat
    <3>1. n = c.reads[1] /\ 1 \in 1 .. Len(c.reads)
      BY <2>1
    <3> QED
      BY <2>1, <3>1
  <2>3. rest \in GoodConnections
    <3> DEFINE r == Tail(c.reads)
    <3>1. r \in Seq(Int) /\ \A k \in 1 .. Len(r) : r[k] \in -1 .. Len(c.read_buf)
      BY <2>1
    <3> HIDE DEF r
    <3>2. /\ rest \in TcpConnections /\ rest.reads = r /\ rest.read_buf = c.read_buf
          /\ rest.is_writing = c.is_writing /\ rest.write_queue = c.write_queue
      BY <2>1, <3>1 DEF TcpConnections, r
    <3> HIDE DEF rest
    <3> QED
      BY <2>1, <3>1, <3>2 DEF GoodConnections
  <2>4. Forget(do_read(rest)) \in GoodConnections
    BY <2>3, do_readGood, ForgetGood
  <2>5. n > 0 => SubSeq(c.read_buf, 1, n) \in Seq(Bytes)
    BY <2>1, <2>2
  <2>6. mailbox \in Seq(SocketEvents)
    BY DEF TypeOK
  <2> HIDE DEF n, rest
  <2>7. conn' \in [Conns -> GoodConnections] /\ mailbox' \in Seq(SocketEvents)
    <3>1. CASE /\ n = -1
               /\ mailbox' = Append(mailbox, SocketEvent("close", i, <<>>))
               /\ conn' = [conn EXCEPT ![i] = rest]
      BY <2>3, <2>6, <3>1, EventTyped, EmptyTyped
    <3>2. CASE /\ n > 0
               /\ mailbox' = Append(mailbox, SocketEvent("data", i, SubSeq(c.read_buf, 1, n)))
               /\ conn' = [conn EXCEPT ![i] = Forget(do_read(rest))]
      BY <2>4, <2>5, <2>6, <3>2, EventTyped
    <3> QED
      BY <1>6, <3>1, <3>2 DEF ReadHandler, c, n, rest
  <2> QED
    BY <1>6, <1>c, <2>7 DEF ReadHandler, TypeOK, peerVars, history
<1>7. ASSUME NEW i \in Conns, WriteHandler(i) PROVE TypeInv'
  <2> DEFINE c == conn[i]
             data == Head(c.write_queue)
  <2>1. /\ c \in GoodConnections /\ c.write_queue \in Seq(Seq(Bytes)) /\ c.write_queue # <<>>
        /\ mailbox \in Seq(SocketEvents) /\ back \in [Conns -> Seq(Bytes)]
    BY <1>7 DEF WriteHandler, GoodConnections, TcpConnections, TypeOK
  <2>2. data \in Seq(Bytes) /\ back[i] \o data \in Seq(Bytes)
    BY <2>1
  <2> HIDE DEF data
  <2>3. /\ conn' \in [Conns -> GoodConnections] /\ mailbox' \in Seq(SocketEvents)
        /\ back' \in [Conns -> Seq(Bytes)]
    <3>1. CASE /\ conn' = [conn EXCEPT ![i] = Written(c)]
               /\ back' = [back EXCEPT ![i] = IF peer[i] = "open" THEN @ \o data ELSE @]
               /\ UNCHANGED mailbox
      BY <2>1, <2>2, <3>1, WrittenGood
    <3>2. CASE /\ conn' = [conn EXCEPT ![i].write_failed = TRUE]
               /\ mailbox' = Append(mailbox, SocketEvent("close", i, <<>>))
               /\ UNCHANGED back
      BY <2>1, <3>2, FailedGood, EventTyped, EmptyTyped
    <3> QED
      BY <1>7, <3>1, <3>2 DEF WriteHandler, data
  <2> QED
    BY <1>7, <1>c, <2>3 DEF WriteHandler, TypeOK, history
<1>8. ASSUME NEW i \in Conns, Accept(i) PROVE TypeInv'
  <2> DEFINE c == conn[i]
             o == [c EXCEPT !.open = TRUE]
  <2>1. c \in GoodConnections /\ mailbox \in Seq(SocketEvents) /\ connections \subseteq Conns
    BY DEF TypeOK
  <2>2. o \in GoodConnections
    BY <2>1, OpenedGood
  <2> HIDE DEF o
  <2>3. do_read(o) \in GoodConnections
    BY <2>2, do_readGood
  <2>4. /\ conn' \in [Conns -> GoodConnections] /\ mailbox' \in Seq(SocketEvents)
        /\ connections' \subseteq Conns /\ terminated' \in BOOLEAN
    <3>1. CASE /\ conn' = [conn EXCEPT ![i] = do_read(o)]
               /\ connections' = connections \cup {i}
               /\ mailbox' = Append(mailbox, SocketEvent("accept", i, <<>>))
               /\ UNCHANGED terminated
      BY <2>1, <2>3, <3>1, EventTyped, EmptyTyped DEF TypeOK
    <3>2. CASE terminated' = TRUE /\ UNCHANGED <<conn, connections, mailbox>>
      BY <2>1, <3>2
    <3> QED
      BY <1>8, <3>1, <3>2 DEF Accept, o
  <2> QED
    BY <1>8, <1>c, <2>4 DEF Accept, TypeOK, history
<1>9. ASSUME NEW i \in Conns, Connect(i) PROVE TypeInv'
  BY <1>9 DEF Connect, TypeOK, ioVars, luaVars, history
<1>10. ASSUME NEW i \in Conns, PeerSend(i) PROVE TypeInv'
  <2>1. sent[i] \in Nat /\ sent[i] + 1 \in 1 .. Len(Script[i]) /\ wire[i] \in Seq(Bytes)
    BY SMTT(30), <1>10, GateAssumption DEF PeerSend, TypeOK
  <2>2. lpack(Script[i][sent[i] + 1]) \in Seq(Bytes)
    BY <2>1, GateAssumption, lpackType
  <2>3. wire[i] \o lpack(Script[i][sent[i] + 1]) \in Seq(Bytes)
    BY <2>1, <2>2
  <2> QED
    BY SMTT(30), <1>10, <2>1, <2>3 DEF PeerSend, TypeOK, ioVars, luaVars, history
<1>11. ASSUME NEW i \in Conns, NEW how \in {"fin", "reset"}, PeerClose(i, how) PROVE TypeInv'
  <2>1. (IF how = "reset" THEN <<>> ELSE wire[i]) \in Seq(Bytes)
    BY EmptyTyped DEF TypeOK
  <2> QED
    BY <1>11, <2>1 DEF PeerClose, TypeOK, ioVars, luaVars, history
<1>12. ASSUME NEW i \in Conns, NEW cmd \in {"KICK", "CLOSE"}, Kick(i, cmd) PROVE TypeInv'
  <2> DEFINE q == IF cmd = "CLOSE" THEN ldriver("send", i, <<>>) ELSE posted
  <2>1. /\ posted \in Seq(Lambdas) /\ calls \in [Conns -> Seq(Callbacks)]
        /\ socket_conns \subseteq Conns /\ connections \subseteq Conns /\ store \subseteq {ListenerId}
        /\ DOMAIN gate_conns \subseteq Conns /\ \A j \in DOMAIN gate_conns : gate_conns[j] \in Seq(Bytes)
        /\ commands \in 0 .. MaxCommands
    BY DEF TypeOK
  <2>2. q \in Seq(Lambdas)
    BY <2>1, LambdaTyped, EmptyTyped DEF ldriver
  <2>3. Append(q, Lambda("close", i, <<>>)) \in Seq(Lambdas) /\ Append(q, Lambda("stop", i, <<>>)) \in Seq(Lambdas)
    BY <2>2, LambdaTyped, EmptyTyped
  <2> HIDE DEF q
  <2>4. posted' \in Seq(Lambdas) /\ connections' \subseteq Conns /\ store' \subseteq {ListenerId}
        /\ socket_conns' \subseteq Conns
    <3>1. socket_close(i, q)
      BY <1>12 DEF Kick, q
    <3> QED
      BY <2>1, <2>2, <2>3, <3>1 DEF socket_close, lclose, lcloseSocket, close_connection
  <2>5. Call("kicked", <<>>) \in Callbacks
    BY EmptyTyped DEF Call, Callbacks
  <2>6. calls' \in [Conns -> Seq(Callbacks)]
    <3>1. Append(calls[i], Call("kicked", <<>>)) \in Seq(Callbacks)
      BY <2>1, <2>5
    <3> QED
      BY <1>12, <2>1, <3>1 DEF Kick
  <2>7. commands' \in 0 .. MaxCommands
    BY <1>12, <2>1, GateAssumption DEF Kick, Command
  <2>8. DOMAIN gate_conns' \subseteq Conns /\ \A j \in DOMAIN gate_conns' : gate_conns'[j] \in Seq(Bytes)
    BY <1>12, <2>1 DEF Kick, Restrict
  <2> QED
    BY <1>12, <2>4, <2>6, <2>7, <2>8 DEF Kick, TypeOK, peerVars
<1>13. ASSUME NEW i \in Conns, NEW data \in Replies, Write(i, data) PROVE TypeInv'
  <2>1. /\ posted \in Seq(Lambdas) /\ data \in Seq(Bytes) /\ commands \in 0 .. MaxCommands
        /\ written \in [Conns -> Seq(Bytes)]
    BY GateAssumption DEF TypeOK
  <2>2. posted' \in Seq(Lambdas)
    BY <1>13, <2>1, LambdaTyped DEF Write, ldriver
  <2>3. written' \in [Conns -> Seq(Bytes)]
    <3>1. written[i] \o data \in Seq(Bytes)
      BY <2>1
    <3> QED
      BY <1>13, <2>1, <3>1 DEF Write
  <2>4. commands' \in 0 .. MaxCommands
    BY <1>13, <2>1, GateAssumption DEF Write, Command
  <2> QED
    BY <1>13, <2>2, <2>3, <2>4 DEF Write, TypeOK, peerVars
<1>14. ASSUME NEW i \in Conns, NEW op \in {"pause", "resume"}, Flow(i, op) PROVE TypeInv'
  <2>1. posted \in Seq(Lambdas) /\ commands \in 0 .. MaxCommands
    BY DEF TypeOK
  <2>2. posted' \in Seq(Lambdas)
    BY <1>14, <2>1, LambdaTyped, EmptyTyped DEF Flow, ldriver
  <2>3. commands' \in 0 .. MaxCommands
    BY <1>14, <2>1, GateAssumption DEF Flow, Command
  <2> QED
    BY <1>14, <2>2, <2>3 DEF Flow, TypeOK, peerVars, history
<1>15. CASE UNCHANGED vars
  BY <1>15 DEF vars, peerVars, ioVars, luaVars, history, TypeOK
<1> QED
  BY <1>1, <1>2, <1>3, <1>4, <1>5, <1>6, <1>7, <1>8, <1>9, <1>10, <1>11, <1>12, <1>13,
     <1>14, <1>15 DEF Next

-------------------------------------------------------------------------------
(* Connections that were not accepted.                                     *)

\* What holds of a sequence and of one more member holds of both together.
LEMMA AppendAll ==
  ASSUME NEW T, NEW s \in Seq(T), NEW x \in T, NEW k \in 1 .. Len(Append(s, x))
  PROVE  \/ k \in 1 .. Len(s) /\ Append(s, x)[k] = s[k]
         \/ k = Len(s) + 1 /\ Append(s, x)[k] = x
OBVIOUS

\* What the members of a tail are.
LEMMA TailAll ==
  ASSUME NEW T, NEW s \in Seq(T), s # <<>>
  PROVE  /\ Len(Tail(s)) = Len(s) - 1 /\ Len(s) \in Nat /\ Head(s) = s[1] /\ 1 \in 1 .. Len(s)
         /\ \A k \in 1 .. Len(Tail(s)) : k + 1 \in 1 .. Len(s) /\ Tail(s)[k] = s[k + 1]
OBVIOUS

\* PhaseInv holds initially.
LEMMA InitPhase == Init => PhaseInv
BY DEF Init, PhaseInv

\* What PhaseInv says of a connection, and of the queues.
Untouched(i) ==
  /\ conn[i] = NewConnection
  /\ i \notin connections
  /\ calls[i] = <<>> /\ i \notin DOMAIN gate_conns
  /\ back[i] = <<>> /\ written[i] = <<>>
BoxPhase == \A k \in 1 .. Len(mailbox) : phase[mailbox[k].id] = "accepted"
PostedPhase ==
  \A k \in 1 .. Len(posted) : posted[k].op # "stop" => phase[posted[k].id] = "accepted"

\* PhaseInv is kept by every step.
LEMMA PhaseStep == TypeInv /\ PhaseInv /\ [Next]_vars => PhaseInv'
<1> SUFFICES ASSUME TypeInv, PhaseInv, [Next]_vars
             PROVE  (\A i \in Conns : phase[i] # "accepted" => Untouched(i))' /\ BoxPhase' /\ PostedPhase'
  BY DEF PhaseInv, Untouched, BoxPhase, PostedPhase
<1>i. \A i \in Conns : phase[i] # "accepted" => Untouched(i)
  BY DEF PhaseInv, Untouched
<1>b. BoxPhase /\ PostedPhase
  BY DEF PhaseInv, BoxPhase, PostedPhase
<1>t. /\ phase \in [Conns -> {"none", "backlog", "accepted"}]
      /\ mailbox \in Seq(SocketEvents) /\ posted \in Seq(Lambdas)
      /\ conn \in [Conns -> GoodConnections] /\ back \in [Conns -> Seq(Bytes)]
      /\ written \in [Conns -> Seq(Bytes)] /\ calls \in [Conns -> Seq(Callbacks)]
  BY DEF TypeInv, TypeOK
<1>n. \A k \in 1 .. Len(mailbox) : mailbox[k].id \in Conns
  <2>1. \A ev \in SocketEvents : ev.id \in Conns
    BY DEF SocketEvents
  <2>2. \A k \in 1 .. Len(mailbox) : mailbox[k] \in SocketEvents
    BY <1>t
  <2> QED
    BY <2>1, <2>2
<1>m. \A k \in 1 .. Len(posted) : posted[k].id \in Conns
  <2>1. \A l \in Lambdas : l.id \in Conns
    BY DEF Lambdas
  <2>2. \A k \in 1 .. Len(posted) : posted[k] \in Lambdas
    BY <1>t
  <2> QED
    BY <2>1, <2>2
<1>e. ASSUME NEW kind \in {"accept", "data", "close", "warning"}, NEW i \in Conns,
             NEW data \in Seq(Bytes), phase' = phase, phase[i] = "accepted",
             mailbox' = Append(mailbox, SocketEvent(kind, i, data))
      PROVE  BoxPhase'
  <2>1. SocketEvent(kind, i, data) \in SocketEvents /\ SocketEvent(kind, i, data).id = i
    BY DEF SocketEvent, SocketEvents
  <2> QED
    BY <1>b, <1>e, <1>t, <2>1 DEF BoxPhase
<1>l. ASSUME NEW q \in Seq(Lambdas), NEW op \in {"send", "close", "pause", "resume", "stop"},
             NEW i \in Conns, NEW data \in Seq(Bytes), op # "stop" => phase[i] = "accepted",
             \A k \in 1 .. Len(q) : q[k].op # "stop" => phase[q[k].id] = "accepted"
      PROVE  /\ Append(q, Lambda(op, i, data)) \in Seq(Lambdas)
             /\ \A k \in 1 .. Len(Append(q, Lambda(op, i, data))) :
                  Append(q, Lambda(op, i, data))[k].op # "stop" =>
                    phase[Append(q, Lambda(op, i, data))[k].id] = "accepted"
  <2>1. /\ Lambda(op, i, data) \in Lambdas /\ Lambda(op, i, data).id = i
        /\ Lambda(op, i, data).op = op
    BY DEF Lambda, Lambdas
  <2> QED
    BY <1>l, <2>1
<1>1. CASE RunPosted
  <2> DEFINE l == Head(posted)
  <2>1. /\ posted # <<>> /\ posted' = Tail(posted) /\ phase' = phase
        /\ UNCHANGED <<back, written, connections, calls, gate_conns>>
    BY <1>1 DEF RunPosted, peerVars
  <2>2. l \in Lambdas /\ l.id \in Conns /\ l.data \in Seq(Bytes) /\ (l.op # "stop" => phase[l.id] = "accepted")
    <3>1. l = posted[1] /\ 1 \in 1 .. Len(posted) /\ posted[1] \in Lambdas
      BY <1>t, <2>1
    <3> QED
      BY <1>b, <3>1 DEF PostedPhase, Lambdas
  <2>3. PostedPhase'
    BY <1>b, <1>t, <2>1, TailAll DEF PostedPhase
  <2> HIDE DEF l
  <2>4. \A i \in Conns : conn'[i] = conn[i] \/ (i = l.id /\ phase[i] = "accepted")
    BY <1>1, <1>t, <2>2 DEF RunPosted, l
  <2>5. BoxPhase'
    <3>1. CASE mailbox' = mailbox
      BY <1>b, <2>1, <3>1 DEF BoxPhase
    <3>2. CASE mailbox' # mailbox
      <4>1. l.op = "send" /\ mailbox' = Append(mailbox, SocketEvent("warning", l.id, <<>>))
        BY <1>1, <3>2 DEF RunPosted, l
      <4> QED
        BY <1>e, <2>1, <2>2, <4>1, EmptyTyped
    <3> QED
      BY <3>1, <3>2
  <2> QED
    BY <1>i, <2>1, <2>3, <2>4, <2>5 DEF Untouched
<1>2. CASE HandleEvent
  <2> DEFINE ev == Head(mailbox)
             i == ev.id
  <2>1. /\ mailbox # <<>> /\ mailbox' = Tail(mailbox)
        /\ UNCHANGED <<phase, conn, posted, connections, back, written>>
    BY <1>2 DEF HandleEvent, peerVars, ioVars
  <2>2. phase[i] = "accepted" /\ i \in Conns
    <3>1. ev = mailbox[1] /\ 1 \in 1 .. Len(mailbox) /\ mailbox[1] \in SocketEvents
      BY <1>t, <2>1
    <3> QED
      BY <1>b, <3>1 DEF BoxPhase, SocketEvents
  <2>3. BoxPhase'
    BY <1>b, <1>t, <2>1, TailAll DEF BoxPhase
  <2>4. \A j \in Conns : j # i => calls'[j] = calls[j] /\ (j \in DOMAIN gate_conns' => j \in DOMAIN gate_conns)
    <3> HIDE DEF i, ev
    <3>1. CASE on_accept(i)
      BY <1>t, <3>1 DEF on_accept
    <3>2. CASE on_data(i, ev.data)
      BY <1>t, <3>2 DEF on_data
    <3>3. CASE on_close(i)
      BY <1>t, <3>3 DEF on_close, Restrict
    <3>4. CASE UNCHANGED <<socket_conns, gate_conns, calls>>
      BY <3>4
    <3> QED
      BY <1>2, <3>1, <3>2, <3>3, <3>4 DEF HandleEvent, i, ev
  <2> HIDE DEF i, ev
  <2>5. PostedPhase'
    BY <1>b, <2>1 DEF PostedPhase
  <2> QED
    BY <1>i, <2>1, <2>2, <2>3, <2>4, <2>5 DEF Untouched
<1>3. CASE Open
  BY <1>3, <1>i, <1>b DEF Open, peerVars, history, Untouched, BoxPhase, PostedPhase
<1>4. CASE AcceptFails
  BY <1>4, <1>i, <1>b DEF AcceptFails, peerVars, luaVars, history, Untouched, BoxPhase, PostedPhase
<1>5. ASSUME NEW i \in Conns, Recv(i)
      PROVE  (\A j \in Conns : phase[j] # "accepted" => Untouched(j))' /\ BoxPhase' /\ PostedPhase'
  <2>1. phase[i] = "accepted"
    BY <1>5, <1>i, NewConnectionGood DEF Recv, Untouched
  <2>2. \A j \in Conns : conn'[j] = conn[j] \/ j = i
    BY <1>5, <1>t DEF Recv
  <2> QED
    BY <1>5, <1>i, <1>b, <2>1, <2>2 DEF Recv, luaVars, history, Untouched, BoxPhase, PostedPhase
<1>6. ASSUME NEW i \in Conns, ReadHandler(i)
      PROVE  (\A j \in Conns : phase[j] # "accepted" => Untouched(j))' /\ BoxPhase' /\ PostedPhase'
  <2>1. phase[i] = "accepted"
    BY <1>6, <1>i, NewConnectionGood DEF ReadHandler, Untouched
  <2>2. /\ \A j \in Conns : conn'[j] = conn[j] \/ j = i
        /\ UNCHANGED <<peerVars, connections, posted, gate_conns, history>>
    BY <1>6, <1>t DEF ReadHandler
  <2>3. BoxPhase'
    <3>1. ASSUME Head(conn[i].reads) > 0 PROVE SubSeq(conn[i].read_buf, 1, Head(conn[i].reads)) \in Seq(Bytes)
      <4> DEFINE c == conn[i]
      <4>1. c \in GoodConnections
        BY <1>t
      <4> HIDE DEF c
      <4>2. c.reads \in Seq(Int) /\ c.read_buf \in Seq(Bytes)
            /\ \A k \in 1 .. Len(c.reads) : c.reads[k] \in -1 .. Len(c.read_buf)
        BY <4>1 DEF GoodConnections, TcpConnections
      <4>3. c.reads # <<>>
        BY <1>6 DEF ReadHandler, c
      <4>4. Head(c.reads) = c.reads[1] /\ 1 \in 1 .. Len(c.reads) /\ Len(c.read_buf) \in Nat
        BY <4>2, <4>3
      <4>5. Head(c.reads) \in -1 .. Len(c.read_buf)
        BY <4>2, <4>4
      <4>6. Head(c.reads) > 0
        BY <3>1 DEF c
      <4>7. SubSeq(c.read_buf, 1, Head(c.reads)) \in Seq(Bytes)
        BY <4>2, <4>4, <4>5, <4>6
      <4> QED
        BY <4>7 DEF c
    <3>2. CASE mailbox' = Append(mailbox, SocketEvent("close", i, <<>>))
      BY <1>e, <2>1, <2>2, <3>2, EmptyTyped DEF peerVars
    <3>3. CASE /\ Head(conn[i].reads) > 0
               /\ mailbox' = Append(mailbox, SocketEvent("data", i, SubSeq(conn[i].read_buf, 1, Head(conn[i].reads))))
      BY <1>e, <2>1, <2>2, <3>1, <3>3 DEF peerVars
    <3> QED
      BY <1>6, <3>2, <3>3 DEF ReadHandler
  <2> QED
    BY <1>i, <1>b, <2>1, <2>2, <2>3 DEF peerVars, history, Untouched, PostedPhase
<1>7. ASSUME NEW i \in Conns, WriteHandler(i)
      PROVE  (\A j \in Conns : phase[j] # "accepted" => Untouched(j))' /\ BoxPhase' /\ PostedPhase'
  <2>1. phase[i] = "accepted"
    BY <1>7, <1>i, NewConnectionGood DEF WriteHandler, Untouched
  <2>2. /\ \A j \in Conns : j # i => conn'[j] = conn[j] /\ back'[j] = back[j]
        /\ UNCHANGED <<phase, connections, posted, gate_conns, history>>
    BY <1>7, <1>t DEF WriteHandler
  <2>3. BoxPhase'
    <3>1. CASE UNCHANGED mailbox
      BY <1>b, <2>2, <3>1 DEF BoxPhase
    <3>2. CASE mailbox' = Append(mailbox, SocketEvent("close", i, <<>>))
      BY <1>e, <2>1, <2>2, <3>2, EmptyTyped
    <3> QED
      BY <1>7, <3>1, <3>2 DEF WriteHandler
  <2> QED
    BY <1>i, <1>b, <2>1, <2>2, <2>3 DEF history, Untouched, PostedPhase
<1>8. ASSUME NEW i \in Conns, Accept(i)
      PROVE  (\A j \in Conns : phase[j] # "accepted" => Untouched(j))' /\ BoxPhase' /\ PostedPhase'
  <2>1. /\ phase' = [phase EXCEPT ![i] = "accepted"]
        /\ \A j \in Conns : j # i => conn'[j] = conn[j] /\ (j \in connections' => j \in connections)
        /\ UNCHANGED <<posted, back, gate_conns, history>>
    BY <1>8, <1>t DEF Accept
  <2>2. BoxPhase'
    <3>1. CASE UNCHANGED mailbox
      BY <1>b, <1>n, <1>t, <2>1, <3>1 DEF BoxPhase
    <3>2. CASE mailbox' = Append(mailbox, SocketEvent("accept", i, <<>>))
      <4>1. SocketEvent("accept", i, <<>>) \in SocketEvents /\ SocketEvent("accept", i, <<>>).id = i
        BY EmptyTyped DEF SocketEvent, SocketEvents
      <4> QED
        BY <1>b, <1>n, <1>t, <2>1, <3>2, <4>1 DEF BoxPhase
    <3> QED
      BY <1>8, <3>1, <3>2 DEF Accept
  <2>3. PostedPhase'
    BY <1>b, <1>m, <1>t, <2>1 DEF PostedPhase
  <2> QED
    BY <1>i, <1>t, <2>1, <2>2, <2>3 DEF history, Untouched
<1>9. ASSUME NEW i \in Conns, Connect(i)
      PROVE  (\A j \in Conns : phase[j] # "accepted" => Untouched(j))' /\ BoxPhase' /\ PostedPhase'
  <2>1. /\ phase[i] # "accepted" /\ phase' = [phase EXCEPT ![i] = "backlog"]
        /\ UNCHANGED <<conn, connections, posted, mailbox, gate_conns, calls, back, written>>
    BY <1>9 DEF Connect, ioVars, luaVars, history
  <2>2. BoxPhase' /\ PostedPhase'
    BY <1>b, <1>m, <1>n, <1>t, <2>1 DEF BoxPhase, PostedPhase
  <2> QED
    BY <1>i, <1>t, <2>1, <2>2 DEF Untouched
<1>10. ASSUME NEW i \in Conns, PeerSend(i)
      PROVE  (\A j \in Conns : phase[j] # "accepted" => Untouched(j))' /\ BoxPhase' /\ PostedPhase'
  BY <1>10, <1>i, <1>b DEF PeerSend, ioVars, luaVars, history, Untouched, BoxPhase, PostedPhase
<1>11. ASSUME NEW i \in Conns, NEW how \in {"fin", "reset"}, PeerClose(i, how)
      PROVE  (\A j \in Conns : phase[j] # "accepted" => Untouched(j))' /\ BoxPhase' /\ PostedPhase'
  BY <1>11, <1>i, <1>b DEF PeerClose, ioVars, luaVars, history, Untouched, BoxPhase, PostedPhase
<1>d. ASSUME NEW i \in Conns, NEW op \in {"send", "pause", "resume"}, NEW data \in Seq(Bytes), i \in Known
      PROVE  /\ phase[i] = "accepted" /\ ldriver(op, i, data) \in Seq(Lambdas)
             /\ \A k \in 1 .. Len(ldriver(op, i, data)) : ldriver(op, i, data)[k].op # "stop" =>
                  phase[ldriver(op, i, data)[k].id] = "accepted"
  <2>1. phase[i] = "accepted"
    BY <1>d, <1>i DEF Known, Untouched
  <2>2. CASE ldriver(op, i, data) = posted
    BY <1>b, <1>t, <2>1, <2>2 DEF PostedPhase
  <2>3. CASE ldriver(op, i, data) = Append(posted, Lambda(op, i, data))
    BY <1>b, <1>t, <1>l, <2>1, <2>3 DEF PostedPhase
  <2> QED
    BY <2>2, <2>3 DEF ldriver
<1>12. ASSUME NEW i \in Conns, NEW cmd \in {"KICK", "CLOSE"}, Kick(i, cmd)
      PROVE  (\A j \in Conns : phase[j] # "accepted" => Untouched(j))' /\ BoxPhase' /\ PostedPhase'
  <2> DEFINE q == IF cmd = "CLOSE" THEN ldriver("send", i, <<>>) ELSE posted
  <2>1. /\ i \in Known /\ socket_close(i, q)
        /\ gate_conns' = Restrict(gate_conns, DOMAIN gate_conns \ {i})
        /\ \A j \in Conns : j # i => calls'[j] = calls[j]
        /\ UNCHANGED <<peerVars, conn, mailbox, written>>
    BY <1>12, <1>t DEF Kick, Command
  <2>2. phase[i] = "accepted" /\ q \in Seq(Lambdas)
        /\ \A k \in 1 .. Len(q) : q[k].op # "stop" => phase[q[k].id] = "accepted"
    <3>1. CASE cmd = "CLOSE"
      BY ZenonT(60), <1>d, <2>1, <3>1, EmptyTyped
    <3>2. CASE cmd # "CLOSE"
      BY <1>b, <1>t, <1>i, <2>1, <3>2 DEF PostedPhase, Known, Untouched
    <3> QED
      BY <3>1, <3>2
  <2> HIDE DEF q
  <2>3. connections' \subseteq connections
        /\ posted' \in {q, Append(q, Lambda("close", i, <<>>)), Append(q, Lambda("stop", i, <<>>))}
    BY <2>1 DEF socket_close, lclose, lcloseSocket, close_connection
  <2>4. PostedPhase'
    <3>1. \A k \in 1 .. Len(posted') : posted'[k].op # "stop" => phase[posted'[k].id] = "accepted"
      <4> DEFINE none == <<>>
      <4>n. none \in Seq(Bytes)
        OBVIOUS
      <4>h. posted' \in {q, Append(q, Lambda("close", i, none)), Append(q, Lambda("stop", i, none))}
        BY <2>3
      <4> HIDE DEF none
      <4>1. CASE posted' = q
        BY <2>2, <4>1
      <4>2. CASE posted' = Append(q, Lambda("close", i, none))
        BY <1>l, <2>2, <4>2, <4>n
      <4>3. CASE posted' = Append(q, Lambda("stop", i, none))
        BY <1>l, <2>2, <4>3, <4>n
      <4> QED
        BY <4>h, <4>1, <4>2, <4>3
    <3> QED
      BY <2>1, <3>1 DEF PostedPhase, peerVars
  <2> QED
    BY <1>i, <1>b, <2>1, <2>2, <2>3, <2>4 DEF peerVars, Untouched, BoxPhase, Restrict
<1>13. ASSUME NEW i \in Conns, NEW data \in Replies, Write(i, data)
      PROVE  (\A j \in Conns : phase[j] # "accepted" => Untouched(j))' /\ BoxPhase' /\ PostedPhase'
  <2>1. /\ i \in Known /\ posted' = ldriver("send", i, data) /\ data \in Seq(Bytes)
        /\ \A j \in Conns : j # i => written'[j] = written[j]
        /\ UNCHANGED <<peerVars, conn, mailbox, calls, connections, gate_conns>>
    BY <1>13, <1>t, GateAssumption DEF Write, Command
  <2>2. phase[i] = "accepted" /\ PostedPhase'
    BY <1>d, <2>1 DEF PostedPhase, peerVars
  <2> QED
    BY <1>i, <1>b, <2>1, <2>2 DEF peerVars, Untouched, BoxPhase
<1>14. ASSUME NEW i \in Conns, NEW op \in {"pause", "resume"}, Flow(i, op)
      PROVE  (\A j \in Conns : phase[j] # "accepted" => Untouched(j))' /\ BoxPhase' /\ PostedPhase'
  <2>1. /\ i \in Known /\ posted' = ldriver(op, i, <<>>)
        /\ UNCHANGED <<peerVars, conn, mailbox, written, calls, connections, gate_conns>>
    BY <1>14, <1>t DEF Flow, Command, history
  <2> DEFINE none == <<>>
  <2>n. none \in Seq(Bytes) /\ op \in {"send", "pause", "resume"} /\ posted' = ldriver(op, i, none)
    BY <2>1
  <2> HIDE DEF none
  <2>2. phase[i] = "accepted" /\ PostedPhase'
    BY <1>d, <2>1, <2>n DEF PostedPhase, peerVars
  <2> QED
    BY <1>i, <1>b, <2>1, <2>2 DEF peerVars, Untouched, BoxPhase
<1>15. CASE UNCHANGED vars
  BY <1>15, <1>i, <1>b DEF vars, peerVars, ioVars, luaVars, history, Untouched, BoxPhase, PostedPhase
<1> QED
  BY <1>1, <1>2, <1>3, <1>4, <1>5, <1>6, <1>7, <1>8, <1>9, <1>10, <1>11, <1>12, <1>13,
     <1>14, <1>15 DEF Next

-------------------------------------------------------------------------------
(* The order of the callbacks.                                             *)

\* What OrderInv says of the callbacks cs of a connection, and of those of a connection
\* that the gate has.
Sound(cs) ==
  \A k \in 1 .. Len(cs) : /\ cs[k].name = "connect" <=> k = 1
                          /\ cs[k].name \in {"disconnect", "kicked"} => k = Len(cs)
Alive(cs) ==
  /\ Sound(cs) /\ cs # <<>>
  /\ \A k \in 1 .. Len(cs) : cs[k].name \notin {"disconnect", "kicked"}

\* Before the first callback.
LEMMA SoundEmpty == Sound(<<>>)
BY DEF Sound, Alive

\* disconnect, or the user's close, ends the callbacks of a connection.
LEMMA SoundEnd ==
  ASSUME NEW cs \in Seq(Callbacks), NEW x \in Callbacks, x.name \in {"disconnect", "kicked"},
         Alive(cs)
  PROVE  Sound(Append(cs, x))
<1>1. Len(cs) \in Nat /\ Len(cs) > 0
  BY DEF Sound, Alive
<1>2. Len(Append(cs, x)) = Len(cs) + 1
  OBVIOUS
<1>3. ASSUME NEW k \in 1 .. Len(Append(cs, x))
      PROVE  /\ Append(cs, x)[k].name = "connect" <=> k = 1
             /\ Append(cs, x)[k].name \in {"disconnect", "kicked"} => k = Len(Append(cs, x))
  <2>1. CASE k \in 1 .. Len(cs) /\ Append(cs, x)[k] = cs[k]
    BY <1>1, <2>1 DEF Sound, Alive
  <2>2. CASE k = Len(cs) + 1 /\ Append(cs, x)[k] = x
    BY <1>1, <1>2, <2>2
  <2> QED
    BY <2>1, <2>2, AppendAll
<1> QED
  BY <1>3 DEF Sound, Alive

\* connect begins them.
LEMMA SoundConnect ==
  ASSUME NEW x \in Callbacks, x.name = "connect"
  PROVE  Alive(Append(<<>>, x))
<1>1. Append(<<>>, x) = <<x>>
  OBVIOUS
<1> QED
  BY <1>1 DEF Sound, Alive

\* Messages come in between.
LEMMA SoundMessages ==
  ASSUME NEW cs \in Seq(Callbacks), NEW ms \in Seq(Callbacks), Alive(cs),
         \A k \in 1 .. Len(ms) : ms[k].name = "message"
  PROVE  Alive(cs \o ms)
<1>1. Len(cs) \in Nat /\ Len(cs) > 0 /\ Len(ms) \in Nat
  BY DEF Sound, Alive
<1>2. cs \o ms \in Seq(Callbacks) /\ Len(cs \o ms) = Len(cs) + Len(ms)
  OBVIOUS
<1>3. ASSUME NEW k \in 1 .. Len(cs \o ms)
      PROVE  /\ (cs \o ms)[k].name = "connect" <=> k = 1
             /\ (cs \o ms)[k].name \notin {"disconnect", "kicked"}
  <2>1. CASE k <= Len(cs)
    <3>1. k \in 1 .. Len(cs) /\ (cs \o ms)[k] = cs[k]
      BY <1>1, <2>1
    <3> QED
      BY <3>1 DEF Sound, Alive
  <2>2. CASE ~(k <= Len(cs))
    <3>1. k - Len(cs) \in 1 .. Len(ms) /\ (cs \o ms)[k] = ms[k - Len(cs)] /\ k # 1
      BY <1>1, <1>2, <2>2
    <3> QED
      BY <3>1
  <2> QED
    BY <2>1, <2>2
<1>4. cs \o ms # <<>>
  BY <1>1, <1>2, EmptySeq
<1> QED
  BY <1>3, <1>4 DEF Sound, Alive

CallsInv ==
  /\ socket_conns = DOMAIN gate_conns
  /\ \A i \in Conns : Sound(calls[i]) /\ (i \in DOMAIN gate_conns => Alive(calls[i]))
BoxOrder ==
  \A q \in 1 .. Len(mailbox) : mailbox[q].kind = "accept" =>
       /\ calls[mailbox[q].id] = <<>>
       /\ \A p \in 1 .. q - 1 :
            mailbox[p].kind = "accept" => mailbox[p].id # mailbox[q].id

\* The order of the callbacks holds initially.
LEMMA InitOrder == Init => CallsInv /\ BoxOrder
<1> SUFFICES ASSUME Init PROVE CallsInv /\ BoxOrder
  OBVIOUS
<1>1. DOMAIN gate_conns = {}
  BY DEF Init
<1> QED
  BY <1>1, SoundEmpty DEF Init, CallsInv, BoxOrder

\* The order of the callbacks and of the accept events is kept by every step.
LEMMA OrderStep == TypeInv /\ PhaseInv /\ CallsInv /\ BoxOrder /\ [Next]_vars => CallsInv' /\ BoxOrder'
<1> SUFFICES ASSUME TypeInv, PhaseInv, CallsInv, BoxOrder, [Next]_vars PROVE CallsInv' /\ BoxOrder'
  OBVIOUS
<1>t. /\ mailbox \in Seq(SocketEvents) /\ calls \in [Conns -> Seq(Callbacks)]
      /\ DOMAIN gate_conns \subseteq Conns /\ \A j \in DOMAIN gate_conns : gate_conns[j] \in Seq(Bytes)
  BY DEF TypeInv, TypeOK
<1>n. \A k \in 1 .. Len(mailbox) : mailbox[k] \in SocketEvents /\ mailbox[k].id \in Conns
  <2>1. \A ev \in SocketEvents : ev.id \in Conns
    BY DEF SocketEvents
  <2>2. \A k \in 1 .. Len(mailbox) : mailbox[k] \in SocketEvents
    BY <1>t
  <2> QED
    BY <2>1, <2>2
<1>s. ASSUME UNCHANGED <<calls, gate_conns, socket_conns>> PROVE CallsInv'
  BY <1>s DEF CallsInv
<1>b. ASSUME UNCHANGED <<calls, mailbox>> PROVE BoxOrder'
  BY <1>b DEF BoxOrder
<1>e. ASSUME NEW ev, ev.kind # "accept", mailbox' = Append(mailbox, ev), calls' = calls
      PROVE  BoxOrder'
  <2>1. \A k \in 1 .. Len(mailbox) : mailbox'[k] = mailbox[k]
    BY <1>t, <1>e
  <2>2. Len(mailbox') = Len(mailbox) + 1 /\ Len(mailbox) \in Nat /\ mailbox'[Len(mailbox) + 1] = ev
    BY <1>t, <1>e
  <2> SUFFICES ASSUME NEW q \in 1 .. Len(mailbox'), mailbox'[q].kind = "accept"
               PROVE  /\ calls[mailbox'[q].id] = <<>>
                      /\ \A p \in 1 .. q - 1 :
                           mailbox'[p].kind = "accept" => mailbox'[p].id # mailbox'[q].id
    BY <1>e DEF BoxOrder
  <2>3. q \in 1 .. Len(mailbox)
    BY <1>e, <2>2
  <2>4. \A p \in 1 .. q - 1 : p \in 1 .. Len(mailbox)
    BY <2>2, <2>3
  <2> QED
    BY <2>1, <2>3, <2>4 DEF BoxOrder
<1>1. CASE RunPosted
  <2>1. CASE mailbox' = mailbox
    BY <1>1, <1>s, <1>b, <2>1 DEF RunPosted
  <2>2. CASE mailbox' # mailbox
    <3>1. mailbox' = Append(mailbox, SocketEvent("warning", Head(posted).id, <<>>))
      BY <1>1, <2>2 DEF RunPosted
    <3>2. SocketEvent("warning", Head(posted).id, <<>>).kind # "accept"
      BY DEF SocketEvent
    <3> QED
      BY <1>1, <1>s, <1>e, <3>1, <3>2 DEF RunPosted
  <2> QED
    BY <2>1, <2>2
<1>2. CASE HandleEvent
  <2> DEFINE ev == Head(mailbox)
             i == ev.id
  <2>1. mailbox # <<>> /\ mailbox' = Tail(mailbox)
    BY <1>2 DEF HandleEvent
  <2>2. /\ ev = mailbox[1] /\ 1 \in 1 .. Len(mailbox) /\ i \in Conns /\ ev.data \in Seq(Bytes)
        /\ Len(mailbox') = Len(mailbox) - 1 /\ Len(mailbox) \in Nat
        /\ \A k \in 1 .. Len(mailbox') : k + 1 \in 1 .. Len(mailbox) /\ mailbox'[k] = mailbox[k + 1]
    <3>1. ev = mailbox[1] /\ 1 \in 1 .. Len(mailbox) /\ mailbox[1] \in SocketEvents
      BY <1>t, <2>1
    <3>2. i \in Conns /\ ev.data \in Seq(Bytes)
      BY <3>1 DEF SocketEvents
    <3> HIDE DEF ev, i
    <3> QED
      BY <1>t, <2>1, <3>1, <3>2, TailAll
  <2> HIDE DEF ev, i
  <2>3. ASSUME \A j \in Conns : calls[j] = <<>> => calls'[j] = <<>> \/ (j = i /\ ev.kind = "accept")
        PROVE  BoxOrder'
    <3> SUFFICES ASSUME NEW q \in 1 .. Len(mailbox'), mailbox'[q].kind = "accept"
                 PROVE  /\ calls'[mailbox'[q].id] = <<>>
                        /\ \A p \in 1 .. q - 1 :
                             mailbox'[p].kind = "accept" => mailbox'[p].id # mailbox'[q].id
      BY DEF BoxOrder
    <3>1. q + 1 \in 1 .. Len(mailbox) /\ mailbox'[q] = mailbox[q + 1] /\ mailbox[q + 1].kind = "accept"
      BY <2>2
    <3>2. /\ calls[mailbox[q + 1].id] = <<>>
          /\ \A p \in 1 .. q + 1 - 1 : mailbox[p].kind = "accept" => mailbox[p].id # mailbox[q + 1].id
      BY <3>1 DEF BoxOrder
    <3>3. mailbox[1].kind = "accept" => mailbox[1].id # mailbox[q + 1].id
      BY <2>2, <3>2
    <3>4. calls'[mailbox[q + 1].id] = <<>>
      BY <1>n, <2>2, <2>3, <3>1, <3>2, <3>3 DEF i
    <3>5. \A p \in 1 .. q - 1 : p + 1 \in 1 .. q + 1 - 1 /\ p \in 1 .. Len(mailbox')
      BY <2>2
    <3> QED
      BY <2>2, <3>1, <3>2, <3>4, <3>5
  <2>4. CASE ev.kind = "accept" /\ on_accept(i)
    <3>1. calls[i] = <<>>
      BY <2>2, <2>4 DEF BoxOrder, i
    <3>2. Call("connect", <<>>) \in Callbacks /\ Call("connect", <<>>).name = "connect"
      BY EmptyTyped DEF Call, Callbacks
    <3>3. Alive(Append(calls[i], Call("connect", <<>>)))
      BY <3>1, <3>2, SoundConnect
    <3>4. /\ calls' = [calls EXCEPT ![i] = Append(calls[i], Call("connect", <<>>))]
          /\ DOMAIN gate_conns' = DOMAIN gate_conns \cup {i} /\ socket_conns' = socket_conns \cup {i}
      BY <2>4 DEF on_accept
    <3>5. CallsInv'
      BY <1>t, <2>2, <3>3, <3>4 DEF CallsInv, Alive
    <3>6. \A j \in Conns : calls[j] = <<>> => calls'[j] = <<>> \/ (j = i /\ ev.kind = "accept")
      BY <1>t, <2>4, <3>4
    <3> QED
      BY <2>3, <3>5, <3>6
  <2>5. CASE on_data(i, ev.data)
    <3>1. CASE i \in socket_conns /\ i \in DOMAIN gate_conns
      <4> DEFINE f == lfilter(gate_conns[i], ev.data)
                 ms == [k \in 1 .. Len(f.msgs) |-> Call("message", f.msgs[k])]
      <4>1. f.msgs \in Seq(Seq(Bytes)) /\ f.remaining \in Seq(Bytes)
        <5>1. gate_conns[i] \o ev.data \in Seq(Bytes)
          BY <1>t, <2>2, <3>1
        <5> QED
          BY <5>1, FramesType DEF lfilter, Filtered
      <4> HIDE DEF f
      <4>2. ms \in Seq(Callbacks) /\ Len(ms) = Len(f.msgs) /\ \A k \in 1 .. Len(ms) : ms[k].name = "message"
        <5>1. \A k \in 1 .. Len(f.msgs) : /\ Call("message", f.msgs[k]) \in Callbacks
                                          /\ Call("message", f.msgs[k]).name = "message"
          BY <4>1 DEF Call, Callbacks
        <5> QED
          BY <4>1, <5>1, Len(f.msgs) \in Nat
      <4> HIDE DEF ms
      <4>3. Alive(calls[i] \o ms)
        BY <1>t, <2>2, <3>1, <4>2, SoundMessages DEF CallsInv
      <4>4. /\ DOMAIN gate_conns' = DOMAIN gate_conns
            /\ calls' = [calls EXCEPT ![i] = calls[i] \o ms] /\ socket_conns' = socket_conns
        BY <2>5, <3>1 DEF on_data, f, ms
      <4>5. CallsInv'
        BY <1>t, <2>2, <3>1, <4>3, <4>4 DEF CallsInv, Alive
      <4>6. calls[i] # <<>>
        BY <2>2, <3>1 DEF CallsInv, Sound, Alive
      <4> QED
        BY <1>t, <2>3, <4>4, <4>5, <4>6
    <3>2. CASE ~(i \in socket_conns /\ i \in DOMAIN gate_conns)
      BY <1>s, <2>3, <2>5, <3>2 DEF on_data
    <3> QED
      BY <3>1, <3>2
  <2>6. CASE on_close(i)
    <3>1. DOMAIN gate_conns' = DOMAIN gate_conns \ {i} /\ socket_conns' = socket_conns \ {i}
      BY <2>6 DEF on_close, Restrict
    <3>2. CASE i \in DOMAIN gate_conns
      <4>1. calls' = [calls EXCEPT ![i] = Append(calls[i], Call("disconnect", <<>>))]
        BY <2>6, <3>2 DEF on_close
      <4>2. Call("disconnect", <<>>) \in Callbacks /\ Call("disconnect", <<>>).name = "disconnect"
        BY EmptyTyped DEF Call, Callbacks
      <4>3. Alive(calls[i]) /\ calls[i] # <<>>
        BY <2>2, <3>2 DEF CallsInv, Sound, Alive
      <4>4. Sound(Append(calls[i], Call("disconnect", <<>>)))
        BY <1>t, <2>2, <4>2, <4>3, SoundEnd
      <4>5. CallsInv'
        BY <1>t, <2>2, <3>1, <4>1, <4>4 DEF CallsInv
      <4> QED
        BY <1>t, <2>3, <4>1, <4>3, <4>5
    <3>3. CASE i \notin DOMAIN gate_conns
      <4>1. calls' = calls
        BY <1>t, <2>2, <2>6, <3>3 DEF on_close
      <4>2. CallsInv'
        BY <2>2, <3>1, <3>3, <4>1 DEF CallsInv
      <4> QED
        BY <2>3, <4>1, <4>2
    <3> QED
      BY <3>2, <3>3
  <2>7. CASE UNCHANGED <<socket_conns, gate_conns, calls>>
    BY <1>s, <2>3, <2>7
  <2> QED
    BY <1>2, <2>4, <2>5, <2>6, <2>7 DEF HandleEvent, i, ev
<1>3. CASE Open
  BY <1>3, <1>s, <1>b DEF Open, history
<1>4. CASE AcceptFails
  BY <1>4, <1>s, <1>b DEF AcceptFails, luaVars, history
<1>5. ASSUME NEW i \in Conns, Recv(i) PROVE CallsInv' /\ BoxOrder'
  BY <1>5, <1>s, <1>b DEF Recv, luaVars, history
<1>6. ASSUME NEW i \in Conns, ReadHandler(i) PROVE CallsInv' /\ BoxOrder'
  <2>1. \E ev : ev.kind # "accept" /\ mailbox' = Append(mailbox, ev)
    <3>1. \A kind, data : SocketEvent(kind, i, data).kind = kind
      BY DEF SocketEvent
    <3> QED
      BY <1>6, <3>1 DEF ReadHandler
  <2> QED
    BY <1>6, <1>s, <1>e, <2>1 DEF ReadHandler, history
<1>7. ASSUME NEW i \in Conns, WriteHandler(i) PROVE CallsInv' /\ BoxOrder'
  <2>1. UNCHANGED mailbox \/ \E ev : ev.kind # "accept" /\ mailbox' = Append(mailbox, ev)
    <3>1. \A kind, data : SocketEvent(kind, i, data).kind = kind
      BY DEF SocketEvent
    <3> QED
      <4>1. UNCHANGED mailbox \/ mailbox' = Append(mailbox, SocketEvent("close", i, <<>>))
        BY <1>7 DEF WriteHandler
      <4> QED
        BY <3>1, <4>1
  <2> QED
    BY <1>7, <1>s, <1>b, <1>e, <2>1 DEF WriteHandler, history
<1>8. ASSUME NEW i \in Conns, Accept(i) PROVE CallsInv' /\ BoxOrder'
  <2>1. CallsInv' /\ calls' = calls
    BY <1>8, <1>s DEF Accept, history
  <2>2. CASE UNCHANGED mailbox
    BY <1>b, <2>1, <2>2
  <2>3. CASE mailbox' = Append(mailbox, SocketEvent("accept", i, <<>>))
    <3>1. phase[i] # "accepted"
      BY <1>8 DEF Accept, Backlog
    <3>2. calls[i] = <<>> /\ \A k \in 1 .. Len(mailbox) : mailbox[k].id # i
      BY <3>1 DEF PhaseInv
    <3>3. SocketEvent("accept", i, <<>>).id = i
      BY DEF SocketEvent
    <3>4. /\ Len(mailbox') = Len(mailbox) + 1 /\ Len(mailbox) \in Nat /\ mailbox'[Len(mailbox) + 1].id = i
          /\ \A k \in 1 .. Len(mailbox) : mailbox'[k] = mailbox[k]
      BY <1>t, <2>3, <3>3
    <3> SUFFICES ASSUME NEW q \in 1 .. Len(mailbox'), mailbox'[q].kind = "accept"
                 PROVE  /\ calls[mailbox'[q].id] = <<>>
                        /\ \A p \in 1 .. q - 1 :
                             mailbox'[p].kind = "accept" => mailbox'[p].id # mailbox'[q].id
      BY <2>1 DEF BoxOrder
    <3>5. \A p \in 1 .. q - 1 : p \in 1 .. Len(mailbox)
      BY <3>4
    <3>6. CASE q = Len(mailbox) + 1
      BY <3>2, <3>4, <3>5, <3>6
    <3>7. CASE q # Len(mailbox) + 1
      <4>1. q \in 1 .. Len(mailbox)
        BY <3>4, <3>7
      <4> QED
        BY <3>4, <3>5, <4>1 DEF BoxOrder
    <3> QED
      BY <3>6, <3>7
  <2> QED
    BY <1>8, <2>1, <2>2, <2>3 DEF Accept
<1>9. ASSUME NEW i \in Conns, Connect(i) PROVE CallsInv' /\ BoxOrder'
  BY <1>9, <1>s, <1>b DEF Connect, luaVars, history
<1>10. ASSUME NEW i \in Conns, PeerSend(i) PROVE CallsInv' /\ BoxOrder'
  BY <1>10, <1>s, <1>b DEF PeerSend, luaVars, history
<1>11. ASSUME NEW i \in Conns, NEW how \in {"fin", "reset"}, PeerClose(i, how) PROVE CallsInv' /\ BoxOrder'
  BY <1>11, <1>s, <1>b DEF PeerClose, luaVars, history
<1>12. ASSUME NEW i \in Conns, NEW cmd \in {"KICK", "CLOSE"}, Kick(i, cmd) PROVE CallsInv' /\ BoxOrder'
  <2>1. /\ DOMAIN gate_conns' = DOMAIN gate_conns \ {i} /\ socket_conns' = socket_conns \ {i}
        /\ mailbox' = mailbox /\ calls[i] # <<>>
    BY <1>12 DEF Kick, Command, Known, socket_close, Restrict
  <2>2. CASE i \in DOMAIN gate_conns
    <3>1. calls' = [calls EXCEPT ![i] = Append(calls[i], Call("kicked", <<>>))]
      BY <1>12, <2>2 DEF Kick
    <3>2. Call("kicked", <<>>) \in Callbacks /\ Call("kicked", <<>>).name = "kicked"
      BY EmptyTyped DEF Call, Callbacks
    <3>3. Alive(calls[i])
      BY <2>2 DEF CallsInv
    <3>4. Sound(Append(calls[i], Call("kicked", <<>>)))
      BY <1>t, <3>2, <3>3, SoundEnd
    <3>5. CallsInv'
      BY <1>t, <2>1, <3>1, <3>4 DEF CallsInv
    <3>6. BoxOrder'
      BY <1>n, <1>t, <2>1, <3>1 DEF BoxOrder
    <3> QED
      BY <3>5, <3>6
  <2>3. CASE i \notin DOMAIN gate_conns
    <3>1. calls' = calls
      BY <1>t, <1>12, <2>3 DEF Kick
    <3>2. CallsInv'
      BY <2>1, <2>3, <3>1 DEF CallsInv
    <3> QED
      BY <1>b, <2>1, <3>1, <3>2
  <2> QED
    BY <2>2, <2>3
<1>13. ASSUME NEW i \in Conns, NEW data \in Replies, Write(i, data) PROVE CallsInv' /\ BoxOrder'
  BY <1>13, <1>s, <1>b DEF Write
<1>14. ASSUME NEW i \in Conns, NEW op \in {"pause", "resume"}, Flow(i, op) PROVE CallsInv' /\ BoxOrder'
  BY <1>14, <1>s, <1>b DEF Flow, history
<1>15. CASE UNCHANGED vars
  BY <1>15, <1>s, <1>b DEF vars, luaVars, history
<1> QED
  BY <1>1, <1>2, <1>3, <1>4, <1>5, <1>6, <1>7, <1>8, <1>9, <1>10, <1>11, <1>12, <1>13,
     <1>14, <1>15 DEF Next

-------------------------------------------------------------------------------
(* Reading.                                                                *)

\* What ReadInv says of a connection c whose peer is p.
Reading(c, p) ==
  c.open /\ p = "open" => /\ ~c.is_paused => c.reads # <<>>
                          /\ \A k \in 1 .. Len(c.reads) : c.reads[k] # -1

AllReading ==
  \A i \in Conns : Reading(conn[i], peer[i]) /\ (i \notin overlap => Len(conn[i].reads) <= 1)

\* AllReading holds initially.
LEMMA InitRead == Init => AllReading
BY NewConnectionGood DEF Init, Reading, AllReading

\* A step that is not about reading keeps it.
LEMMA SameReadingKeeps ==
  ASSUME NEW c, NEW d, NEW p, SameReading(c, d), Reading(c, p)
  PROVE  Reading(d, p) /\ Len(d.reads) = Len(c.reads)
BY DEF SameReading, Reading

\* asio changes the result of one read, and read_buf_.
LEMMA RecvChanges ==
  ASSUME TypeInv, NEW i \in Conns, Recv(i)
  PROVE  \E k \in 1 .. Len(conn[i].reads) : \E n \in Int : \E b :
           /\ conn' = [conn EXCEPT ![i] = [conn[i] EXCEPT !.reads[k] = n, !.read_buf = b]]
           /\ n = -1 => peer[i] # "open"
<1> DEFINE c == conn[i]
<1>0. c \in TcpConnections
  BY DEF TypeInv, TypeOK
  <1>1. PICK k \in 1 .. Len(c.reads) :
           \/ \E n \in 1 .. ReadBufSize :
                conn' = [conn EXCEPT
                  ![i].reads[k] = n,
                  ![i].read_buf = SubSeq(wire[i], 1, n) \o SubSeq(@, n + 1, Len(@))]
           \/ peer[i] # "open" /\ conn' = [conn EXCEPT ![i].reads[k] = -1]
    BY DEF Recv
  <1>2. ASSUME NEW n \in 1 .. ReadBufSize,
               conn' = [conn EXCEPT
                  ![i].reads[k] = n,
                  ![i].read_buf = SubSeq(wire[i], 1, n) \o SubSeq(@, n + 1, Len(@))]
        PROVE  \E m \in Int : \E b :
                 /\ conn' = [conn EXCEPT ![i] = [c EXCEPT !.reads[k] = m, !.read_buf = b]]
                 /\ m = -1 => peer[i] # "open"
    <2> DEFINE b == SubSeq(wire[i], 1, n) \o SubSeq(c.read_buf, n + 1, Len(c.read_buf))
    <2>1. conn' = [conn EXCEPT ![i] = [c EXCEPT !.reads[k] = n, !.read_buf = b]]
      BY <1>2
    <2>2. n \in Int /\ n # -1
      BY GateAssumption
    <2> HIDE DEF b, c
    <2> QED
      BY <2>1, <2>2
  <1>3. ASSUME peer[i] # "open", conn' = [conn EXCEPT ![i].reads[k] = -1]
        PROVE  \E m \in Int : \E b :
                 /\ conn' = [conn EXCEPT ![i] = [c EXCEPT !.reads[k] = m, !.read_buf = b]]
                 /\ m = -1 => peer[i] # "open"
    <2>1. [c EXCEPT !.reads[k] = -1] = [c EXCEPT !.reads[k] = -1, !.read_buf = c.read_buf]
      BY <1>0 DEF TcpConnections
    <2>2. conn' = [conn EXCEPT ![i] = [c EXCEPT !.reads[k] = -1, !.read_buf = c.read_buf]]
      BY <1>3, <2>1
    <2> DEFINE m == -1
    <2>3. m \in Int /\ conn' = [conn EXCEPT ![i] = [c EXCEPT !.reads[k] = m, !.read_buf = c.read_buf]]
      BY <2>2
    <2> HIDE DEF m, c
    <2> QED
      BY <1>3, <2>3
  <1> QED
    BY <1>1, <1>2, <1>3

\* AllReading is kept by every step.
LEMMA ReadStep == TypeInv /\ PhaseInv /\ AllReading /\ [Next]_vars => AllReading'
<1> SUFFICES ASSUME TypeInv, PhaseInv, AllReading, [Next]_vars PROVE AllReading'
  OBVIOUS
<1>i. \A i \in Conns : Reading(conn[i], peer[i]) /\ (i \notin overlap => Len(conn[i].reads) <= 1)
  BY DEF AllReading
<1>t. /\ conn \in [Conns -> GoodConnections] /\ posted \in Seq(Lambdas)
      /\ peer \in [Conns -> {"open", "fin", "reset"}] /\ wire \in [Conns -> Seq(Bytes)]
      /\ overlap \subseteq Conns
  BY DEF TypeInv, TypeOK
<1>f. \A i \in Conns : /\ conn[i].reads \in Seq(Int) /\ conn[i].open \in BOOLEAN
                       /\ conn[i].is_paused \in BOOLEAN /\ conn[i].read_buf \in Seq(Bytes)
                       /\ conn[i] \in TcpConnections /\ conn[i].write_queue \in Seq(Seq(Bytes))
  BY <1>t DEF GoodConnections, TcpConnections
<1>u. ASSUME UNCHANGED <<conn, peer, overlap>> PROVE AllReading'
  BY <1>i, <1>u DEF AllReading
<1>c. ASSUME NEW i \in Conns, NEW d, conn' = [conn EXCEPT ![i] = d], UNCHANGED <<peer, overlap>>,
             Reading(d, peer[i]), i \notin overlap => Len(d.reads) <= 1
      PROVE  AllReading'
  BY <1>i, <1>t, <1>c DEF AllReading
<1>1. CASE RunPosted
  <2> DEFINE l == Head(posted)
             c == conn[l.id]
  <2>1. l \in Lambdas /\ UNCHANGED peer
    BY <1>1, <1>t DEF RunPosted, peerVars
  <2>2. l.id \in Conns /\ l.data \in Seq(Bytes)
    <3> HIDE DEF l
    <3> QED
      BY <2>1 DEF Lambdas
  <2> HIDE DEF l
  <2>3. c \in GoodConnections /\ Reading(c, peer[l.id]) /\ (l.id \notin overlap => Len(c.reads) <= 1)
        /\ c.reads \in Seq(Int) /\ c.open \in BOOLEAN /\ c.is_paused \in BOOLEAN
    BY <1>i, <1>t, <1>f, <2>2
  <2> HIDE DEF c
  <2>4. CASE conn' = [conn EXCEPT ![l.id] = Sent(c, l.data)[1]] /\ UNCHANGED overlap
    <3> DEFINE d == Sent(c, l.data)[1]
    <3>1. SameReading(c, d)
      BY <2>2, <2>3, SentGood
    <3> HIDE DEF d
    <3>2. Reading(d, peer[l.id]) /\ Len(d.reads) = Len(c.reads)
      BY <2>3, <3>1, SameReadingKeeps
    <3> QED
      BY <1>c, <2>1, <2>2, <2>3, <2>4, <3>2 DEF d
  <2>5. CASE conn' = [conn EXCEPT ![l.id] = Closed(c)] /\ UNCHANGED overlap
    <3>1. ~Closed(c).open /\ Len(Closed(c).reads) = Len(c.reads)
      BY <2>3, ClosedGood
    <3> QED
      BY <1>c, <2>1, <2>2, <2>3, <2>5, <3>1 DEF Reading
  <2>6. CASE conn' = [conn EXCEPT ![l.id].is_paused = TRUE] /\ UNCHANGED overlap
    <3> DEFINE d == [c EXCEPT !.is_paused = TRUE]
    <3>1. d.open = c.open /\ d.reads = c.reads /\ d.is_paused
      BY <2>3, PausedGood
    <3>2. conn' = [conn EXCEPT ![l.id] = d]
      BY <2>6 DEF c
    <3> HIDE DEF d
    <3>3. Reading(d, peer[l.id])
      BY <2>3, <3>1 DEF Reading
    <3> QED
      BY <1>c, <2>1, <2>2, <2>3, <2>6, <3>1, <3>2, <3>3
  <2>7. CASE /\ conn' = [conn EXCEPT ![l.id] = Resumed(c)]
             /\ overlap' = IF c.is_paused /\ c.reads # <<>> THEN overlap \cup {l.id} ELSE overlap
    <3> DEFINE d == Resumed(c)
               n == IF c.open THEN 0 ELSE -1
    <3>1. d.open = c.open /\ d.reads = IF c.is_paused THEN Append(c.reads, n) ELSE c.reads
      BY <2>3, ResumedGood
    <3>2. n \in Int /\ (c.open => n # -1)
      BY <2>3
    <3> HIDE DEF d, n
    <3>3. Reading(d, peer[l.id])
      <4>1. CASE c.is_paused
        <5>1. d.reads = Append(c.reads, n)
          BY <3>1, <4>1
        <5>2. d.reads # <<>>
          BY <2>3, <3>2, <5>1
        <5>3. ASSUME c.open, peer[l.id] = "open", NEW k \in 1 .. Len(d.reads) PROVE d.reads[k] # -1
          BY <2>3, <3>2, <5>1, <5>3, AppendAll DEF Reading
        <5> QED
          BY <3>1, <5>2, <5>3 DEF Reading
      <4>2. CASE ~c.is_paused
        BY <2>3, <3>1, <4>2 DEF Reading
      <4> QED
        BY <4>1, <4>2
    <3>4. l.id \notin overlap' => Len(d.reads) <= 1
      <4>1. CASE c.is_paused /\ c.reads # <<>>
        BY <2>7, <4>1
      <4>2. CASE c.is_paused /\ c.reads = <<>>
        BY <3>1, <3>2, <4>2
      <4>3. CASE ~c.is_paused
        BY <2>3, <2>7, <3>1, <4>3
      <4> QED
        BY <2>3, <4>1, <4>2, <4>3
    <3>5. conn' = [conn EXCEPT ![l.id] = d] /\ overlap \subseteq overlap'
      BY <2>7 DEF d
    <3> QED
      BY <1>i, <1>t, <2>1, <2>2, <3>3, <3>4, <3>5 DEF AllReading
  <2>8. CASE UNCHANGED <<conn, overlap>>
    BY <1>u, <2>1, <2>8
  <2> QED
    BY <1>1, <2>4, <2>5, <2>6, <2>7, <2>8 DEF RunPosted, l, c
<1>2. CASE HandleEvent
  BY <1>2, <1>u DEF HandleEvent, peerVars, ioVars
<1>3. CASE Open
  BY <1>3, <1>u DEF Open, peerVars, history
<1>4. CASE AcceptFails
  BY <1>4, <1>u DEF AcceptFails, peerVars, history
<1>5. ASSUME NEW i \in Conns, Recv(i) PROVE AllReading'
  <2> DEFINE c == conn[i]
  <2>1. c \in TcpConnections /\ c.reads \in Seq(Int) /\ Reading(c, peer[i]) /\ (i \notin overlap => Len(c.reads) <= 1)
    BY <1>i, <1>f
  <2>2. PICK k \in 1 .. Len(c.reads) : \E n \in Int : \E b :
          /\ conn' = [conn EXCEPT ![i] = [c EXCEPT !.reads[k] = n, !.read_buf = b]]
          /\ n = -1 => peer[i] # "open"
    BY <1>5, RecvChanges
  <2> HIDE DEF c
  <2>p. PICK n \in Int : \E b :
          /\ conn' = [conn EXCEPT ![i] = [c EXCEPT !.reads[k] = n, !.read_buf = b]]
          /\ n = -1 => peer[i] # "open"
    BY <2>2
  <2>3. PICK b : /\ conn' = [conn EXCEPT ![i] = [c EXCEPT !.reads[k] = n, !.read_buf = b]]
                 /\ n = -1 => peer[i] # "open"
    BY <2>p
  <2> DEFINE d == [c EXCEPT !.reads[k] = n, !.read_buf = b]
             r == [c.reads EXCEPT ![k] = n]
  <2>4. d.open = c.open /\ d.is_paused = c.is_paused /\ d.reads = r
    BY <2>1 DEF TcpConnections
  <2>5. r \in Seq(Int) /\ Len(r) = Len(c.reads) /\ \A j \in 1 .. Len(r) : r[j] = n \/ r[j] = c.reads[j]
    BY <2>1
  <2>6. r # <<>>
    BY <2>1, <2>5
  <2> HIDE DEF d, r
  <2>n. n = -1 => peer[i] # "open"
    BY <2>3
  <2>7. Reading(d, peer[i])
    <3> SUFFICES ASSUME c.open, peer[i] = "open", NEW j \in 1 .. Len(r) PROVE r[j] # -1
      BY <2>4, <2>6 DEF Reading
    <3>1. n # -1 /\ c.reads[j] # -1
      BY <2>1, <2>5, <2>n DEF Reading
    <3> QED
      BY <2>5, <3>1
  <2>8. conn' = [conn EXCEPT ![i] = d] /\ UNCHANGED <<peer, overlap>>
    <3>1. conn' = [conn EXCEPT ![i] = d]
      BY <2>3 DEF d
    <3>2. UNCHANGED <<peer, overlap>>
      BY <1>5 DEF Recv, history
    <3> QED
      BY <3>1, <3>2
  <2> QED
    BY <1>c, <2>1, <2>4, <2>5, <2>7, <2>8
<1>6. ASSUME NEW i \in Conns, ReadHandler(i) PROVE AllReading'
  <2> DEFINE c == conn[i]
             n == Head(c.reads)
             rest == [c EXCEPT !.reads = Tail(@)]
  <2>1. c \in GoodConnections /\ Reading(c, peer[i]) /\ (i \notin overlap => Len(c.reads) <= 1)
        /\ c.reads \in Seq(Int) /\ c.open \in BOOLEAN /\ c.is_paused \in BOOLEAN /\ c \in TcpConnections
        /\ c.reads # <<>> /\ UNCHANGED <<peer, overlap>>
    BY <1>i, <1>t, <1>f, <1>6 DEF ReadHandler, peerVars, history
  <2>2. \/ n = -1 /\ conn' = [conn EXCEPT ![i] = rest]
        \/ n > 0 /\ conn' = [conn EXCEPT ![i] = Forget(do_read(rest))]
    BY <1>6 DEF ReadHandler
  <2> HIDE DEF c
  <2>3. rest.open = c.open /\ rest.is_paused = c.is_paused /\ rest.reads = Tail(c.reads)
    BY <2>1 DEF TcpConnections
  <2>r. rest \in GoodConnections
    <3> DEFINE r == Tail(c.reads)
    <3>0. /\ c.is_writing <=> c.write_queue # <<>>
          /\ \A k \in 1 .. Len(c.reads) : c.reads[k] \in -1 .. Len(c.read_buf)
      BY <2>1 DEF GoodConnections
    <3>1. r \in Seq(Int) /\ \A k \in 1 .. Len(r) : r[k] \in -1 .. Len(c.read_buf)
      BY <2>1, <3>0
    <3> HIDE DEF r
    <3>2. /\ rest \in TcpConnections /\ rest.reads = r /\ rest.read_buf = c.read_buf
          /\ rest.is_writing = c.is_writing /\ rest.write_queue = c.write_queue
      BY <2>1, <3>1 DEF TcpConnections, r
    <3> HIDE DEF rest
    <3> QED
      BY <3>0, <3>1, <3>2 DEF GoodConnections
  <2> HIDE DEF rest
  <2>4. /\ Len(Tail(c.reads)) = Len(c.reads) - 1 /\ Len(c.reads) \in Nat /\ n = c.reads[1] /\ 1 \in 1 .. Len(c.reads)
        /\ \A k \in 1 .. Len(Tail(c.reads)) : k + 1 \in 1 .. Len(c.reads) /\ Tail(c.reads)[k] = c.reads[k + 1]
        /\ Tail(c.reads) \in Seq(Int)
    BY <2>1, TailAll
  <2> HIDE DEF n
  <2>5. CASE n = -1 /\ conn' = [conn EXCEPT ![i] = rest]
    <3>1. Reading(rest, peer[i])
      BY <2>1, <2>3, <2>4, <2>5 DEF Reading
    <3>2. i \notin overlap => Len(rest.reads) <= 1
      BY <2>1, <2>3, <2>4
    <3>3. conn' = [conn EXCEPT ![i] = rest] /\ UNCHANGED <<peer, overlap>>
      BY <2>1, <2>5
    <3> QED
      BY <1>c, <3>1, <3>2, <3>3
  <2>6. CASE n > 0 /\ conn' = [conn EXCEPT ![i] = Forget(do_read(rest))]
    <3> DEFINE d == do_read(rest)
               z == IF c.open THEN 0 ELSE -1
    <3>1. d \in GoodConnections /\ d.open = c.open /\ d.is_paused = c.is_paused
          /\ d.reads = IF c.is_paused THEN Tail(c.reads) ELSE Append(Tail(c.reads), z)
      BY <2>3, <2>r, do_readGood
    <3>2. z \in Int /\ (c.open => z # -1)
      BY <2>1
    <3> HIDE DEF d, z
    <3> DEFINE g == Forget(d)
    <3>3. g.open = d.open /\ g.is_paused = d.is_paused /\ g.reads = d.reads
      BY <3>1, ForgetGood
    <3> HIDE DEF g
    <3>4. CASE c.is_paused
      <4>1. g.open = c.open /\ g.is_paused /\ g.reads = Tail(c.reads)
        BY <3>1, <3>3, <3>4
      <4>2. Reading(g, peer[i])
        BY <2>1, <2>4, <4>1 DEF Reading
      <4>3. i \notin overlap => Len(g.reads) <= 1
        BY <2>1, <2>4, <4>1
      <4>4. conn' = [conn EXCEPT ![i] = g] /\ UNCHANGED <<peer, overlap>>
        BY <2>1, <2>6 DEF g, d
      <4> QED
        BY <1>c, <4>2, <4>3, <4>4
    <3>5. CASE ~c.is_paused
      <4>1. g.reads = Append(Tail(c.reads), z)
        BY <3>1, <3>3, <3>5
      <4>2. Len(g.reads) = Len(c.reads) /\ g.reads # <<>>
        BY <2>4, <3>2, <4>1
      <4>3. ASSUME c.open, peer[i] = "open", NEW k \in 1 .. Len(g.reads) PROVE g.reads[k] # -1
        BY <2>1, <2>4, <3>2, <4>1, <4>3, AppendAll DEF Reading
      <4>4. Reading(g, peer[i])
        BY <3>1, <3>3, <4>2, <4>3 DEF Reading
      <4> QED
        BY <1>c, <2>1, <2>6, <4>2, <4>4 DEF g, d
    <3> QED
      BY <2>1, <3>4, <3>5
  <2> QED
    BY <2>2, <2>5, <2>6
<1>7. ASSUME NEW i \in Conns, WriteHandler(i) PROVE AllReading'
  <2> DEFINE c == conn[i]
  <2>1. c \in GoodConnections /\ Reading(c, peer[i]) /\ (i \notin overlap => Len(c.reads) <= 1)
        /\ UNCHANGED <<peer, overlap>> /\ c.write_queue # <<>>
    BY <1>i, <1>t, <1>7 DEF WriteHandler, history, GoodConnections
  <2>2. PICK d : conn' = [conn EXCEPT ![i] = d] /\ SameReading(c, d)
    <3>1. CASE conn' = [conn EXCEPT ![i] = Written(c)]
      BY <2>1, <3>1, WrittenGood
    <3>2. CASE conn' = [conn EXCEPT ![i].write_failed = TRUE]
      BY <2>1, <3>2, FailedGood
    <3> QED
      BY <1>7, <3>1, <3>2 DEF WriteHandler
  <2>3. Reading(d, peer[i]) /\ Len(d.reads) = Len(c.reads)
    BY <2>1, <2>2, SameReadingKeeps
  <2> QED
    BY <1>c, <2>1, <2>2, <2>3
<1>8. ASSUME NEW i \in Conns, Accept(i) PROVE AllReading'
  <2>1. CASE UNCHANGED conn
    BY <1>8, <1>u, <2>1 DEF Accept, history
  <2>2. CASE conn' = [conn EXCEPT ![i] = do_read([@ EXCEPT !.open = TRUE])]
    <3> DEFINE o == [NewConnection EXCEPT !.open = TRUE]
               d == do_read(o)
    <3>1. conn[i] = NewConnection
      BY <1>8 DEF Accept, Backlog, PhaseInv
    <3>2. o \in GoodConnections /\ o.open /\ o.reads = <<>> /\ o.is_paused = FALSE
      BY NewConnectionGood, OpenedGood
    <3>3. conn' = [conn EXCEPT ![i] = d]
      BY <2>2, <3>1
    <3> HIDE DEF o
    <3>4. d.reads = Append(<<>>, 0)
      BY <3>2, do_readGood
    <3> HIDE DEF d
    <3>5. Reading(d, peer[i]) /\ Len(d.reads) <= 1
      BY <3>4 DEF Reading
    <3> QED
      BY <1>8, <1>c, <3>3, <3>5 DEF Accept, history
  <2> QED
    BY <1>8, <2>1, <2>2 DEF Accept
<1>9. ASSUME NEW i \in Conns, Connect(i) PROVE AllReading'
  BY <1>9, <1>u DEF Connect, ioVars, history
<1>10. ASSUME NEW i \in Conns, PeerSend(i) PROVE AllReading'
  BY <1>10, <1>u DEF PeerSend, ioVars, history
<1>11. ASSUME NEW i \in Conns, NEW how \in {"fin", "reset"}, PeerClose(i, how) PROVE AllReading'
  <2>1. /\ peer' = [peer EXCEPT ![i] = how] /\ UNCHANGED <<conn, overlap>> /\ how # "open"
    BY <1>11 DEF PeerClose, ioVars, history
  <2> QED
    BY <1>i, <1>t, <2>1 DEF Reading, AllReading
<1>12. ASSUME NEW i \in Conns, NEW cmd \in {"KICK", "CLOSE"}, Kick(i, cmd) PROVE AllReading'
  BY <1>12, <1>u DEF Kick, peerVars
<1>13. ASSUME NEW i \in Conns, NEW data \in Replies, Write(i, data) PROVE AllReading'
  BY <1>13, <1>u DEF Write, peerVars
<1>14. ASSUME NEW i \in Conns, NEW op \in {"pause", "resume"}, Flow(i, op) PROVE AllReading'
  BY <1>14, <1>u DEF Flow, peerVars, history
<1>15. CASE UNCHANGED vars
  BY <1>15, <1>u DEF vars, peerVars, ioVars, history
<1> QED
  BY <1>1, <1>2, <1>3, <1>4, <1>5, <1>6, <1>7, <1>8, <1>9, <1>10, <1>11, <1>12, <1>13,
     <1>14, <1>15 DEF Next

-------------------------------------------------------------------------------
(* Writing.                                                                *)

\* A prefix is what can be continued to the whole.
LEMMA PrefixIs ==
  ASSUME NEW T, NEW s \in Seq(T), NEW t \in Seq(T)
  PROVE  IsPrefix(s, t) <=> \E x \in Seq(T) : s \o x = t
<1>1. ASSUME IsPrefix(s, t) PROVE \E x \in Seq(T) : s \o x = t
  <2> DEFINE x == SubSeq(t, Len(s) + 1, Len(t))
             r == s \o x
  <2>1. Len(s) <= Len(t) /\ SubSeq(s, 1, Len(s)) = SubSeq(t, 1, Len(s)) /\ Len(s) \in Nat /\ Len(t) \in Nat
    BY <1>1 DEF IsPrefix
  <2>2. s = SubSeq(t, 1, Len(s))
    BY <2>1, SubSeqFull
  <2>3. \A k \in 1 .. Len(s) : s[k] = t[k]
    BY <2>1, <2>2
  <2>4. x \in Seq(T) /\ Len(x) = Len(t) - Len(s) /\ \A k \in 1 .. Len(x) : x[k] = t[k + Len(s)]
    BY <2>1
  <2> HIDE DEF x
  <2>5. r \in Seq(T) /\ Len(r) = Len(t)
    BY <2>1, <2>4
  <2>6. ASSUME NEW k \in 1 .. Len(t) PROVE r[k] = t[k]
    <3>1. CASE k <= Len(s)
      <4>1. k \in 1 .. Len(s) /\ r[k] = s[k]
        BY <2>1, <2>4, <3>1
      <4> QED
        BY <2>3, <4>1
    <3>2. CASE ~(k <= Len(s))
      <4>1. r[k] = x[k - Len(s)] /\ k - Len(s) \in 1 .. Len(x) /\ (k - Len(s)) + Len(s) = k
        BY <2>1, <2>4, <3>2
      <4> QED
        BY <2>4, <4>1
    <3> QED
      BY <3>1, <3>2
  <2> HIDE DEF r
  <2>7. r = t
    BY <2>5, <2>6, SeqEqual
  <2> QED
    BY <2>4, <2>7 DEF r
<1>2. ASSUME NEW x \in Seq(T), s \o x = t PROVE IsPrefix(s, t)
  BY <1>2 DEF IsPrefix
<1> QED
  BY <1>1, <1>2

\* Byte strings and their concatenation under names of their own, so that equations
\* between concatenations are reasoned about as equations between terms.
ByteStrings == Seq(Bytes)
Cat(s, t) == s \o t

\* Two byte strings make a byte string.
LEMMA CatType == \A s, t \in ByteStrings : Cat(s, t) \in ByteStrings
BY DEF Cat, ByteStrings

\* The lengths add up.
LEMMA CatLen ==
  \A s, t \in ByteStrings : Len(Cat(s, t)) = Len(s) + Len(t) /\ Len(s) \in Nat /\ Len(t) \in Nat
BY DEF Cat, ByteStrings

\* The empty string changes nothing.
LEMMA CatEmpty == <<>> \in ByteStrings /\ \A s \in ByteStrings : Cat(s, <<>>) = s /\ Cat(<<>>, s) = s
BY ConcatEmptySeq, EmptyTyped DEF Cat, ByteStrings

\* Concatenation of byte strings is associative.
LEMMA CatAssociative ==
  \A s, t, u \in ByteStrings : Cat(Cat(s, t), u) = Cat(s, Cat(t, u))
BY Associative DEF Cat, ByteStrings

\* A prefix of a byte string.
LEMMA CatPrefix ==
  \A s, t \in ByteStrings : IsPrefix(s, t) <=> \E x \in ByteStrings : Cat(s, x) = t
BY PrefixIs DEF Cat, ByteStrings

\* What is posted for connection i, as a concatenation over the lambdas.
Posting(i) == [l \in Lambdas |-> IF l.op = "send" /\ l.id = i THEN l.data ELSE <<>>]
PostedOf(q, i) == Picked(q, Posting(i))

\* What each lambda gives is a byte string.
LEMMA PostingType ==
  ASSUME NEW i PROVE Posting(i) \in [Lambdas -> Seq(Bytes)]
<1>1. \A l \in Lambdas : (IF l.op = "send" /\ l.id = i THEN l.data ELSE <<>>) \in Seq(Bytes)
  BY EmptyTyped DEF Lambdas
<1> QED
  BY <1>1 DEF Posting

\* What is posted for a connection is picked from the lambdas.
LEMMA PostedIsPicked ==
  ASSUME NEW i, NEW q \in Seq(Lambdas)
  PROVE  /\ FlattenSeq([k \in 1 .. Len(q) |->
                IF q[k].op = "send" /\ q[k].id = i THEN q[k].data ELSE <<>>]) = PostedOf(q, i)
         /\ PostedOf(q, i) \in Seq(Bytes)
<1>1. \A k \in 1 .. Len(q) :
        Posting(i)[q[k]] = IF q[k].op = "send" /\ q[k].id = i THEN q[k].data ELSE <<>>
  BY DEF Posting
<1>2. [k \in 1 .. Len(q) |-> IF q[k].op = "send" /\ q[k].id = i THEN q[k].data ELSE <<>>]
      = [k \in 1 .. Len(q) |-> Posting(i)[q[k]]]
  BY <1>1
<1>3. PostedOf(q, i) \in Seq(Bytes)
  BY PostingType, PickedType DEF PostedOf
<1> QED
  BY <1>2, <1>3 DEF PostedOf, Picked

\* A lambda that is posted adds its data, if it sends on the connection.
LEMMA PostedAppend ==
  ASSUME NEW i, NEW j \in Conns, NEW q \in Seq(Lambdas), NEW buf \in Seq(Bytes),
         NEW o \in {"send", "close", "pause", "resume", "stop"}
  PROVE  /\ Append(q, Lambda(o, j, buf)) \in Seq(Lambdas)
         /\ o = "send" /\ j = i =>
              PostedOf(Append(q, Lambda(o, j, buf)), i) = Cat(PostedOf(q, i), buf)
         /\ o # "send" \/ j # i \/ buf = <<>> =>
              PostedOf(Append(q, Lambda(o, j, buf)), i) = PostedOf(q, i)
<1> DEFINE l == Lambda(o, j, buf)
<1>1. l \in Lambdas /\ l.op = o /\ l.id = j /\ l.data = buf
  BY DEF Lambda, Lambdas
<1> HIDE DEF l
<1>2. PostedOf(Append(q, l), i) = Cat(PostedOf(q, i), Posting(i)[l])
  BY <1>1, PostingType, PickedAppend DEF PostedOf, Cat
<1>3. /\ o = "send" /\ j = i => Posting(i)[l] = buf
      /\ ~(o = "send" /\ j = i) => Posting(i)[l] = <<>>
  BY <1>1 DEF Posting
<1>4. PostedOf(q, i) \in Seq(Bytes)
  BY PostedIsPicked
<1>5. Cat(PostedOf(q, i), <<>>) = PostedOf(q, i)
  BY <1>4, CatEmpty DEF ByteStrings
<1>6. Append(q, l) \in Seq(Lambdas)
  BY <1>1
<1> QED
  BY <1>2, <1>3, <1>5, <1>6 DEF l

\* The first lambda's data is the first of what is posted.
LEMMA PostedHead ==
  ASSUME NEW i, NEW q \in Seq(Lambdas), q # <<>>
  PROVE  /\ Head(q).op = "send" /\ Head(q).id = i =>
              PostedOf(q, i) = Cat(Head(q).data, PostedOf(Tail(q), i))
         /\ ~(Head(q).op = "send" /\ Head(q).id = i) => PostedOf(q, i) = PostedOf(Tail(q), i)
<1> DEFINE l == Head(q)
           r == Tail(q)
<1>1. l \in Lambdas /\ r \in Seq(Lambdas)
  OBVIOUS
<1>2. PostedOf(q, i) = Cat(Posting(i)[l], PostedOf(r, i))
  BY PostingType, PickedHead DEF PostedOf, Cat
<1> HIDE DEF l, r
<1>3. /\ l.op = "send" /\ l.id = i => Posting(i)[l] = l.data
      /\ ~(l.op = "send" /\ l.id = i) => Posting(i)[l] = <<>>
  BY <1>1 DEF Posting
<1>4. PostedOf(r, i) \in Seq(Bytes)
  BY <1>1, PostedIsPicked
<1>5. Cat(<<>>, PostedOf(r, i)) = PostedOf(r, i)
  BY <1>4, CatEmpty DEF ByteStrings
<1> QED
  BY <1>2, <1>3, <1>5 DEF l, r

\* A connection on which everything that was written is still to arrive.
Settled(i) == peer[i] = "open" /\ (conn[i].open \/ phase[i] # "accepted")
Queued(i) == FlattenSeq(conn[i].write_queue)
Writing(i) ==
  /\ IsPrefix(back[i], written[i])
  /\ Settled(i) => Cat(Cat(back[i], Queued(i)), PostedOf(posted, i)) = written[i]
  /\ conn[i].pending_bytes = Len(Queued(i))
AllWriting == \A i \in Conns : Writing(i)

\* AllWriting holds initially.
LEMMA InitWrite == Init => AllWriting
<1> SUFFICES ASSUME Init, NEW i \in Conns PROVE Writing(i)
  BY DEF AllWriting
<1>1. back[i] = <<>> /\ written[i] = <<>> /\ posted = <<>>
  BY DEF Init
<1>2. conn[i].write_queue = <<>> /\ conn[i].pending_bytes = 0
  BY NewConnectionGood DEF Init
<1>3. Queued(i) = <<>> /\ PostedOf(posted, i) = <<>>
  BY <1>1, <1>2, FlattenEmpty, PickedEmpty DEF Queued, PostedOf
<1> QED
  BY <1>1, <1>2, <1>3 DEF Writing, IsPrefix, Cat

\* A step that leaves alone what was written and how far it got.
SameWrites(i) ==
  /\ back'[i] = back[i] /\ written'[i] = written[i]
  /\ conn'[i].write_queue = conn[i].write_queue
  /\ conn'[i].pending_bytes = conn[i].pending_bytes
  /\ Settled(i)' => Settled(i)

\* A step that is not about writing keeps it.
LEMMA SameWritesKeep ==
  ASSUME NEW i, SameWrites(i), PostedOf(posted, i)' = PostedOf(posted, i), Writing(i)
  PROVE  Writing(i)'
BY DEF SameWrites, Writing, Queued

\* AllWriting is kept by every step.
LEMMA WriteStep == TypeInv /\ PhaseInv /\ AllWriting /\ [Next]_vars => AllWriting'
<1> SUFFICES ASSUME TypeInv, PhaseInv, AllWriting, [Next]_vars PROVE AllWriting'
  OBVIOUS
<1>i. \A i \in Conns : Writing(i)
  BY DEF AllWriting
<1>t. /\ conn \in [Conns -> GoodConnections] /\ posted \in Seq(Lambdas)
      /\ peer \in [Conns -> {"open", "fin", "reset"}]
      /\ phase \in [Conns -> {"none", "backlog", "accepted"}]
      /\ back \in [Conns -> Seq(Bytes)] /\ written \in [Conns -> Seq(Bytes)]
  BY DEF TypeInv, TypeOK
<1>f. \A i \in Conns : /\ conn[i] \in TcpConnections /\ conn[i].write_queue \in Seq(Seq(Bytes))
                       /\ conn[i].pending_bytes \in Int /\ conn[i].open \in BOOLEAN
  BY <1>t DEF GoodConnections, TcpConnections
<1>p. \A i \in Conns : PostedOf(posted, i) \in Seq(Bytes) /\ Queued(i) \in Seq(Bytes)
  BY <1>f, <1>t, PostedIsPicked, FlattenType DEF Queued
<1>s. ASSUME posted' = posted, \A i \in Conns : SameWrites(i) PROVE AllWriting'
  <2>1. \A i \in Conns : PostedOf(posted, i)' = PostedOf(posted, i)
    BY <1>s DEF PostedOf
  <2> QED
    BY <1>i, <1>s, <2>1, SameWritesKeep DEF AllWriting
<1>u. ASSUME UNCHANGED <<conn, peer, phase, back, written>> PROVE \A i \in Conns : SameWrites(i)
  BY <1>u DEF SameWrites, Settled
<1>c. ASSUME NEW j \in Conns, NEW d, conn' = [conn EXCEPT ![j] = d], SameWriting(conn[j], d),
             d.open => conn[j].open, UNCHANGED <<peer, phase, back, written>>
      PROVE  \A i \in Conns : SameWrites(i)
  BY <1>t, <1>c DEF SameWrites, Settled, SameWriting
<1>1. CASE RunPosted
  <2> DEFINE l == Head(posted)
             c == conn[l.id]
             r == Tail(posted)
  <2>1. l \in Lambdas /\ posted' = r /\ posted # <<>> /\ UNCHANGED <<peer, phase, back, written>>
    BY <1>1, <1>t DEF RunPosted, peerVars
  <2>2. l.id \in Conns /\ l.data \in Seq(Bytes)
    <3> HIDE DEF l
    <3> QED
      BY <2>1 DEF Lambdas
  <2>3. \A i \in Conns :
         /\ l.op = "send" /\ l.id = i => PostedOf(posted, i) = Cat(l.data, PostedOf(r, i))
         /\ ~(l.op = "send" /\ l.id = i) => PostedOf(posted, i) = PostedOf(r, i)
    BY <1>t, <2>1, PostedHead
  <2>r. r \in Seq(Lambdas) /\ \A i \in Conns : PostedOf(r, i) \in Seq(Bytes)
    <3>1. r \in Seq(Lambdas)
      BY <1>t, <2>1
    <3> HIDE DEF r, l
    <3> QED
      BY <3>1, PostedIsPicked
  <2>o. \A i \in Conns : PostedOf(posted, i)' = PostedOf(r, i)
    BY <2>1 DEF PostedOf
  <2> HIDE DEF l, r
  <2>4. c \in GoodConnections
    BY <1>t, <2>2
  <2>n. ASSUME l.op # "send", \A i \in Conns : SameWrites(i) PROVE AllWriting'
    BY <1>i, <2>3, <2>n, <2>o, SameWritesKeep DEF AllWriting
  <2>5. CASE /\ l.op = "send" /\ conn' = [conn EXCEPT ![l.id] = Sent(c, l.data)[1]]
    <3> DEFINE d == Sent(c, l.data)[1]
    <3>1. SameReading(c, d) /\ d.write_queue = Append(c.write_queue, l.data)
          /\ d.pending_bytes = c.pending_bytes + Len(l.data)
      BY <2>2, <2>4, SentGood
    <3>2. conn' = [conn EXCEPT ![l.id] = d]
      BY <2>5
    <3> HIDE DEF d
    <3> SUFFICES ASSUME NEW i \in Conns PROVE Writing(i)'
      BY DEF AllWriting
    <3>3. CASE i # l.id
      <4>1. SameWrites(i)
        BY <1>t, <2>1, <3>2, <3>3 DEF SameWrites, Settled
      <4>2. PostedOf(posted, i)' = PostedOf(posted, i)
        BY <2>3, <2>o, <3>3
      <4> QED
        BY <1>i, <4>1, <4>2, SameWritesKeep
    <3>4. CASE i = l.id
      <4>1. conn'[i] = d /\ c = conn[i]
        BY <1>t, <2>2, <3>2, <3>4
      <4>2. Queued(i)' = Cat(Queued(i), l.data)
        <5>1. FlattenSeq(Append(c.write_queue, l.data)) = Cat(FlattenSeq(c.write_queue), l.data)
          BY <1>f, <2>2, <3>4, <4>1, FlattenAppend DEF Cat
        <5> QED
          BY <3>1, <4>1, <5>1 DEF Queued
      <4>0. PICK x, y, z, w :
              x = back[i] /\ y = Queued(i) /\ z = l.data /\ w = PostedOf(r, i)
        OBVIOUS
      <4>3. x \in ByteStrings /\ y \in ByteStrings /\ z \in ByteStrings /\ w \in ByteStrings
        BY <1>p, <1>t, <2>2, <2>r, <4>0 DEF ByteStrings
      <4>4. PostedOf(posted, i) = Cat(z, w)
        BY <2>3, <2>5, <3>4, <4>0
      <4>5. /\ IsPrefix(x, written[i]) /\ conn[i].pending_bytes = Len(y)
            /\ Settled(i) => Cat(Cat(x, y), Cat(z, w)) = written[i]
        BY <1>i, <4>0, <4>4 DEF Writing
      <4>6. Settled(i)' => Settled(i)
        BY <2>1, <3>1, <4>1 DEF Settled, SameReading
      <4>7. Queued(i)' = Cat(y, z) /\ PostedOf(posted, i)' = w
        BY <2>o, <4>0, <4>2
      <4>p. conn'[i].pending_bytes = conn[i].pending_bytes + Len(z)
        BY <3>1, <4>0, <4>1
      <4>8. Cat(Cat(x, Cat(y, z)), w) = Cat(Cat(x, y), Cat(z, w))
        BY <4>3, CatAssociative, CatType
      <4>10. conn'[i].pending_bytes = Len(Cat(y, z))
        BY <4>3, <4>5, <4>p, CatLen
      <4>11. back'[i] = x /\ written'[i] = written[i]
        BY <2>1, <4>0
      <4> QED
        BY <4>5, <4>6, <4>7, <4>8, <4>10, <4>11 DEF Writing
    <3> QED
      BY <3>3, <3>4
  <2>6. CASE l.op = "close" /\ conn' = [conn EXCEPT ![l.id] = Closed(c)]
    <3>1. SameWriting(c, Closed(c)) /\ ~Closed(c).open
      BY <2>4, ClosedGood
    <3>2. \A i \in Conns : SameWrites(i)
      BY <1>c, <2>1, <2>2, <2>6, <3>1
    <3> QED
      BY <2>6, <2>n, <3>2
  <2>7. CASE l.op = "pause" /\ conn' = [conn EXCEPT ![l.id].is_paused = TRUE]
    <3> DEFINE d == [c EXCEPT !.is_paused = TRUE]
    <3>1. SameWriting(c, d) /\ d.open = c.open
      BY <2>4, PausedGood
    <3>2. conn' = [conn EXCEPT ![l.id] = d]
      BY <2>7
    <3> HIDE DEF d
    <3>3. \A i \in Conns : SameWrites(i)
      BY <1>c, <2>1, <2>2, <3>1, <3>2
    <3> QED
      BY <2>7, <2>n, <3>3
  <2>8. CASE l.op = "resume" /\ conn' = [conn EXCEPT ![l.id] = Resumed(c)]
    <3>1. SameWriting(c, Resumed(c)) /\ Resumed(c).open = c.open
      BY <2>4, ResumedGood
    <3>2. \A i \in Conns : SameWrites(i)
      BY <1>c, <2>1, <2>2, <2>8, <3>1
    <3> QED
      BY <2>8, <2>n, <3>2
  <2>9. CASE l.op = "stop" /\ UNCHANGED conn
    BY <1>u, <2>1, <2>9, <2>n
  <2> QED
    BY <1>1, <2>5, <2>6, <2>7, <2>8, <2>9 DEF RunPosted, l
<1>2. CASE HandleEvent
  BY <1>2, <1>s, <1>u DEF HandleEvent, peerVars, ioVars
<1>3. CASE Open
  BY <1>3, <1>s, <1>u DEF Open, peerVars, history
<1>4. CASE AcceptFails
  BY <1>4, <1>s, <1>u DEF AcceptFails, peerVars, history
<1>5. ASSUME NEW i \in Conns, Recv(i) PROVE AllWriting'
  <2> DEFINE c == conn[i]
  <2>1. posted' = posted /\ UNCHANGED <<peer, phase, back, written>> /\ c \in TcpConnections
    BY <1>5, <1>f DEF Recv, history
  <2>2. PICK k \in 1 .. Len(c.reads) : \E n \in Int : \E b :
          /\ conn' = [conn EXCEPT ![i] = [c EXCEPT !.reads[k] = n, !.read_buf = b]]
          /\ n = -1 => peer[i] # "open"
    BY <1>5, RecvChanges
  <2> HIDE DEF c
  <2>3. PICK n \in Int : \E b :
          /\ conn' = [conn EXCEPT ![i] = [c EXCEPT !.reads[k] = n, !.read_buf = b]]
          /\ n = -1 => peer[i] # "open"
    BY <2>2
  <2>4. PICK b : /\ conn' = [conn EXCEPT ![i] = [c EXCEPT !.reads[k] = n, !.read_buf = b]]
                 /\ n = -1 => peer[i] # "open"
    BY <2>3
  <2> DEFINE d == [c EXCEPT !.reads[k] = n, !.read_buf = b]
  <2>5. SameWriting(c, d) /\ d.open = c.open
    BY <2>1 DEF TcpConnections, SameWriting
  <2>6. conn' = [conn EXCEPT ![i] = d]
    BY <2>4
  <2> HIDE DEF d
  <2> QED
    BY <1>c, <1>s, <2>1, <2>5, <2>6 DEF c
<1>6. ASSUME NEW i \in Conns, ReadHandler(i) PROVE AllWriting'
  <2> DEFINE c == conn[i]
             rest == [c EXCEPT !.reads = Tail(@)]
  <2>1. /\ c \in TcpConnections /\ c.reads # <<>> /\ c.reads \in Seq(Int)
        /\ (\A k \in 1 .. Len(c.reads) : c.reads[k] \in -1 .. Len(c.read_buf))
        /\ c.is_writing <=> c.write_queue # <<>>
        /\ posted' = posted /\ UNCHANGED <<peer, phase, back, written>>
    BY <1>6, <1>t DEF ReadHandler, peerVars, history, GoodConnections, TcpConnections
  <2> HIDE DEF c
  <2>2. rest \in GoodConnections /\ SameWriting(c, rest) /\ rest.open = c.open
    <3> DEFINE r == Tail(c.reads)
    <3>1. r \in Seq(Int) /\ \A k \in 1 .. Len(r) : r[k] \in -1 .. Len(c.read_buf)
      BY <2>1
    <3> HIDE DEF r
    <3>2. /\ rest \in TcpConnections /\ rest.reads = r /\ rest.read_buf = c.read_buf
          /\ SameWriting(c, rest) /\ rest.open = c.open
      BY <2>1, <3>1 DEF TcpConnections, SameWriting, r
    <3> HIDE DEF rest
    <3> QED
      BY <2>1, <3>1, <3>2 DEF GoodConnections, SameWriting
  <2> HIDE DEF rest
  <2>3. CASE conn' = [conn EXCEPT ![i] = rest]
    BY <1>c, <1>s, <2>1, <2>2, <2>3 DEF c
  <2>4. CASE conn' = [conn EXCEPT ![i] = Forget(do_read(rest))]
    <3> DEFINE d == do_read(rest)
    <3>1. d \in GoodConnections /\ SameWriting(rest, d) /\ d.open = rest.open
      BY <2>2, do_readGood
    <3> HIDE DEF d
    <3>2. SameWriting(d, Forget(d)) /\ Forget(d).open = d.open
      BY <3>1, ForgetGood
    <3>3. SameWriting(c, Forget(d)) /\ Forget(d).open = c.open
      BY <2>2, <3>1, <3>2 DEF SameWriting
    <3> QED
      BY <1>c, <1>s, <2>1, <2>4, <3>3 DEF c, d
  <2> QED
    BY <1>6, <2>3, <2>4 DEF ReadHandler, c, rest
<1>7. ASSUME NEW i \in Conns, WriteHandler(i) PROVE AllWriting'
  <2> DEFINE c == conn[i]
             data == Head(c.write_queue)
             q == Tail(c.write_queue)
  <2>1. /\ c \in GoodConnections /\ c.is_writing /\ c.write_queue \in Seq(Seq(Bytes))
        /\ posted' = posted /\ UNCHANGED <<peer, phase, written>>
    BY <1>7, <1>t, <1>f DEF WriteHandler, history
  <2>2. c.write_queue # <<>> /\ data \in Seq(Bytes) /\ q \in Seq(Seq(Bytes))
    BY <2>1 DEF GoodConnections
  <2>3. phase[i] = "accepted"
    BY <1>7, NewConnectionGood DEF WriteHandler, PhaseInv
  <2>4. CASE conn' = [conn EXCEPT ![i].write_failed = TRUE] /\ UNCHANGED back
    <3> DEFINE d == [c EXCEPT !.write_failed = TRUE]
    <3>1. /\ SameReading(c, d) /\ d.write_queue = c.write_queue /\ d.pending_bytes = c.pending_bytes
      BY <2>1, FailedGood
    <3>2. conn' = [conn EXCEPT ![i] = d]
      BY <2>4
    <3> HIDE DEF d
    <3> QED
      BY <1>s, <1>t, <2>1, <2>4, <3>1, <3>2 DEF SameWrites, Settled, SameReading
  <2>5. CASE /\ data = <<>> \/ c.open
             /\ conn' = [conn EXCEPT ![i] = Written(c)]
             /\ back' = [back EXCEPT ![i] = IF peer[i] = "open" THEN @ \o data ELSE @]
    <3> DEFINE d == Written(c)
    <3>1. /\ SameReading(c, d) /\ d.write_queue = q /\ d.pending_bytes = c.pending_bytes - Len(data)
      BY <2>1, <2>2, WrittenGood
    <3> HIDE DEF d
    <3>2. conn' = [conn EXCEPT ![i] = d]
      BY <2>5 DEF d
    <3> SUFFICES ASSUME NEW j \in Conns PROVE Writing(j)'
      BY DEF AllWriting
    <3>3. PostedOf(posted, j)' = PostedOf(posted, j)
      BY <2>1 DEF PostedOf
    <3>4. CASE j # i
      <4>1. SameWrites(j)
        BY <1>t, <2>1, <2>5, <3>2, <3>4 DEF SameWrites, Settled
      <4> QED
        BY <1>i, <3>3, <4>1, SameWritesKeep
    <3>5. CASE j = i
      <4>0. PICK x, y, z, w, v :
              /\ x = back[i] /\ y = FlattenSeq(q) /\ z = data
              /\ w = PostedOf(posted, i) /\ v = written[i]
        OBVIOUS
      <4>1. Queued(i) = Cat(z, y)
        BY <2>1, <2>2, <4>0, FlattenHead DEF Queued, Cat
      <4>2. Queued(i)' = y
        BY <1>t, <3>1, <3>2, <4>0 DEF Queued
      <4>3. /\ x \in ByteStrings /\ y \in ByteStrings /\ z \in ByteStrings
            /\ w \in ByteStrings /\ v \in ByteStrings
        <5>1. FlattenSeq(q) \in Seq(Bytes)
          BY <2>2, FlattenType
        <5> QED
          BY <1>p, <1>t, <2>2, <4>0, <5>1 DEF ByteStrings
      <4>4. /\ IsPrefix(x, v) /\ conn[i].pending_bytes = Len(Cat(z, y))
            /\ Settled(i) => Cat(Cat(x, Cat(z, y)), w) = v
        BY <1>i, <4>0, <4>1 DEF Writing
      <4>5. conn'[i] = d /\ written'[i] = v /\ back'[i] = IF peer[i] = "open" THEN Cat(x, z) ELSE x
        BY <1>t, <2>1, <2>5, <3>2, <4>0 DEF Cat
      <4>6. Settled(i)' <=> peer[i] = "open" /\ c.open
        BY <2>1, <2>3, <3>1, <4>5 DEF Settled, SameReading
      <4>7. peer[i] = "open" /\ c.open => Settled(i)
        BY DEF Settled
      <4>e. data = <<>> => z = <<>>
        BY <4>0
      <4>p. conn'[i].pending_bytes = c.pending_bytes - Len(z)
        BY <3>1, <4>0, <4>5
      <4>w. PostedOf(posted, i) = w
        BY <4>0
      <4> HIDE DEF data, q, c
      <4>8. conn'[i].pending_bytes = Len(Queued(i)')
        <5>1. Len(Cat(z, y)) = Len(z) + Len(y) /\ Len(y) \in Nat /\ Len(z) \in Nat
          BY <4>3, CatLen
        <5> QED
          BY <4>2, <4>4, <4>p, <5>1 DEF c
      <4>9. /\ Cat(Cat(x, Cat(z, y)), w) = Cat(Cat(Cat(x, z), y), w)
            /\ Cat(Cat(x, Cat(z, y)), w) = Cat(Cat(x, z), Cat(y, w))
        BY <4>3, CatAssociative, CatType
      <4>10. Settled(i)' => Cat(Cat(back'[i], Queued(i)'), w) = v
        BY <4>2, <4>4, <4>5, <4>6, <4>7, <4>9
      <4>11. IsPrefix(back'[i], v)
        <5>1. CASE peer[i] # "open"
          BY <4>4, <4>5, <5>1
        <5>2. CASE peer[i] = "open" /\ ~c.open
          <6>1. z = <<>>
            BY <2>5, <4>e, <5>2 DEF c, data
          <6>2. Cat(x, <<>>) = x
            BY <4>3, CatEmpty
          <6> QED
            BY <4>4, <4>5, <5>2, <6>1, <6>2
        <5>3. CASE peer[i] = "open" /\ c.open
          <6>1. back'[i] = Cat(x, z) /\ Cat(x, z) \in ByteStrings /\ Cat(y, w) \in ByteStrings
            BY <4>3, <4>5, <5>3, CatType
          <6>2. Cat(Cat(x, z), Cat(y, w)) = v
            BY <4>4, <4>7, <4>9, <5>3
          <6> QED
            BY <4>3, <6>1, <6>2, CatPrefix
        <5> QED
          BY <5>1, <5>2, <5>3
      <4> QED
        BY <3>3, <3>5, <4>5, <4>8, <4>10, <4>11, <4>w DEF Writing
    <3> QED
      BY <3>4, <3>5
  <2> QED
    BY <1>7, <2>4, <2>5 DEF WriteHandler
<1>8. ASSUME NEW i \in Conns, Accept(i) PROVE AllWriting'
  <2>1. /\ posted' = posted /\ UNCHANGED <<peer, back, written>> /\ phase[i] = "backlog"
        /\ phase' = [phase EXCEPT ![i] = "accepted"]
    BY <1>8 DEF Accept, Backlog, history
  <2>2. CASE UNCHANGED conn
    BY <1>s, <1>t, <2>1, <2>2 DEF SameWrites, Settled
  <2>3. CASE conn' = [conn EXCEPT ![i] = do_read([@ EXCEPT !.open = TRUE])]
    <3> DEFINE o == [conn[i] EXCEPT !.open = TRUE]
               d == do_read(o)
    <3>1. o \in GoodConnections /\ SameWriting(conn[i], o)
      BY <1>t, OpenedGood
    <3>2. conn' = [conn EXCEPT ![i] = d]
      BY <2>3
    <3> HIDE DEF o
    <3>3. SameWriting(o, d)
      BY <3>1, do_readGood
    <3> HIDE DEF d
    <3> QED
      BY <1>s, <1>t, <2>1, <3>1, <3>2, <3>3 DEF SameWrites, Settled, SameWriting
  <2> QED
    BY <1>8, <2>2, <2>3 DEF Accept
<1>9. ASSUME NEW i \in Conns, Connect(i) PROVE AllWriting'
  <2>1. /\ posted' = posted /\ UNCHANGED <<conn, peer, back, written>> /\ phase[i] = "none"
        /\ phase' = [phase EXCEPT ![i] = "backlog"]
    BY <1>9 DEF Connect, ioVars, history
  <2> QED
    BY <1>s, <1>t, <2>1 DEF SameWrites, Settled
<1>10. ASSUME NEW i \in Conns, PeerSend(i) PROVE AllWriting'
  BY <1>10, <1>s, <1>u DEF PeerSend, ioVars, history
<1>11. ASSUME NEW i \in Conns, NEW how \in {"fin", "reset"}, PeerClose(i, how) PROVE AllWriting'
  <2>1. /\ posted' = posted /\ UNCHANGED <<conn, phase, back, written>> /\ how # "open"
        /\ peer' = [peer EXCEPT ![i] = how]
    BY <1>11 DEF PeerClose, ioVars, history
  <2> QED
    BY <1>s, <1>t, <2>1 DEF SameWrites, Settled
<1>12. ASSUME NEW i \in Conns, NEW cmd \in {"KICK", "CLOSE"}, Kick(i, cmd) PROVE AllWriting'
  <2> DEFINE none == <<>>
  <2>0. PICK q : q = IF cmd = "CLOSE" THEN ldriver("send", i, none) ELSE posted
    OBVIOUS
  <2>1. /\ socket_close(i, q) /\ UNCHANGED <<conn, peer, phase, back, written>>
    BY <1>12, <2>0 DEF Kick, peerVars
  <2>2. /\ none \in Seq(Bytes) /\ none = <<>>
        /\ {"send", "close", "stop"} \subseteq {"send", "close", "pause", "resume", "stop"}
    OBVIOUS
  <2>3. posted' \in {q, Append(q, Lambda("close", i, none)), Append(q, Lambda("stop", i, none))}
    BY <2>1 DEF socket_close, lclose, lcloseSocket, close_connection
  <2>4. q \in {posted, Append(posted, Lambda("send", i, none))}
    BY <2>0 DEF ldriver
  <2> HIDE DEF none
  <2>5. q \in Seq(Lambdas) /\ \A j \in Conns : PostedOf(q, j) = PostedOf(posted, j)
    <3>1. CASE q = posted
      BY <1>t, <3>1
    <3>2. CASE q = Append(posted, Lambda("send", i, none))
      BY <1>t, <2>2, <3>2, PostedAppend
    <3> QED
      BY <2>4, <3>1, <3>2
  <2>6. \A j \in Conns : PostedOf(posted', j) = PostedOf(q, j)
    <3>1. CASE posted' = q
      BY <3>1
    <3>k. q \in Seq(Lambdas) /\ none \in Seq(Bytes)
      BY <2>2, <2>5
    <3>2. CASE posted' = Append(q, Lambda("close", i, none))
      BY <3>2, <3>k, PostedAppend
    <3>3. CASE posted' = Append(q, Lambda("stop", i, none))
      BY <3>3, <3>k, PostedAppend
    <3> QED
      BY <2>3, <3>1, <3>2, <3>3
  <2>7. \A j \in Conns : PostedOf(posted, j)' = PostedOf(posted, j)
    BY <2>5, <2>6 DEF PostedOf
  <2> QED
    BY <1>i, <1>u, <2>1, <2>7, SameWritesKeep DEF AllWriting
<1>13. ASSUME NEW i \in Conns, NEW data \in Replies, Write(i, data) PROVE AllWriting'
  <2>1. UNCHANGED <<conn, peer, phase, back>> /\ data \in Seq(Bytes)
    BY <1>13, GateAssumption DEF Write, peerVars
  <2>2. CASE ~(listener_id \in store /\ i \in connections)
    <3>1. posted' = posted /\ written' = written
      BY <1>13, <1>t, <2>2 DEF Write, ldriver
    <3> QED
      BY <1>s, <1>u, <2>1, <3>1
  <2>3. CASE listener_id \in store /\ i \in connections
    <3>1. /\ posted' = Append(posted, Lambda("send", i, data))
          /\ written' = [written EXCEPT ![i] = Cat(written[i], data)]
      BY <1>13, <1>t, <2>3 DEF Write, ldriver, Cat
    <3>2. /\ PostedOf(posted', i) = Cat(PostedOf(posted, i), data)
          /\ \A j \in Conns : j # i => PostedOf(posted', j) = PostedOf(posted, j)
      BY <1>t, <2>1, <3>1, PostedAppend
    <3>o. PostedOf(posted, i)' = Cat(PostedOf(posted, i), data)
      BY <3>2 DEF PostedOf
    <3>3. \A j \in Conns : j # i => PostedOf(posted, j)' = PostedOf(posted, j)
      BY <3>2 DEF PostedOf
    <3> SUFFICES ASSUME NEW j \in Conns PROVE Writing(j)'
      BY DEF AllWriting
    <3>4. CASE j # i
      <4>1. SameWrites(j)
        BY <1>t, <2>1, <3>1, <3>4 DEF SameWrites, Settled
      <4> QED
        BY <1>i, <3>3, <3>4, <4>1, SameWritesKeep
    <3>5. CASE j = i
      <4>0. PICK x, y, w, v :
              x = back[i] /\ y = Queued(i) /\ w = PostedOf(posted, i) /\ v = written[i]
        OBVIOUS
      <4>1. /\ x \in ByteStrings /\ y \in ByteStrings /\ w \in ByteStrings /\ v \in ByteStrings
            /\ data \in ByteStrings
        BY <1>p, <1>t, <2>1, <4>0 DEF ByteStrings
      <4>2. /\ IsPrefix(x, v) /\ conn[i].pending_bytes = Len(y)
            /\ Settled(i) => Cat(Cat(x, y), w) = v
        BY <1>i, <4>0 DEF Writing
      <4>3. /\ back'[i] = x /\ written'[i] = Cat(v, data) /\ conn'[i] = conn[i]
            /\ Queued(i)' = y /\ PostedOf(posted, i)' = Cat(w, data) /\ (Settled(i)' => Settled(i))
        <5>1. back'[i] = x /\ conn'[i] = conn[i]
          BY <2>1, <4>0
        <5>2. written'[i] = Cat(v, data)
          BY <1>t, <3>1, <4>0
        <5>3. Queued(i)' = y
          BY <2>1, <4>0 DEF Queued
        <5>4. Settled(i)' => Settled(i)
          BY <2>1 DEF Settled
        <5>5. PostedOf(posted, i)' = Cat(w, data)
          BY <3>o, <4>0
        <5> QED
          BY <5>1, <5>2, <5>3, <5>4, <5>5
      <4>4. Cat(Cat(x, y), Cat(w, data)) = Cat(Cat(Cat(x, y), w), data)
        BY <4>1, CatAssociative, CatType
      <4>5. IsPrefix(x, Cat(v, data))
        <5>1. PICK u \in ByteStrings : Cat(x, u) = v
          BY <4>1, <4>2, CatPrefix
        <5>2. Cat(x, Cat(u, data)) = Cat(v, data)
          BY <4>1, <5>1, CatAssociative
        <5>3. Cat(v, data) \in ByteStrings /\ Cat(u, data) \in ByteStrings
          BY <4>1, CatType
        <5> QED
          BY <4>1, <5>2, <5>3, CatPrefix
      <4> QED
        BY <3>5, <4>2, <4>3, <4>4, <4>5 DEF Writing
    <3> QED
      BY <3>4, <3>5
  <2> QED
    BY <2>2, <2>3
<1>14. ASSUME NEW i \in Conns, NEW op \in {"pause", "resume"}, Flow(i, op) PROVE AllWriting'
  <2> DEFINE none == <<>>
  <2>1. /\ posted' = ldriver(op, i, none) /\ UNCHANGED <<conn, peer, phase, back, written>>
    BY <1>14 DEF Flow, peerVars, history
  <2>2. none \in Seq(Bytes) /\ op # "send" /\ op \in {"send", "close", "pause", "resume", "stop"}
    OBVIOUS
  <2>3. posted' \in {posted, Append(posted, Lambda(op, i, none))}
    BY <2>1 DEF ldriver
  <2> HIDE DEF none
  <2>4. \A j \in Conns : PostedOf(posted', j) = PostedOf(posted, j)
    <3>1. CASE posted' = posted
      BY <3>1
    <3>2. CASE posted' = Append(posted, Lambda(op, i, none))
      BY <1>t, <2>2, <3>2, PostedAppend
    <3> QED
      BY <2>3, <3>1, <3>2
  <2>5. \A j \in Conns : PostedOf(posted, j)' = PostedOf(posted, j)
    BY <2>4 DEF PostedOf
  <2> QED
    BY <1>i, <1>u, <2>1, <2>5, SameWritesKeep DEF AllWriting
<1>15. CASE UNCHANGED vars
  BY <1>15, <1>s, <1>u DEF vars, peerVars, ioVars, history
<1> QED
  BY <1>1, <1>2, <1>3, <1>4, <1>5, <1>6, <1>7, <1>8, <1>9, <1>10, <1>11, <1>12, <1>13,
     <1>14, <1>15 DEF Next

-------------------------------------------------------------------------------
(* Framing: the event of an accept comes before the data of its connection. *)

\* An accept of connection i is among the first n events of q.
Announced(q, i, n) == \E k \in 1 .. n : q[k].kind = "accept" /\ q[k].id = i

\* Every data event of q follows the accept of its connection, when that was not handled yet.
Introduced(q, cs) ==
  \A p \in 1 .. Len(q) :
    q[p].kind = "data" /\ cs[q[p].id] = <<>> => Announced(q, q[p].id, p - 1)

AcceptPart ==
  ~terminated =>
    /\ \A i \in Conns : phase[i] = "accepted" /\ calls[i] = <<>> => Announced(mailbox, i, Len(mailbox))
    /\ Introduced(mailbox, calls)

\* AcceptPart holds initially.
LEMMA InitAccept == Init => AcceptPart
BY DEF Init, AcceptPart, Introduced

\* An event that is added announces no less.
LEMMA AnnouncedAppend ==
  ASSUME NEW D, NEW q \in Seq(D), NEW e \in D, NEW i, NEW n \in 0 .. Len(q)
  PROVE  /\ Announced(q, i, n) => Announced(Append(q, e), i, n)
         /\ Announced(q, i, n) => Announced(Append(q, e), i, Len(q) + 1)
         /\ e.kind = "accept" /\ e.id = i => Announced(Append(q, e), i, Len(q) + 1)
<1> DEFINE a == Append(q, e)
<1>1. /\ Len(q) \in Nat /\ a[Len(q) + 1] = e
      /\ \A k \in 1 .. Len(q) : a[k] = q[k]
  OBVIOUS
<1> HIDE DEF a
<1>2. Announced(q, i, n) => Announced(a, i, n)
  <2>1. \A k \in 1 .. n : k \in 1 .. Len(q)
    BY <1>1
  <2> QED
    BY <1>1, <2>1 DEF Announced
<1>3. Announced(a, i, n) => Announced(a, i, Len(q) + 1)
  <2>1. \A k \in 1 .. n : k \in 1 .. Len(q) + 1
    BY <1>1
  <2> QED
    BY <2>1 DEF Announced
<1>4. e.kind = "accept" /\ e.id = i => Announced(a, i, Len(q) + 1)
  <2>1. Len(q) + 1 \in 1 .. Len(q) + 1
    BY <1>1
  <2> QED
    BY <1>1, <2>1 DEF Announced
<1> QED
  BY <1>2, <1>3, <1>4 DEF a

\* Taking out the event of something else announces no less.
LEMMA AnnouncedTail ==
  ASSUME NEW D, NEW q \in Seq(D), q # <<>>, NEW i, NEW n \in 1 .. Len(q), Announced(q, i, n),
         ~(Head(q).kind = "accept" /\ Head(q).id = i)
  PROVE  Announced(Tail(q), i, n - 1)
<1>1. PICK k \in 1 .. n : q[k].kind = "accept" /\ q[k].id = i
  BY DEF Announced
<1>2. k # 1
  BY <1>1
<1>3. k - 1 \in 1 .. n - 1 /\ Tail(q)[k - 1] = q[k]
  BY <1>2
<1> QED
  BY <1>1, <1>3 DEF Announced

\* An event is appended; data only behind the accept.
LEMMA IntroducedAppend ==
  ASSUME NEW q \in Seq(SocketEvents), NEW e \in SocketEvents, NEW cs, Introduced(q, cs),
         e.kind = "data" /\ cs[e.id] = <<>> => Announced(q, e.id, Len(q))
  PROVE  Introduced(Append(q, e), cs)
<1> DEFINE r == Append(q, e)
<1>1. /\ r \in Seq(SocketEvents) /\ Len(r) = Len(q) + 1 /\ Len(q) \in Nat /\ r[Len(q) + 1] = e
      /\ \A p \in 1 .. Len(q) : r[p] = q[p]
  BY AppendProperties
<1> SUFFICES ASSUME NEW p \in 1 .. Len(r), r[p].kind = "data", cs[r[p].id] = <<>>
             PROVE  Announced(r, r[p].id, p - 1)
  BY DEF Introduced
<1>2. CASE p = Len(q) + 1
  <2>1. r[p] = e /\ p - 1 = Len(q) /\ Len(q) \in 0 .. Len(q)
    BY <1>1, <1>2
  <2>2. Announced(q, e.id, Len(q))
    BY <2>1
  <2> QED
    BY <2>1, <2>2, AnnouncedAppend
<1>3. CASE p # Len(q) + 1
  <2>1. p \in 1 .. Len(q) /\ r[p] = q[p] /\ p - 1 \in 0 .. Len(q)
    BY <1>1, <1>3
  <2>2. Announced(q, q[p].id, p - 1)
    BY <2>1 DEF Introduced
  <2> QED
    BY <2>1, <2>2, AnnouncedAppend
<1> QED
  BY <1>2, <1>3

\* The first event is taken; when it is an accept its connection gets a callback.
LEMMA IntroducedTail ==
  ASSUME NEW q \in Seq(SocketEvents), q # <<>>, NEW cs, NEW ds, Introduced(q, cs),
         \A i \in Conns : ds[i] = <<>> => cs[i] = <<>>,
         Head(q).kind = "accept" => ds[Head(q).id] # <<>>
  PROVE  Introduced(Tail(q), ds)
<1> DEFINE r == Tail(q)
<1>1. /\ r \in Seq(SocketEvents) /\ Len(r) = Len(q) - 1 /\ Len(q) \in Nat
      /\ \A p \in 1 .. Len(r) : r[p] = q[p + 1] /\ p + 1 \in 1 .. Len(q)
  OBVIOUS
<1> SUFFICES ASSUME NEW p \in 1 .. Len(r), r[p].kind = "data", ds[r[p].id] = <<>>
             PROVE  Announced(r, r[p].id, p - 1)
  BY DEF Introduced
<1>2. r[p] = q[p + 1] /\ p + 1 \in 1 .. Len(q) /\ q[p + 1] \in SocketEvents
  BY <1>1
<1>3. q[p + 1].id \in Conns
  BY <1>2 DEF SocketEvents
<1>4. Announced(q, q[p + 1].id, p)
  BY <1>2, <1>3 DEF Introduced
<1>5. p \in 1 .. Len(q) /\ ~(Head(q).kind = "accept" /\ Head(q).id = q[p + 1].id)
  BY <1>1, <1>2
<1> QED
  BY <1>2, <1>4, <1>5, AnnouncedTail

\* The messages of lfilter as the handler gets them.
Handed(m) == [k \in 1 .. Len(m) |-> Call("message", m[k])]

\* The callbacks for the messages of lfilter.
LEMMA HandedType ==
  ASSUME NEW m \in Seq(Seq(Bytes))
  PROVE  /\ Handed(m) \in Seq(Callbacks) /\ Len(Handed(m)) = Len(m)
         /\ \A k \in 1 .. Len(m) : Handed(m)[k].name = "message" /\ Handed(m)[k].data = m[k]
<1>1. \A k \in 1 .. Len(m) : /\ Call("message", m[k]) \in Callbacks
                             /\ Call("message", m[k]).name = "message"
                             /\ Call("message", m[k]).data = m[k]
  BY DEF Call, Callbacks
<1> QED
  BY <1>1, Len(m) \in Nat DEF Handed

\* What on_data does for a connection that the gate knows.
LEMMA OnData ==
  ASSUME TypeInv, NEW i \in Conns, NEW data \in Seq(Bytes),
         i \in DOMAIN gate_conns, i \in socket_conns, on_data(i, data)
  PROVE  \E m \in Seq(Seq(Bytes)) : \E r \in Seq(Bytes) :
           /\ m = Frames[Cat(gate_conns[i], data)].msgs
           /\ r = Frames[Cat(gate_conns[i], data)].remaining
           /\ ~Complete(r, 1)
           /\ calls' = [calls EXCEPT ![i] = calls[i] \o Handed(m)]
           /\ gate_conns' = [gate_conns EXCEPT ![i] = r]
<1> DEFINE b == Cat(gate_conns[i], data)
           f == Frames[b]
<1>1. gate_conns[i] \in Seq(Bytes)
  BY DEF TypeInv, TypeOK
<1>2. b \in Seq(Bytes)
  BY <1>1 DEF Cat
<1>3. f = lfilter(gate_conns[i], data)
  BY DEF lfilter, Cat
<1> HIDE DEF b
<1>4. f \in Filtered /\ ~Complete(f.remaining, 1)
  BY <1>2, FramesType
<1> HIDE DEF f
<1>5. f.msgs \in Seq(Seq(Bytes)) /\ f.remaining \in Seq(Bytes)
  BY <1>4 DEF Filtered
<1>6. /\ gate_conns' = [gate_conns EXCEPT ![i] = f.remaining]
      /\ calls' = [calls EXCEPT ![i] = calls[i] \o Handed(f.msgs)]
  BY <1>3 DEF on_data, Handed
<1> QED
  BY <1>4, <1>5, <1>6 DEF f, b

\* What the handler of a read does to the mailbox.
LEMMA ReadEvent ==
  ASSUME TypeInv, NEW i \in Conns, ReadHandler(i)
  PROVE  \E e \in SocketEvents :
           /\ mailbox' = Append(mailbox, e) /\ e.id = i
           /\ \/ e.kind = "close" /\ conn[i].reads[1] = -1
              \/ /\ e.kind = "data" /\ conn[i].reads[1] > 0
                 /\ e.data = SubSeq(conn[i].read_buf, 1, conn[i].reads[1])
<1> DEFINE c == conn[i]
<1>1. c \in GoodConnections
  BY DEF TypeInv
<1>2. /\ c.reads # <<>>
      /\ \/ Head(c.reads) = -1 /\ mailbox' = Append(mailbox, SocketEvent("close", i, <<>>))
         \/ /\ Head(c.reads) > 0
            /\ mailbox' = Append(mailbox, SocketEvent("data", i, SubSeq(c.read_buf, 1, Head(c.reads))))
  BY DEF ReadHandler
<1> HIDE DEF c
<1>3. /\ c.reads \in Seq(Int) /\ c.read_buf \in Seq(Bytes)
      /\ \A k \in 1 .. Len(c.reads) : c.reads[k] \in -1 .. Len(c.read_buf)
  BY <1>1 DEF GoodConnections, TcpConnections
<1>4. Head(c.reads) = c.reads[1] /\ 1 \in 1 .. Len(c.reads) /\ Len(c.read_buf) \in Nat
  BY <1>2, <1>3
<1>5. c.reads[1] \in -1 .. Len(c.read_buf)
  BY <1>3, <1>4
<1> DEFINE none == <<>>
           buf == SubSeq(c.read_buf, 1, c.reads[1])
<1>6. none \in Seq(Bytes)
  OBVIOUS
<1>7. c.reads[1] > 0 => buf \in Seq(Bytes)
  BY <1>3, <1>4, <1>5
<1>8. CASE Head(c.reads) = -1 /\ mailbox' = Append(mailbox, SocketEvent("close", i, none))
  <2> HIDE DEF none
  <2>1. PICK e : e = SocketEvent("close", i, none)
    OBVIOUS
  <2>2. e \in SocketEvents /\ e.id = i /\ e.kind = "close"
    BY <1>6, <2>1 DEF SocketEvent, SocketEvents
  <2> QED
    BY <1>4, <1>8, <2>1, <2>2 DEF c
<1>9. CASE Head(c.reads) > 0 /\ mailbox' = Append(mailbox, SocketEvent("data", i, buf))
  <2> HIDE DEF buf
  <2>1. PICK e : e = SocketEvent("data", i, buf)
    OBVIOUS
  <2>2. e \in SocketEvents /\ e.id = i /\ e.kind = "data" /\ e.data = buf
    BY <1>4, <1>7, <1>9, <2>1 DEF SocketEvent, SocketEvents
  <2> QED
    BY <1>4, <1>9, <2>1, <2>2 DEF c, buf
<1> QED
  BY <1>2, <1>4, <1>8, <1>9

\* A sequence that something was appended to is not empty.
LEMMA AppendNotEmpty == \A T : \A s \in Seq(T) : \A x \in T : Append(s, x) # <<>>
BY AppendProperties

\* A step that puts e into the mailbox.
Emits(e) == mailbox' = Append(mailbox, e)

\* AcceptPart is kept by every step.
LEMMA AcceptStep == TypeInv /\ PhaseInv /\ AcceptPart /\ [Next]_vars => AcceptPart'
<1> SUFFICES ASSUME TypeInv, PhaseInv, AcceptPart, [Next]_vars, ~terminated', ~terminated
             PROVE  AcceptPart'
  <2>1. ASSUME terminated, [Next]_vars PROVE terminated'
    <3>1. ~RunPosted /\ ~HandleEvent /\ ~Open /\ ~AcceptFails
      BY <2>1 DEF RunPosted, HandleEvent, Open, AcceptFails
    <3>2. \A i \in Conns : ~Recv(i) /\ ~ReadHandler(i)
      BY <2>1 DEF Recv, ReadHandler
    <3>3. \A i \in Conns : ~WriteHandler(i) /\ ~Accept(i)
      BY <2>1 DEF WriteHandler, Accept
    <3>4. \A i \in Conns : ~Connect(i) /\ ~PeerSend(i) /\ \A how : ~PeerClose(i, how)
      BY <2>1 DEF Connect, PeerSend, PeerClose
    <3>5. \A i \in Conns : \A x : ~Kick(i, x) /\ ~Write(i, x) /\ ~Flow(i, x)
      BY <2>1 DEF Kick, Write, Flow, Command
    <3>6. ~Next
      BY <3>1, <3>2, <3>3, <3>4, <3>5 DEF Next
    <3> QED
      BY <2>1, <3>6 DEF vars, ioVars
  <2>2. terminated' => AcceptPart'
    BY DEF AcceptPart
  <2> QED
    BY <2>1, <2>2
<1>i. /\ \A i \in Conns : phase[i] = "accepted" /\ calls[i] = <<>> => Announced(mailbox, i, Len(mailbox))
      /\ Introduced(mailbox, calls)
  BY DEF AcceptPart
<1>t. /\ mailbox \in Seq(SocketEvents) /\ calls \in [Conns -> Seq(Callbacks)]
      /\ phase \in [Conns -> {"none", "backlog", "accepted"}] /\ Len(mailbox) \in Nat
      /\ posted \in Seq(Lambdas)
  BY DEF TypeInv, TypeOK
<1>k. ASSUME mailbox' = mailbox,
             \A i \in Conns : /\ phase'[i] = "accepted" => phase[i] = "accepted"
                              /\ calls'[i] = <<>> => calls[i] = <<>>
      PROVE  AcceptPart'
  <2>0. \A e \in SocketEvents : e.id \in Conns
    BY DEF SocketEvents
  <2>1. \A p \in 1 .. Len(mailbox) : mailbox[p].id \in Conns
    BY <1>t, <2>0
  <2>2. Introduced(mailbox, calls')
    BY <1>i, <1>k, <2>1 DEF Introduced
  <2> QED
    BY <1>i, <1>k, <2>2 DEF AcceptPart
<1>a. ASSUME NEW e \in SocketEvents, Emits(e), calls' = calls,
             e.kind = "data" => phase[e.id] = "accepted",
             \A i \in Conns : phase'[i] = "accepted" =>
               phase[i] = "accepted" \/ (e.kind = "accept" /\ e.id = i)
      PROVE  AcceptPart'
  <2>1. e.id \in Conns /\ Len(mailbox') = Len(mailbox) + 1 /\ Len(mailbox) \in 0 .. Len(mailbox)
    BY <1>a, <1>t DEF SocketEvents, Emits
  <2>2. Introduced(Append(mailbox, e), calls)
    BY <1>a, <1>i, <1>t, <2>1, IntroducedAppend
  <2>3. ASSUME NEW i \in Conns, phase'[i] = "accepted", calls[i] = <<>>
        PROVE  Announced(Append(mailbox, e), i, Len(mailbox) + 1)
    <3>1. CASE phase[i] = "accepted"
      BY <1>i, <1>t, <2>1, <2>3, <3>1, AnnouncedAppend
    <3>2. CASE e.kind = "accept" /\ e.id = i
      BY <1>t, <2>1, <3>2, AnnouncedAppend
    <3> QED
      BY <1>a, <2>3, <3>1, <3>2
  <2> QED
    BY <1>a, <2>1, <2>2, <2>3 DEF AcceptPart, Emits
<1>1. CASE RunPosted
  <2>1. UNCHANGED <<phase, calls>>
    BY <1>1 DEF RunPosted, peerVars
  <2>2. CASE mailbox' = mailbox
    BY <1>k, <2>1, <2>2
  <2> DEFINE none == <<>>
             l == Head(posted)
  <2>3. CASE mailbox' = Append(mailbox, SocketEvent("warning", l.id, none))
    <3>1. l.id \in Conns /\ none \in Seq(Bytes)
      <4>1. l \in Lambdas
        BY <1>1, <1>t DEF RunPosted
      <4> HIDE DEF l
      <4> QED
        BY <4>1 DEF Lambdas
    <3> HIDE DEF l, none
    <3>2. PICK e : e = SocketEvent("warning", l.id, none)
      OBVIOUS
    <3>3. e \in SocketEvents /\ e.kind = "warning"
      BY <3>1, <3>2 DEF SocketEvent, SocketEvents
    <3>4. Emits(e)
      BY <2>3, <3>2 DEF Emits
    <3> QED
      BY <1>a, <2>1, <3>3, <3>4
  <2>4. mailbox' = mailbox \/ mailbox' = Append(mailbox, SocketEvent("warning", l.id, none))
    BY <1>1 DEF RunPosted
  <2> QED
    BY <2>2, <2>3, <2>4
<1>2. CASE HandleEvent
  <2> DEFINE ev == Head(mailbox)
  <2>1. UNCHANGED phase /\ mailbox # <<>> /\ mailbox' = Tail(mailbox) /\ ev \in SocketEvents
    BY <1>2, <1>t DEF HandleEvent, peerVars
  <2> HIDE DEF ev
  <2>2. ev.id \in Conns
    BY <2>1 DEF SocketEvents
  <2>c. ASSUME on_accept(ev.id) PROVE calls'[ev.id] # <<>> /\ \A i \in Conns \ {ev.id} : calls'[i] = calls[i]
    <3> DEFINE none == <<>>
    <3>1. Call("connect", none) \in Callbacks
      BY DEF Call, Callbacks
    <3>2. Append(calls[ev.id], Call("connect", none)) # <<>>
      BY <1>t, <2>2, <3>1, AppendNotEmpty
    <3>3. calls' = [calls EXCEPT ![ev.id] = Append(calls[ev.id], Call("connect", none))]
      BY <2>c DEF on_accept
    <3> QED
      BY <1>t, <2>2, <3>2, <3>3
  <2>3. \A i \in Conns : calls'[i] = <<>> => calls[i] = <<>>
    <3>1. CASE on_accept(ev.id)
      BY <2>c, <3>1
    <3>2. CASE on_close(ev.id)
      BY <1>t, <2>2, <3>2 DEF on_close
    <3>3. CASE UNCHANGED calls
      BY <3>3
    <3>4. CASE on_data(ev.id, ev.data)
      <4>1. CASE UNCHANGED calls
        BY <4>1
      <4>2. CASE ev.id \in DOMAIN gate_conns /\ ev.id \in socket_conns
        <5>1. ev.data \in Seq(Bytes)
          BY <2>1 DEF SocketEvents
        <5>2. PICK m \in Seq(Seq(Bytes)) : calls' = [calls EXCEPT ![ev.id] = calls[ev.id] \o Handed(m)]
          BY <2>2, <3>4, <4>2, <5>1, OnData
        <5>3. PICK s : s = Handed(m)
          OBVIOUS
        <5>4. s \in Seq(Callbacks)
          BY <5>3, HandedType
        <5>5. \A u \in Seq(Callbacks) : u \o s = <<>> => u = <<>>
          BY <5>4
        <5> QED
          BY <1>t, <2>2, <5>2, <5>3, <5>5
      <4> QED
        BY <3>4, <4>1, <4>2 DEF on_data
    <3> QED
      BY <1>2, <3>1, <3>2, <3>3, <3>4 DEF HandleEvent, ev
  <2>4. ev.kind = "accept" => calls'[ev.id] # <<>>
    <3>1. CASE on_accept(ev.id)
      BY <2>c, <3>1
    <3> QED
      BY <1>2, <3>1 DEF HandleEvent, ev
  <2>5. Introduced(Tail(mailbox), calls')
    BY <1>i, <1>t, <2>1, <2>3, <2>4, IntroducedTail DEF ev
  <2>6. ASSUME NEW i \in Conns, phase[i] = "accepted", calls'[i] = <<>>
        PROVE  Announced(Tail(mailbox), i, Len(Tail(mailbox)))
    <3>1. Announced(mailbox, i, Len(mailbox)) /\ ~(ev.kind = "accept" /\ ev.id = i)
      BY <1>i, <2>3, <2>4, <2>6
    <3>2. Len(mailbox) \in 1 .. Len(mailbox) /\ Len(Tail(mailbox)) = Len(mailbox) - 1
      BY <1>t, <2>1
    <3> QED
      BY <1>t, <2>1, <3>1, <3>2, AnnouncedTail DEF ev
  <2> QED
    BY <2>1, <2>5, <2>6 DEF AcceptPart
<1>3. CASE Open
  BY <1>3, <1>k DEF Open, peerVars, history
<1>4. CASE AcceptFails
  BY <1>4, <1>k DEF AcceptFails, peerVars, luaVars, history
<1>5. ASSUME NEW i \in Conns, Recv(i) PROVE UNCHANGED <<mailbox, phase, calls>>
  BY <1>5 DEF Recv, luaVars, history
<1>6. ASSUME NEW i \in Conns, ReadHandler(i) PROVE AcceptPart'
  <2>1. UNCHANGED <<phase, calls>> /\ conn[i].reads # <<>>
    BY <1>6 DEF ReadHandler, peerVars, history
  <2>2. phase[i] = "accepted"
    BY <2>1, NewConnectionGood DEF PhaseInv
  <2>3. PICK e \in SocketEvents : mailbox' = Append(mailbox, e) /\ e.id = i /\ e.kind # "accept"
    BY <1>6, ReadEvent
  <2>4. Emits(e)
    BY <2>3 DEF Emits
  <2> QED
    BY <1>a, <2>1, <2>2, <2>3, <2>4
<1>7. ASSUME NEW i \in Conns, WriteHandler(i) PROVE AcceptPart'
  <2>1. UNCHANGED <<phase, calls>>
    BY <1>7 DEF WriteHandler, history
  <2> DEFINE none == <<>>
  <2>2. mailbox' = mailbox \/ mailbox' = Append(mailbox, SocketEvent("close", i, none))
    BY <1>7 DEF WriteHandler
  <2>3. CASE mailbox' = mailbox
    BY <1>k, <2>1, <2>3
  <2>4. CASE mailbox' = Append(mailbox, SocketEvent("close", i, none))
    <3>1. none \in Seq(Bytes)
      OBVIOUS
    <3> HIDE DEF none
    <3>2. PICK e : e = SocketEvent("close", i, none)
      OBVIOUS
    <3>3. e \in SocketEvents /\ e.kind = "close"
      BY <3>1, <3>2 DEF SocketEvent, SocketEvents
    <3>4. Emits(e)
      BY <2>4, <3>2 DEF Emits
    <3> QED
      BY <1>a, <2>1, <3>3, <3>4
  <2> QED
    BY <2>2, <2>3, <2>4
<1>8. ASSUME NEW i \in Conns, Accept(i) PROVE AcceptPart'
  <2> DEFINE none == <<>>
  <2>1. /\ mailbox' = Append(mailbox, SocketEvent("accept", i, none)) /\ calls' = calls
        /\ phase' = [phase EXCEPT ![i] = "accepted"]
    BY <1>8 DEF Accept, history
  <2>2. none \in Seq(Bytes)
    OBVIOUS
  <2> HIDE DEF none
  <2>3. PICK e : e = SocketEvent("accept", i, none)
    OBVIOUS
  <2>4. e \in SocketEvents /\ e.kind = "accept" /\ e.id = i
    BY <2>2, <2>3 DEF SocketEvent, SocketEvents
  <2>5. Emits(e)
    BY <2>1, <2>3 DEF Emits
  <2>6. calls' = calls /\ \A j \in Conns : phase'[j] = phase[j] \/ j = i
    BY <1>t, <2>1
  <2> QED
    BY <1>a, <2>4, <2>5, <2>6
<1>9. ASSUME NEW i \in Conns, Connect(i) PROVE AcceptPart'
  <2>1. mailbox' = mailbox /\ calls' = calls /\ phase' = [phase EXCEPT ![i] = "backlog"]
    BY <1>9 DEF Connect, luaVars, history
  <2> QED
    BY <1>k, <1>t, <2>1
<1>10. ASSUME NEW i \in Conns, PeerSend(i) PROVE UNCHANGED <<mailbox, phase, calls>>
  BY <1>10 DEF PeerSend, luaVars, history
<1>11. ASSUME NEW i \in Conns, NEW how, PeerClose(i, how) PROVE UNCHANGED <<mailbox, phase, calls>>
  BY <1>11 DEF PeerClose, luaVars, history
<1>12. ASSUME NEW i \in Conns, NEW cmd, Kick(i, cmd) PROVE AcceptPart'
  <2> DEFINE none == <<>>
             ended == Append(calls[i], Call("kicked", none))
  <2>1. /\ mailbox' = mailbox /\ phase' = phase
        /\ calls' = [calls EXCEPT ![i] = IF i \in DOMAIN gate_conns THEN ended ELSE @]
    BY <1>12 DEF Kick, peerVars
  <2>2. calls[i] # <<>>
    BY <1>12 DEF Kick, Command, Known
  <2>3. ended # <<>>
    <3>1. Call("kicked", none) \in Callbacks
      BY DEF Call, Callbacks
    <3> QED
      BY <1>t, <3>1, AppendNotEmpty
  <2> HIDE DEF ended
  <2> QED
    BY <1>k, <1>t, <2>1, <2>2, <2>3
<1>13. ASSUME NEW i \in Conns, NEW data, Write(i, data) PROVE UNCHANGED <<mailbox, phase, calls>>
  BY <1>13 DEF Write, peerVars
<1>14. ASSUME NEW i \in Conns, NEW op, Flow(i, op) PROVE UNCHANGED <<mailbox, phase, calls>>
  BY <1>14 DEF Flow, peerVars, history
<1>15. CASE UNCHANGED <<mailbox, phase, calls>>
  BY <1>15, <1>k
<1>16. UNCHANGED vars => UNCHANGED <<mailbox, phase, calls>>
  BY DEF vars, peerVars, luaVars, history
<1> QED
  BY <1>1, <1>2, <1>3, <1>4, <1>5, <1>6, <1>7, <1>8, <1>9, <1>10, <1>11, <1>12, <1>13, <1>14,
     <1>15, <1>16 DEF Next

-------------------------------------------------------------------------------
(* Framing: the frames of a script.                                        *)

\* The frames of a script fit into their header.
LEMMA ScriptType ==
  ASSUME NEW i \in Conns
  PROVE  /\ Script[i] \in Seq(Payloads) /\ Len(Script[i]) \in Nat
         /\ \A k \in 1 .. Len(Script[i]) : Script[i][k] \in Payloads
<1>1. Script[i] \in Seq(Seq(Bytes)) /\ \A k \in 1 .. Len(Script[i]) : Packable(Script[i][k])
  BY GateAssumption
<1>2. \A k \in 1 .. Len(Script[i]) : Script[i][k] \in Payloads
  BY <1>1 DEF Payloads
<1>3. PICK s : s = Script[i]
  OBVIOUS
<1>4. s \in Seq(Seq(Bytes)) /\ \A k \in 1 .. Len(s) : s[k] \in Payloads
  BY <1>1, <1>2, <1>3
<1>5. s \in Seq(Payloads) /\ Len(s) \in Nat
  BY <1>4
<1> QED
  BY <1>2, <1>3, <1>5

\* The first n payloads of a script, and the bytes of the frames after n up to m.
First(i, n) == SubSeq(Script[i], 1, n)
Some(i, n, m) == SubSeq(Script[i], n + 1, m)
Between(i, n, m) == Stream(Some(i, n, m))

\* The frames between two points of a script, and their bytes.
LEMMA SomeType ==
  ASSUME NEW i \in Conns, NEW n \in Nat, NEW m \in Nat, n <= m, m <= Len(Script[i])
  PROVE  /\ Some(i, n, m) \in Seq(Payloads) /\ Len(Some(i, n, m)) = m - n
         /\ Between(i, n, m) \in ByteStrings
<1>1. Script[i] \in Seq(Payloads) /\ Len(Script[i]) \in Nat
  BY ScriptType
<1>2. Some(i, n, m) \in Seq(Payloads) /\ Len(Some(i, n, m)) = m - n
  BY <1>1 DEF Some
<1> QED
  BY <1>2, StreamType DEF Between, ByteStrings

\* Nothing was sent.
LEMMA BetweenNone ==
  ASSUME NEW i \in Conns PROVE Between(i, 0, 0) = <<>> /\ First(i, 0) = <<>>
<1>1. Some(i, 0, 0) = <<>> /\ First(i, 0) = <<>>
  BY ScriptType DEF Some, First
<1>2. <<>> \in Seq(Payloads)
  OBVIOUS
<1> QED
  BY <1>1, <1>2, StreamIsPicked, PickedEmpty DEF Between

\* The next frame is sent.
LEMMA BetweenNext ==
  ASSUME NEW i \in Conns, NEW n \in Nat, NEW m \in Nat, n <= m, m < Len(Script[i])
  PROVE  /\ lpack(Script[i][m + 1]) \in ByteStrings
         /\ Between(i, n, m + 1) = Cat(Between(i, n, m), lpack(Script[i][m + 1]))
<1>1. Script[i] \in Seq(Payloads) /\ Len(Script[i]) \in Nat /\ Script[i][m + 1] \in Payloads
  BY ScriptType
<1>2. PICK s, p : s = Script[i] /\ p = Script[i][m + 1]
  OBVIOUS
<1>3. SubSeq(s, n + 1, m + 1) = Append(SubSeq(s, n + 1, m), p)
  <2> DEFINE a == SubSeq(s, n + 1, m + 1)
             b == SubSeq(s, n + 1, m)
             c == Append(b, p)
  <2>1. s \in Seq(Payloads) /\ Len(s) \in Nat /\ p \in Payloads /\ p = s[m + 1] /\ m < Len(s)
    BY <1>1, <1>2
  <2>2. /\ a \in Seq(Payloads) /\ Len(a) = m + 1 - n
        /\ \A k \in 1 .. Len(a) : a[k] = s[n + k]
    BY <2>1
  <2>3. /\ b \in Seq(Payloads) /\ Len(b) = m - n
        /\ \A k \in 1 .. Len(b) : b[k] = s[n + k]
    BY <2>1
  <2> HIDE DEF a, b
  <2>4. /\ c \in Seq(Payloads) /\ Len(c) = Len(b) + 1 /\ c[Len(b) + 1] = p
        /\ \A k \in 1 .. Len(b) : c[k] = b[k]
    BY <2>1, <2>3, AppendProperties
  <2> HIDE DEF c
  <2>5. Len(a) = Len(c)
    BY <2>2, <2>3, <2>4
  <2>6. ASSUME NEW k \in 1 .. Len(a) PROVE a[k] = c[k]
    <3>1. CASE k \in 1 .. Len(b)
      BY <2>2, <2>3, <2>4, <2>6, <3>1
    <3>2. CASE k = Len(b) + 1
      BY <2>1, <2>2, <2>3, <2>4, <3>2
    <3> QED
      BY <2>2, <2>3, <3>1, <3>2
  <2>7. a = c
    BY <2>2, <2>4, <2>5, <2>6, SeqEqual
  <2> QED
    BY <2>7 DEF a, b, c
<1>4. Some(i, n, m + 1) = Append(Some(i, n, m), p) /\ Some(i, n, m) \in Seq(Payloads)
  <2>1. Some(i, n, m) \in Seq(Payloads)
    BY <1>1, SomeType
  <2> QED
    BY <1>2, <1>3, <2>1 DEF Some
<1>5. lpack(p) \in Seq(Bytes)
  BY <1>1, <1>2, lpackType DEF Payloads
<1>6. Stream(Append(Some(i, n, m), p)) = Cat(Stream(Some(i, n, m)), lpack(p))
  BY <1>1, <1>2, <1>4, StreamAppend DEF Cat
<1> QED
  BY <1>2, <1>4, <1>5, <1>6 DEF Between, ByteStrings

\* The filter finds the next frames of the script.
LEMMA BetweenFiltered ==
  ASSUME NEW i \in Conns, NEW n \in Nat, NEW m \in Nat, n <= m, m <= Len(Script[i]),
         NEW b \in ByteStrings, NEW x \in ByteStrings, Cat(b, x) = Between(i, n, m)
  PROVE  \E k \in n .. m :
           /\ Frames[b].msgs = Some(i, n, k)
           /\ Cat(Frames[b].remaining, x) = Between(i, k, m)
<1>1. PICK ss \in Seq(Payloads) : ss = Some(i, n, m) /\ Len(ss) = m - n
  BY SomeType
<1>2. b \in Seq(Bytes) /\ x \in Seq(Bytes) /\ b \o x = Stream(ss)
  BY <1>1 DEF ByteStrings, Cat, Between
<1>3. PICK j \in 0 .. Len(ss) :
        /\ Frames[b].msgs = SubSeq(ss, 1, j)
        /\ Frames[b].remaining \o x = Stream(SubSeq(ss, j + 1, Len(ss)))
  BY <1>2, FilterFindsFrames
<1>4. n + j \in n .. m /\ j \in Nat
  BY <1>1
<1>5. PICK s : s = Script[i] /\ s \in Seq(Payloads) /\ Len(s) \in Nat
  BY ScriptType
<1>6. SubSeq(ss, 1, j) = Some(i, n, n + j)
  <2>1. ss = SubSeq(s, n + 1, m) /\ m <= Len(s)
    BY <1>1, <1>5 DEF Some
  <2>2. SubSeq(SubSeq(s, n + 1, m), 1, j) = SubSeq(s, n + 1, n + j)
    BY <1>1, <1>4, <1>5, <2>1
  <2> QED
    BY <1>5, <2>1, <2>2 DEF Some
<1>7. SubSeq(ss, j + 1, Len(ss)) = Some(i, n + j, m)
  <2>1. ss = SubSeq(s, n + 1, m) /\ m <= Len(s)
    BY <1>1, <1>5 DEF Some
  <2>2. SubSeq(SubSeq(s, n + 1, m), j + 1, m - n) = SubSeq(s, (n + j) + 1, m)
    BY <1>1, <1>4, <1>5, <2>1
  <2> QED
    BY <1>1, <1>5, <2>1, <2>2 DEF Some
<1>8. Cat(Frames[b].remaining, x) = Between(i, n + j, m)
  BY <1>3, <1>7 DEF Cat, Between
<1> QED
  BY <1>3, <1>4, <1>6, <1>8

\* The first frames and the next ones.
LEMMA FirstSome ==
  ASSUME NEW i \in Conns, NEW n \in Nat, NEW k \in Nat, n <= k, k <= Len(Script[i])
  PROVE  First(i, n) \o Some(i, n, k) = First(i, k)
<1>1. PICK s : s = Script[i] /\ s \in Seq(Payloads) /\ Len(s) \in Nat /\ k <= Len(s)
  BY ScriptType
<1>2. SubSeq(s, 1, n) \o SubSeq(s, n + 1, k) = SubSeq(s, 1, k)
  BY <1>1
<1> QED
  BY <1>1, <1>2 DEF First, Some

-------------------------------------------------------------------------------
(* Framing: what the handler was given, and what is in the mailbox.        *)

Calling == [c \in Callbacks |-> IF c.name = "message" THEN <<c.data>> ELSE <<>>]
MessagesOf(cs) == Picked(cs, Calling)

\* What each callback gives is a sequence of payloads.
LEMMA CallingType == Calling \in [Callbacks -> Seq(Seq(Bytes))]
<1>1. \A c \in Callbacks : c.data \in Seq(Bytes)
  BY DEF Callbacks
<1>2. \A c \in Callbacks : <<c.data>> \in Seq(Seq(Bytes)) /\ <<>> \in Seq(Seq(Bytes))
  BY <1>1
<1>3. \A c \in Callbacks : (IF c.name = "message" THEN <<c.data>> ELSE <<>>) \in Seq(Seq(Bytes))
  BY <1>2
<1> QED
  BY <1>3 DEF Calling

\* The payloads that the handler was given are picked from its callbacks.
LEMMA MessagesIsPicked ==
  ASSUME NEW i, calls[i] \in Seq(Callbacks)
  PROVE  Messages(i) = MessagesOf(calls[i]) /\ MessagesOf(calls[i]) \in Seq(Seq(Bytes))
<1> DEFINE cs == calls[i]
<1>1. \A k \in 1 .. Len(cs) :
        Calling[cs[k]] = IF cs[k].name = "message" THEN <<cs[k].data>> ELSE <<>>
  BY DEF Calling
<1>2. [k \in 1 .. Len(cs) |-> IF cs[k].name = "message" THEN <<cs[k].data>> ELSE <<>>]
      = [k \in 1 .. Len(cs) |-> Calling[cs[k]]]
  BY <1>1
<1>3. MessagesOf(cs) \in Seq(Seq(Bytes))
  BY CallingType, PickedType DEF MessagesOf
<1> QED
  BY <1>2, <1>3 DEF MessagesOf, Messages, Picked

\* A callback that is not a message.
LEMMA MessagesAppend ==
  ASSUME NEW cs \in Seq(Callbacks), NEW c \in Callbacks, c.name # "message"
  PROVE  MessagesOf(Append(cs, c)) = MessagesOf(cs)
<1>1. MessagesOf(Append(cs, c)) = MessagesOf(cs) \o Calling[c]
  BY CallingType, PickedAppend DEF MessagesOf
<1>2. Calling[c] = <<>>
  BY DEF Calling
<1>3. MessagesOf(cs) \in Seq(Seq(Bytes))
  BY CallingType, PickedType DEF MessagesOf
<1> QED
  BY <1>1, <1>2, <1>3, ConcatEmptySeq

\* The callbacks of on_data add the payloads that lfilter found.
LEMMA MessagesHanded ==
  ASSUME NEW cs \in Seq(Callbacks), NEW m \in Seq(Seq(Bytes))
  PROVE  MessagesOf(cs \o Handed(m)) = MessagesOf(cs) \o m
<1>1. PICK t \in Seq(Callbacks) :
        /\ t = Handed(m) /\ Len(t) = Len(m)
        /\ \A k \in 1 .. Len(m) : t[k].name = "message" /\ t[k].data = m[k]
  BY HandedType
<1>2. ASSUME NEW k \in 1 .. Len(m) PROVE IsSingle(Calling[t[k]], m[k])
  <2>1. t[k] \in Callbacks /\ t[k].name = "message" /\ t[k].data = m[k]
    BY <1>1
  <2>2. Calling[t[k]] = <<m[k]>>
    BY <2>1 DEF Calling
  <2> QED
    BY <2>2 DEF IsSingle
<1>3. PICK f \in [Callbacks -> Seq(Seq(Bytes))] : f = Calling
  BY CallingType
<1>4. \A k \in 1 .. Len(m) : IsSingle(f[t[k]], m[k])
  BY <1>2, <1>3
<1>5. Adds(f, cs, t, m)
  BY <1>1, <1>4, PickedSingles
<1> QED
  BY <1>1, <1>3, <1>5 DEF MessagesOf, Adds

-------------------------------------------------------------------------------
(* The bytes in the mailbox.                                               *)

Boxing(i) == [e \in SocketEvents |-> IF e.kind = "data" /\ e.id = i THEN e.data ELSE <<>>]
BoxOf(q, i) == Picked(q, Boxing(i))

\* What each event gives is a byte string.
LEMMA BoxingType ==
  ASSUME NEW i PROVE Boxing(i) \in [SocketEvents -> Seq(Bytes)]
<1>1. \A e \in SocketEvents : (IF e.kind = "data" /\ e.id = i THEN e.data ELSE <<>>) \in Seq(Bytes)
  BY EmptyTyped DEF SocketEvents
<1> QED
  BY <1>1 DEF Boxing

\* The bytes of a connection in a mailbox.
LEMMA BoxType ==
  ASSUME NEW i, NEW q \in Seq(SocketEvents) PROVE BoxOf(q, i) \in ByteStrings
BY BoxingType, PickedType DEF BoxOf, ByteStrings

\* An event that is added.
LEMMA BoxAppend ==
  ASSUME NEW i, NEW q \in Seq(SocketEvents), NEW e \in SocketEvents
  PROVE  /\ e.kind = "data" /\ e.id = i => BoxOf(Append(q, e), i) = Cat(BoxOf(q, i), e.data)
         /\ e.kind # "data" \/ e.id # i => BoxOf(Append(q, e), i) = BoxOf(q, i)
<1>1. BoxOf(Append(q, e), i) = Cat(BoxOf(q, i), Boxing(i)[e])
  BY BoxingType, PickedAppend DEF BoxOf, Cat
<1>2. /\ e.kind = "data" /\ e.id = i => Boxing(i)[e] = e.data
      /\ e.kind # "data" \/ e.id # i => Boxing(i)[e] = <<>>
  BY DEF Boxing
<1>3. Cat(BoxOf(q, i), <<>>) = BoxOf(q, i)
  BY BoxType, CatEmpty
<1> QED
  BY <1>1, <1>2, <1>3

\* The event that is taken out.
LEMMA BoxHead ==
  ASSUME NEW i, NEW q \in Seq(SocketEvents), q # <<>>
  PROVE  /\ Head(q).kind = "data" /\ Head(q).id = i =>
              BoxOf(q, i) = Cat(Head(q).data, BoxOf(Tail(q), i))
         /\ Head(q).kind # "data" \/ Head(q).id # i => BoxOf(q, i) = BoxOf(Tail(q), i)
<1> DEFINE e == Head(q)
           r == Tail(q)
<1>1. e \in SocketEvents /\ r \in Seq(SocketEvents)
  OBVIOUS
<1>2. BoxOf(q, i) = Cat(Boxing(i)[e], BoxOf(r, i))
  BY BoxingType, PickedHead DEF BoxOf, Cat
<1> HIDE DEF e, r
<1>3. /\ e.kind = "data" /\ e.id = i => Boxing(i)[e] = e.data
      /\ e.kind # "data" \/ e.id # i => Boxing(i)[e] = <<>>
  BY <1>1 DEF Boxing
<1>4. Cat(<<>>, BoxOf(r, i)) = BoxOf(r, i)
  BY <1>1, BoxType, CatEmpty
<1> QED
  BY <1>2, <1>3, <1>4 DEF e, r

-------------------------------------------------------------------------------
(* Framing: what a connection has read and not handed over.                *)

\* The bytes of the only read, when it was performed.
ReadOf(c) ==
  IF Len(c.reads) = 1 /\ c.reads[1] > 0 THEN SubSeq(c.read_buf, 1, c.reads[1]) ELSE <<>>

\* A sequence of at most one member is empty or has exactly one.
LEMMA AtMostOne ==
  ASSUME NEW T, NEW r \in Seq(T), Len(r) <= 1
  PROVE  /\ r # <<>> => Len(r) = 1 /\ Tail(r) = <<>>
         /\ \A k \in 1 .. Len(r) : k = 1 /\ Len(r) = 1
<1>1. PICK n \in Nat : n = Len(r)
  OBVIOUS
<1>n. n <= 1
  BY <1>1
<1>2. ASSUME NEW k \in 1 .. Len(r) PROVE k = 1 /\ Len(r) = 1
  <2>1. k \in 1 .. n
    BY <1>1
  <2>2. k = 1 /\ n = 1
    BY <1>n, <2>1
  <2> QED
    BY Zenon, <1>1, <2>2
<1>3. ASSUME r # <<>> PROVE Len(r) = 1
  <2>1. n # 0
    BY <1>1, <1>3, EmptySeq
  <2>2. n = 1
    BY <1>n, <2>1
  <2> QED
    BY Zenon, <1>1, <2>2
<1>4. ASSUME r # <<>> PROVE Tail(r) = <<>>
  <2>1. Tail(r) \in Seq(T) /\ Len(Tail(r)) = 0
    BY <1>3, <1>4, HeadTailProperties
  <2> QED
    BY <2>1, EmptySeq
<1> QED
  BY <1>2, <1>3, <1>4

\* What was read is a byte string.
LEMMA ReadOfType ==
  ASSUME NEW c \in GoodConnections PROVE ReadOf(c) \in ByteStrings
<1>1. /\ c.reads \in Seq(Int) /\ c.read_buf \in Seq(Bytes)
      /\ \A k \in 1 .. Len(c.reads) : c.reads[k] \in -1 .. Len(c.read_buf)
  BY DEF GoodConnections, TcpConnections
<1>2. CASE Len(c.reads) = 1 /\ c.reads[1] > 0
  <2>1. c.reads[1] \in -1 .. Len(c.read_buf) /\ Len(c.read_buf) \in Nat
    BY <1>1, <1>2
  <2>2. SubSeq(c.read_buf, 1, c.reads[1]) \in Seq(Bytes)
    BY <1>1, <1>2, <2>1
  <2> QED
    BY <1>2, <2>2 DEF ReadOf, ByteStrings
<1>3. CASE ~(Len(c.reads) = 1 /\ c.reads[1] > 0)
  BY <1>3, EmptyTyped DEF ReadOf, ByteStrings
<1> QED
  BY <1>2, <1>3

\* A connection none of whose reads was performed.
LEMMA NothingRead ==
  ASSUME NEW c, \A k \in 1 .. Len(c.reads) : ~(c.reads[k] > 0)
  PROVE  ReadOf(c) = <<>>
BY DEF ReadOf

\* It depends on the reads and read_buf_ only.
LEMMA SameReadOf ==
  ASSUME NEW c, NEW d, d.reads = c.reads, d.read_buf = c.read_buf
  PROVE  ReadOf(d) = ReadOf(c)
BY DEF ReadOf

\* close() leaves a read that was performed to its handler.
LEMMA ClosedReadOf ==
  ASSUME NEW c \in GoodConnections PROVE ReadOf(Closed(c)) = ReadOf(c)
<1>1. PICK d : d = Closed(c)
  OBVIOUS
<1>2. /\ d.read_buf = c.read_buf /\ Len(d.reads) = Len(c.reads)
      /\ \A k \in 1 .. Len(c.reads) : d.reads[k] = IF c.reads[k] = 0 THEN -1 ELSE c.reads[k]
  BY <1>1, ClosedGood
<1>3. Len(c.reads) = 1 => /\ c.reads[1] > 0 => d.reads[1] = c.reads[1]
                          /\ ~(c.reads[1] > 0) => ~(d.reads[1] > 0)
  <2>1. c.reads \in Seq(Int)
    BY DEF GoodConnections, TcpConnections
  <2> QED
    BY <1>2, <2>1
<1> QED
  BY <1>1, <1>2, <1>3 DEF ReadOf

\* A read that is started on a connection without one has brought nothing yet.
LEMMA StartedReadOf ==
  ASSUME NEW c, NEW d, c.reads = <<>>, d.reads = <<>> \/ d.reads = Append(c.reads, IF c.open THEN 0 ELSE -1)
  PROVE  ReadOf(d) = <<>>
<1>1. CASE d.reads = <<>>
  BY <1>1, NothingRead
<1>2. CASE d.reads = Append(c.reads, IF c.open THEN 0 ELSE -1)
  <2>1. d.reads = <<IF c.open THEN 0 ELSE -1>>
    BY <1>2
  <2>2. Len(d.reads) = 1 /\ ~(d.reads[1] > 0)
    BY <2>1
  <2> QED
    BY <2>2 DEF ReadOf
<1> QED
  BY <1>1, <1>2

\* What is forgotten is not what was read.
LEMMA ForgetReadOf ==
  ASSUME NEW c \in GoodConnections PROVE ReadOf(Forget(c)) = ReadOf(c)
<1>1. CASE \E k \in 1 .. Len(c.reads) : c.reads[k] > 0
  BY <1>1 DEF Forget
<1>2. CASE ~\E k \in 1 .. Len(c.reads) : c.reads[k] > 0
  <2>1. Forget(c).reads = c.reads
    BY ForgetGood
  <2>2. ReadOf(c) = <<>>
    BY <1>2, NothingRead
  <2>3. ReadOf(Forget(c)) = <<>>
    BY <1>2, <2>1, NothingRead
  <2> QED
    BY <2>2, <2>3
<1> QED
  BY <1>1, <1>2

\* asio moves bytes from the wire to read_buf_.
LEMMA RecvMoves ==
  ASSUME TypeInv, NEW i \in Conns, Recv(i), Len(conn[i].reads) <= 1
  PROVE  Cat(ReadOf(conn'[i]), wire'[i]) = Cat(ReadOf(conn[i]), wire[i])
<1> DEFINE c == conn[i]
<1>1. /\ c \in TcpConnections /\ c.reads \in Seq(Int) /\ c.read_buf \in Seq(Bytes)
      /\ wire \in [Conns -> Seq(Bytes)] /\ wire[i] \in Seq(Bytes) /\ conn \in [Conns -> TcpConnections]
  BY DEF TypeInv, TypeOK, TcpConnections
<1>o. PICK j \in 1 .. Len(conn[i].reads) : Outstanding(i, j)
  BY Zenon DEF Recv
<1>2. PICK k \in 1 .. Len(conn[i].reads) :
        \/ \E n \in 1 .. ReadBufSize :
              /\ n <= Len(wire[i])
              /\ wire' = [wire EXCEPT ![i] = SubSeq(@, n + 1, Len(@))]
              /\ conn' = [conn EXCEPT
                   ![i].reads[k] = n,
                   ![i].read_buf = SubSeq(wire[i], 1, n) \o SubSeq(@, n + 1, Len(@))]
        \/ /\ conn' = [conn EXCEPT ![i].reads[k] = -1]
           /\ UNCHANGED wire
  BY DEF Recv
<1>3. k = 1 /\ Len(c.reads) = 1 /\ c.reads[1] = 0
  <2>1. c.reads[j] = 0
    BY <1>o DEF Outstanding
  <2>2. j = 1 /\ k = 1 /\ Len(c.reads) = 1
    <3>1. PICK r : r = conn[i].reads
      OBVIOUS
    <3>2. r \in Seq(Int) /\ Len(r) <= 1 /\ j \in 1 .. Len(r) /\ k \in 1 .. Len(r)
      BY <1>1, <3>1
    <3> QED
      BY <3>1, <3>2, AtMostOne
  <2> QED
    BY <2>1, <2>2
<1>4. ReadOf(c) = <<>>
  BY <1>3 DEF ReadOf
<1>5. ASSUME NEW n \in 1 .. ReadBufSize,
             n <= Len(wire[i]),
             wire' = [wire EXCEPT ![i] = SubSeq(@, n + 1, Len(@))],
             conn' = [conn EXCEPT
               ![i].reads[k] = n,
               ![i].read_buf = SubSeq(wire[i], 1, n) \o SubSeq(@, n + 1, Len(@))]
      PROVE  Cat(ReadOf(conn'[i]), wire'[i]) = wire[i]
  <2>0. PICK w : w = wire[i]
    OBVIOUS
  <2> DEFINE x == SubSeq(w, 1, n)
             y == SubSeq(c.read_buf, n + 1, Len(c.read_buf))
             z == SubSeq(w, n + 1, Len(w))
             b == x \o y
             d == [c EXCEPT !.reads[k] = n, !.read_buf = b]
  <2>1. conn' = [conn EXCEPT ![i] = d] /\ wire'[i] = z
    BY <1>1, <1>5, <2>0
  <2>2. conn'[i] = d
    BY <1>1, <2>1
  <2>n. n \in Nat /\ n > 0 /\ w \in Seq(Bytes) /\ n <= Len(w) /\ Len(w) \in Nat
    BY <1>1, <1>5, <2>0, GateAssumption
  <2>3. x \in Seq(Bytes) /\ Len(x) = n
    BY <2>n
  <2>4. y \in Seq(Bytes) /\ Len(y) \in Nat
    BY <1>1, <2>n
  <2>5. x \o z = w
    BY <2>n
  <2> HIDE DEF x, y, z
  <2>6. SubSeq(b, 1, n) = x
    <3>1. PICK xx, yy : xx = x /\ yy = y
      OBVIOUS
    <3>2. xx \in Seq(Bytes) /\ Len(xx) = n /\ yy \in Seq(Bytes)
      BY <2>3, <2>4, <3>1
    <3>3. SubSeq(xx \o yy, 1, n) = xx
      BY <2>n, <3>2
    <3> QED
      BY <3>1, <3>3
  <2>7. b \in Seq(Bytes)
    BY <2>3, <2>4
  <2> HIDE DEF b
  <2>8. d.read_buf = b /\ d.reads = [c.reads EXCEPT ![k] = n]
    BY <1>1 DEF TcpConnections
  <2>9. Len([c.reads EXCEPT ![k] = n]) = 1 /\ [c.reads EXCEPT ![k] = n][1] = n
    BY <1>1, <1>3
  <2> HIDE DEF d
  <2>10. ReadOf(d) = x
    BY <2>6, <2>8, <2>9, <2>n DEF ReadOf
  <2> QED
    BY <2>0, <2>1, <2>2, <2>5, <2>10 DEF Cat
<1>6. ASSUME conn' = [conn EXCEPT ![i].reads[k] = -1], UNCHANGED wire
      PROVE  ReadOf(conn'[i]) = <<>>
  <2> DEFINE m == -1
             d == [c EXCEPT !.reads[k] = m]
  <2>1. conn'[i] = d
    BY <1>1, <1>6
  <2>2. d.reads = [c.reads EXCEPT ![k] = m]
    BY <1>1 DEF TcpConnections
  <2>3. Len([c.reads EXCEPT ![k] = m]) = 1 /\ [c.reads EXCEPT ![k] = m][1] = m /\ ~(m > 0)
    BY <1>1, <1>3
  <2> HIDE DEF m, d
  <2> QED
    BY <2>1, <2>2, <2>3 DEF ReadOf
<1>7. Cat(<<>>, wire[i]) = wire[i]
  BY <1>1, CatEmpty DEF ByteStrings
<1> QED
  BY <1>2, <1>4, <1>5, <1>6, <1>7

\* The handler of the only read leaves nothing behind.
LEMMA HandledReadOf ==
  ASSUME TypeInv, NEW i \in Conns, ReadHandler(i), Len(conn[i].reads) <= 1
  PROVE  Len(conn[i].reads) = 1 /\ ReadOf(conn'[i]) = <<>>
<1> DEFINE c == conn[i]
           rest == [c EXCEPT !.reads = Tail(@)]
<1>0. c \in GoodConnections /\ conn \in [Conns -> TcpConnections]
  BY DEF TypeInv, TypeOK
<1>1. /\ c.reads # <<>>
      /\ \/ conn' = [conn EXCEPT ![i] = rest]
         \/ conn' = [conn EXCEPT ![i] = Forget(do_read(rest))]
  BY DEF ReadHandler
<1>s. /\ c \in TcpConnections /\ c.reads \in Seq(Int)
      /\ c.is_writing <=> c.write_queue # <<>>
  BY <1>0 DEF GoodConnections, TcpConnections
<1>2. Len(c.reads) = 1 /\ Tail(c.reads) = <<>>
  <2>0. Len(c.reads) <= 1
    OBVIOUS
  <2> QED
    BY <1>1, <1>s, <2>0, AtMostOne
<1> HIDE DEF c
<1>3. rest \in TcpConnections /\ rest.reads = <<>> /\ rest.is_writing = c.is_writing /\ rest.write_queue = c.write_queue
  <2>1. PICK t : t = Tail(c.reads) /\ t = <<>>
    BY <1>2
  <2>2. t \in Seq(Int) /\ rest = [c EXCEPT !.reads = t]
    BY <2>1, EmptyTyped
  <2> QED
    BY <1>s, <2>1, <2>2 DEF TcpConnections
<1> HIDE DEF rest
<1>4. rest \in GoodConnections
  BY <1>3, <1>s DEF GoodConnections
<1>5. ReadOf(rest) = <<>>
  BY <1>3, NothingRead
<1>6. PICK d : d = do_read(rest)
  OBVIOUS
<1>7. d \in GoodConnections /\ (d.reads = <<>> \/ d.reads = Append(rest.reads, IF rest.open THEN 0 ELSE -1))
  BY <1>3, <1>4, <1>6, do_readGood
<1>8. ReadOf(d) = <<>>
  BY <1>3, <1>7, StartedReadOf
<1>9. ReadOf(Forget(d)) = <<>>
  BY <1>7, <1>8, ForgetReadOf
<1> QED
  BY <1>0, <1>1, <1>2, <1>5, <1>6, <1>9 DEF c

-------------------------------------------------------------------------------
(* Framing: the bytes between the peer and the handler.                    *)

\* The bytes of connection i between the peer and the handler: in gateserver's buffer,
\* in the mailbox, in read_buf_ and on the wire.
BufferOf(i) == IF i \in DOMAIN gate_conns THEN gate_conns[i] ELSE <<>>
Reached(i) == Cat(ReadOf(conn[i]), wire[i])
Unread(i) == Cat(BufferOf(i), Cat(BoxOf(mailbox, i), Reached(i)))

\* The gate has not given connection i up.
Fed(i) == calls[i] = <<>> \/ i \in DOMAIN gate_conns

\* The handler was given the first n frames, and x is what a reset has lost.
Fits(i, n, x) ==
  Cat(Unread(i), x) = Between(i, n, sent[i]) /\ (peer[i] # "reset" => x = <<>>)
Framing(i) ==
  \E n \in Nat :
    /\ n <= sent[i] /\ MessagesOf(calls[i]) = First(i, n)
    /\ Fed(i) => \E x \in ByteStrings : Fits(i, n, x)
FramePart ==
  \A i \in Conns : sent[i] <= Len(Script[i]) /\ (i \notin overlap => Framing(i))

\* The buffer that gateserver keeps never holds a whole frame.
WholePart == \A i \in DOMAIN gate_conns : ~Complete(gate_conns[i], 1)

\* All these are byte strings.
LEMMA UnreadType ==
  ASSUME TypeInv, NEW i \in Conns
  PROVE  /\ BufferOf(i) \in ByteStrings /\ BoxOf(mailbox, i) \in ByteStrings
         /\ ReadOf(conn[i]) \in ByteStrings /\ wire[i] \in ByteStrings
         /\ Reached(i) \in ByteStrings /\ Unread(i) \in ByteStrings
<1>1. /\ conn[i] \in GoodConnections /\ mailbox \in Seq(SocketEvents) /\ wire[i] \in Seq(Bytes)
      /\ \A j \in DOMAIN gate_conns : gate_conns[j] \in Seq(Bytes)
  BY DEF TypeInv, TypeOK
<1>2. BufferOf(i) \in ByteStrings
  BY <1>1, EmptyTyped DEF BufferOf, ByteStrings
<1>3. BoxOf(mailbox, i) \in ByteStrings
  BY <1>1, BoxType
<1>4. ReadOf(conn[i]) \in ByteStrings
  BY <1>1, ReadOfType
<1>5. wire[i] \in ByteStrings
  BY <1>1 DEF ByteStrings
<1>6. Reached(i) \in ByteStrings
  BY <1>4, <1>5, CatType DEF Reached
<1>7. Unread(i) \in ByteStrings
  BY <1>2, <1>3, <1>6, CatType DEF Unread
<1> QED
  BY <1>2, <1>3, <1>4, <1>5, <1>6, <1>7

\* A step that leaves the frames of connection i and the bytes on their way as they are.
FrameSame(i) ==
  /\ sent'[i] = sent[i] /\ (peer'[i] # "reset" => peer[i] # "reset")
  /\ MessagesOf(calls'[i]) = MessagesOf(calls[i])
  /\ Fed(i)' => Fed(i) /\ Unread(i)' = Unread(i)

\* Such a step keeps Framing.
LEMMA FrameSameKeeps ==
  ASSUME NEW i \in Conns, Framing(i), FrameSame(i) PROVE Framing(i)'
<1>1. PICK n \in Nat :
        /\ n <= sent[i] /\ MessagesOf(calls[i]) = First(i, n)
        /\ Fed(i) => \E x \in ByteStrings : Fits(i, n, x)
  BY DEF Framing
<1>2. n <= sent'[i] /\ MessagesOf(calls'[i]) = First(i, n)
  BY <1>1 DEF FrameSame
<1>3. ASSUME Fed(i)' PROVE \E x \in ByteStrings : Fits(i, n, x)'
  <2>1. PICK x \in ByteStrings : Fits(i, n, x)
    BY <1>1, <1>3 DEF FrameSame
  <2>2. Unread(i)' = Unread(i) /\ sent'[i] = sent[i] /\ (peer'[i] # "reset" => peer[i] # "reset")
    BY <1>3 DEF FrameSame
  <2>3. Fits(i, n, x)'
    BY <2>1, <2>2 DEF Fits
  <2> QED
    BY <2>3
<1> QED
  BY <1>2, <1>3 DEF Framing

\* The same, in terms of where the bytes are.
LEMMA UnreadSame ==
  ASSUME NEW i \in Conns, BufferOf(i)' = BufferOf(i), BoxOf(mailbox', i) = BoxOf(mailbox, i),
         Reached(i)' = Reached(i)
  PROVE  Unread(i)' = Unread(i)
BY DEF Unread

\* A step that leaves alone what reached a connection.
LEMMA ReachedSame ==
  ASSUME NEW i \in Conns, ReadOf(conn'[i]) = ReadOf(conn[i]), wire'[i] = wire[i]
  PROVE  Reached(i)' = Reached(i)
BY DEF Reached

\* FramePart and WholePart hold initially.
LEMMA InitFrame == Init => FramePart /\ WholePart
<1> SUFFICES ASSUME Init PROVE FramePart /\ WholePart
  OBVIOUS
<1>1. DOMAIN gate_conns = {}
  BY DEF Init
<1>2. ASSUME NEW i \in Conns PROVE Framing(i)
  <2>1. MessagesOf(calls[i]) = First(i, 0)
    BY PickedEmpty, BetweenNone DEF Init, MessagesOf
  <2>2. BufferOf(i) = <<>> /\ BoxOf(mailbox, i) = <<>>
    BY <1>1, PickedEmpty DEF Init, BufferOf, BoxOf
  <2>3. Reached(i) = <<>>
    <3>1. ReadOf(NewConnection) = <<>>
      BY NewConnectionGood, NothingRead
    <3> QED
      BY <3>1, CatEmpty DEF Init, Reached
  <2>4. Unread(i) = <<>>
    BY <2>2, <2>3, CatEmpty DEF Unread
  <2>5. Fits(i, 0, <<>>) /\ <<>> \in ByteStrings
    BY <2>4, CatEmpty, BetweenNone DEF Init, Fits
  <2>6. sent[i] = 0
    BY DEF Init
  <2> QED
    BY <2>1, <2>5, <2>6 DEF Framing
<1>3. FramePart
  BY <1>2, ScriptType DEF FramePart, Init
<1> QED
  BY <1>1, <1>3 DEF WholePart

-------------------------------------------------------------------------------
(* Framing: the peer, the reads and lfilter.                               *)

\* The peer sends its next frame.
LEMMA SendFrames ==
  ASSUME TypeInv, NEW i \in Conns, PeerSend(i), sent[i] <= Len(Script[i]), Framing(i)
  PROVE  Framing(i)'
<1>1. /\ sent[i] \in Nat /\ sent \in [Conns -> Nat] /\ wire \in [Conns -> Seq(Bytes)]
      /\ sent[i] < Len(Script[i]) /\ peer[i] = "open" /\ UNCHANGED <<calls, gate_conns, mailbox, conn, peer>>
  BY DEF TypeInv, TypeOK, PeerSend, ioVars, luaVars, history
<1>2. PICK l : l = lpack(Script[i][sent[i] + 1])
  OBVIOUS
<1>3. sent'[i] = sent[i] + 1 /\ wire'[i] = Cat(wire[i], l)
  BY <1>1, <1>2 DEF PeerSend, Cat
<1>4. PICK n \in Nat :
        /\ n <= sent[i] /\ MessagesOf(calls[i]) = First(i, n)
        /\ Fed(i) => \E x \in ByteStrings : Fits(i, n, x)
  BY DEF Framing
<1>5. l \in ByteStrings /\ Between(i, n, sent[i] + 1) = Cat(Between(i, n, sent[i]), l)
  BY <1>1, <1>2, <1>4, BetweenNext
<1>6. Unread(i)' = Cat(Unread(i), l)
  <2> DEFINE b == BufferOf(i)
             q == BoxOf(mailbox, i)
             r == ReadOf(conn[i])
             w == wire[i]
  <2>1. b \in ByteStrings /\ q \in ByteStrings /\ r \in ByteStrings /\ w \in ByteStrings
    BY UnreadType
  <2>2. Unread(i)' = Cat(b, Cat(q, Cat(r, Cat(w, l))))
    BY <1>1, <1>3 DEF Unread, Reached, BufferOf
  <2>3. Unread(i) = Cat(b, Cat(q, Cat(r, w)))
    BY DEF Unread, Reached
  <2> HIDE DEF b, q, r, w
  <2>4. Cat(r, Cat(w, l)) = Cat(Cat(r, w), l) /\ Cat(r, w) \in ByteStrings
    BY <1>5, <2>1, CatAssociative, CatType
  <2>5. Cat(q, Cat(Cat(r, w), l)) = Cat(Cat(q, Cat(r, w)), l) /\ Cat(q, Cat(r, w)) \in ByteStrings
    BY <1>5, <2>1, <2>4, CatAssociative, CatType
  <2>6. Cat(b, Cat(Cat(q, Cat(r, w)), l)) = Cat(Cat(b, Cat(q, Cat(r, w))), l)
    BY <1>5, <2>1, <2>5, CatAssociative
  <2> QED
    BY <2>2, <2>3, <2>4, <2>5, <2>6
<1>7. ASSUME Fed(i)' PROVE \E x \in ByteStrings : Fits(i, n, x)'
  <2>1. Fed(i)
    BY <1>1, <1>7 DEF Fed
  <2>2. Unread(i) = Between(i, n, sent[i])
    <3>1. PICK x \in ByteStrings : Fits(i, n, x)
      BY <1>4, <2>1
    <3>2. x = <<>> /\ Cat(Unread(i), x) = Between(i, n, sent[i])
      BY <1>1, <3>1 DEF Fits
    <3> QED
      BY <3>2, UnreadType, CatEmpty
  <2>3. Unread(i)' = Between(i, n, sent'[i]) /\ Unread(i)' \in ByteStrings
    BY <1>3, <1>5, <1>6, <2>2, UnreadType, CatType
  <2>4. PICK u \in ByteStrings : u = Unread(i)'
    BY <2>3
  <2>5. Cat(u, <<>>) = u /\ <<>> \in ByteStrings
    BY CatEmpty
  <2>6. Fits(i, n, <<>>)'
    BY <2>3, <2>4, <2>5 DEF Fits
  <2> QED
    BY <2>5, <2>6
<1>8. n <= sent'[i] /\ MessagesOf(calls'[i]) = First(i, n)
  BY <1>1, <1>3, <1>4
<1> QED
  BY <1>7, <1>8 DEF Framing

\* A reset loses what is on the wire.
LEMMA CloseFrames ==
  ASSUME TypeInv, NEW i \in Conns, NEW how, PeerClose(i, how), Framing(i)
  PROVE  Framing(i)'
<1>1. /\ wire \in [Conns -> Seq(Bytes)] /\ peer \in [Conns -> {"open", "fin", "reset"}] /\ peer[i] = "open"
      /\ UNCHANGED <<calls, gate_conns, mailbox, conn, sent>>
  BY DEF TypeInv, TypeOK, PeerClose, ioVars, luaVars, history
<1>2. peer'[i] = how /\ wire'[i] = IF how = "reset" THEN <<>> ELSE wire[i]
  BY <1>1 DEF PeerClose
<1>3. CASE how # "reset"
  <2>1. wire'[i] = wire[i]
    BY <1>2, <1>3
  <2>2. FrameSame(i)
    BY <1>1, <2>1 DEF FrameSame, Fed, Unread, Reached, BufferOf
  <2> QED
    BY <2>2, FrameSameKeeps
<1>4. CASE how = "reset"
  <2>1. PICK n \in Nat :
          /\ n <= sent[i] /\ MessagesOf(calls[i]) = First(i, n)
          /\ Fed(i) => \E x \in ByteStrings : Fits(i, n, x)
    BY DEF Framing
  <2>2. ASSUME Fed(i)' PROVE \E x \in ByteStrings : Fits(i, n, x)'
    <3>1. Fed(i)
      BY <1>1, <2>2 DEF Fed
    <3>2. Unread(i) = Between(i, n, sent[i])
      <4>1. PICK x \in ByteStrings : Fits(i, n, x)
        BY <2>1, <3>1
      <4>2. x = <<>> /\ Cat(Unread(i), x) = Between(i, n, sent[i])
        BY <1>1, <4>1 DEF Fits
      <4> QED
        BY <4>2, UnreadType, CatEmpty
    <3> DEFINE b == BufferOf(i)
               q == BoxOf(mailbox, i)
               r == ReadOf(conn[i])
               w == wire[i]
    <3>3. b \in ByteStrings /\ q \in ByteStrings /\ r \in ByteStrings /\ w \in ByteStrings
      BY UnreadType
    <3>4. Unread(i)' = Cat(b, Cat(q, r))
      <4>1. Cat(r, <<>>) = r
        BY <3>3, CatEmpty
      <4>2. wire'[i] = <<>>
        BY <1>2, <1>4
      <4> QED
        BY <1>1, <4>1, <4>2 DEF Unread, Reached, BufferOf
    <3>5. Unread(i) = Cat(b, Cat(q, Cat(r, w)))
      BY DEF Unread, Reached
    <3> HIDE DEF b, q, r, w
    <3>6. Cat(Cat(b, Cat(q, r)), w) = Cat(b, Cat(q, Cat(r, w)))
      <4>1. Cat(Cat(b, Cat(q, r)), w) = Cat(b, Cat(Cat(q, r), w))
        BY <3>3, CatAssociative, CatType
      <4> QED
        BY <3>3, <4>1, CatAssociative
    <3>7. PICK lost \in ByteStrings : lost = w
      BY <3>3
    <3>8. Fits(i, n, lost)'
      BY <1>1, <1>2, <1>4, <3>2, <3>4, <3>5, <3>6, <3>7 DEF Fits
    <3> QED
      BY <3>8
  <2>3. n <= sent'[i] /\ MessagesOf(calls'[i]) = First(i, n)
    BY <1>1, <2>1
  <2> QED
    BY <2>2, <2>3 DEF Framing
<1> QED
  BY <1>3, <1>4

\* The handler of the only read moves its bytes to the mailbox.
LEMMA HandledFrames ==
  ASSUME TypeInv, NEW i \in Conns, ReadHandler(i), Len(conn[i].reads) <= 1
  PROVE  FrameSame(i)
<1>1. UNCHANGED <<sent, peer, wire, calls, gate_conns>> /\ mailbox \in Seq(SocketEvents)
  BY DEF ReadHandler, peerVars, history, TypeInv, TypeOK
<1>2. Len(conn[i].reads) = 1 /\ ReadOf(conn'[i]) = <<>>
  BY HandledReadOf
<1>3. PICK e \in SocketEvents :
        /\ mailbox' = Append(mailbox, e) /\ e.id = i
        /\ \/ e.kind = "close" /\ conn[i].reads[1] = -1
           \/ /\ e.kind = "data" /\ conn[i].reads[1] > 0
              /\ e.data = SubSeq(conn[i].read_buf, 1, conn[i].reads[1])
  BY ReadEvent
<1> DEFINE q == BoxOf(mailbox, i)
           r == ReadOf(conn[i])
           w == wire[i]
<1>4. q \in ByteStrings /\ r \in ByteStrings /\ w \in ByteStrings
  BY UnreadType
<1>5. BoxOf(mailbox', i) = Cat(q, r)
  <2>1. CASE e.kind = "close" /\ conn[i].reads[1] = -1
    <3>1. r = <<>>
      BY <2>1 DEF ReadOf
    <3>2. BoxOf(mailbox', i) = q
      BY <1>1, <1>3, <2>1, BoxAppend
    <3> QED
      BY <1>4, <3>1, <3>2, CatEmpty
  <2>2. CASE /\ e.kind = "data" /\ conn[i].reads[1] > 0
             /\ e.data = SubSeq(conn[i].read_buf, 1, conn[i].reads[1])
    <3>1. r = e.data
      BY <1>2, <2>2 DEF ReadOf
    <3>2. BoxOf(mailbox', i) = Cat(q, e.data)
      BY <1>1, <1>3, <2>2, BoxAppend
    <3> QED
      BY <3>1, <3>2
  <2> QED
    BY <1>3, <2>1, <2>2
<1>6. Reached(i)' = w
  BY <1>1, <1>2, <1>4, CatEmpty DEF Reached
<1>7. Cat(BoxOf(mailbox', i), Reached(i)') = Cat(q, Reached(i))
  <2>1. Cat(Cat(q, r), w) = Cat(q, Cat(r, w))
    BY <1>4, CatAssociative
  <2> QED
    BY <1>5, <1>6, <2>1 DEF Reached
<1>8. BufferOf(i)' = BufferOf(i) /\ (Fed(i)' => Fed(i))
  BY <1>1 DEF BufferOf, Fed
<1>9. Unread(i)' = Unread(i)
  BY <1>7, <1>8 DEF Unread
<1> QED
  BY <1>1, <1>8, <1>9 DEF FrameSame

\* What lfilter makes of the bytes of a data event.
LEMMA FilteredFrames ==
  ASSUME NEW i \in Conns, NEW n \in Nat, NEW s \in Nat, n <= s, s <= Len(Script[i]),
         NEW buf \in ByteStrings, NEW data \in ByteStrings, NEW box \in ByteStrings,
         NEW re \in ByteStrings, NEW x \in ByteStrings,
         Cat(Cat(buf, Cat(Cat(data, box), re)), x) = Between(i, n, s)
  PROVE  \E k \in n .. s :
           /\ Frames[Cat(buf, data)].msgs = Some(i, n, k)
           /\ Cat(Cat(Frames[Cat(buf, data)].remaining, Cat(box, re)), x) = Between(i, k, s)
<1>1. PICK b \in ByteStrings : b = Cat(buf, data)
  BY CatType
<1>2. PICK y \in ByteStrings : y = Cat(Cat(box, re), x)
  BY CatType
<1>3. Cat(box, re) \in ByteStrings
  BY CatType
<1>4. Cat(b, y) = Between(i, n, s)
  <2>1. Cat(Cat(data, box), re) = Cat(data, Cat(box, re))
    BY CatAssociative
  <2>2. Cat(buf, Cat(data, Cat(box, re))) = Cat(b, Cat(box, re))
    BY <1>1, <1>3, CatAssociative
  <2>3. Cat(Cat(b, Cat(box, re)), x) = Cat(b, y)
    BY <1>1, <1>2, <1>3, CatAssociative
  <2> QED
    BY <2>1, <2>2, <2>3
<1>5. PICK k \in n .. s :
        /\ Frames[b].msgs = Some(i, n, k)
        /\ Cat(Frames[b].remaining, y) = Between(i, k, s)
  BY <1>4, BetweenFiltered
<1>6. Frames[b].remaining \in ByteStrings
  BY <1>1, FramesType DEF Filtered, ByteStrings
<1>7. Cat(Cat(Frames[b].remaining, Cat(box, re)), x) = Cat(Frames[b].remaining, y)
  BY <1>2, <1>3, <1>6, CatAssociative
<1> QED
  BY <1>1, <1>5, <1>7

-------------------------------------------------------------------------------
(* Framing: the service.                                                   *)

\* The callbacks that are no message.
LEMMA CallTyped ==
  ASSUME NEW name \in {"connect", "disconnect", "kicked"}
  PROVE  Call(name, <<>>) \in Callbacks /\ Call(name, <<>>).name # "message"
BY EmptyTyped DEF Call, Callbacks

\* A callback that is no message adds no message.
LEMMA CallAppended ==
  ASSUME NEW cs \in Seq(Callbacks), NEW name \in {"connect", "disconnect", "kicked"},
         NEW ds, ds = Append(cs, Call(name, <<>>))
  PROVE  ds # <<>> /\ MessagesOf(ds) = MessagesOf(cs)
<1>1. PICK c \in Callbacks : c = Call(name, <<>>) /\ c.name # "message"
  BY CallTyped
<1> QED
  BY <1>1, MessagesAppend, AppendNotEmpty

\* The first event of the mailbox is taken out.
LEMMA BoxTaken ==
  ASSUME TypeInv, HandleEvent
  PROVE  /\ Head(mailbox) \in SocketEvents /\ Head(mailbox).id \in Conns
         /\ Head(mailbox).data \in ByteStrings /\ mailbox # <<>>
         /\ \A j \in Conns :
              /\ Head(mailbox).kind = "data" /\ Head(mailbox).id = j =>
                   BoxOf(mailbox, j) = Cat(Head(mailbox).data, BoxOf(mailbox', j))
              /\ Head(mailbox).kind # "data" \/ Head(mailbox).id # j =>
                   BoxOf(mailbox', j) = BoxOf(mailbox, j)
<1>1. mailbox \in Seq(SocketEvents) /\ mailbox # <<>> /\ mailbox' = Tail(mailbox)
  BY DEF TypeInv, TypeOK, HandleEvent
<1>2. Head(mailbox) \in SocketEvents
  BY <1>1
<1>3. PICK e \in SocketEvents : e = Head(mailbox)
  BY <1>2
<1>4. e.id \in Conns /\ e.data \in ByteStrings
  BY DEF SocketEvents, ByteStrings
<1>5. \A j \in Conns :
        /\ e.kind = "data" /\ e.id = j => BoxOf(mailbox, j) = Cat(e.data, BoxOf(mailbox', j))
        /\ e.kind # "data" \/ e.id # j => BoxOf(mailbox', j) = BoxOf(mailbox, j)
  BY <1>1, <1>3, BoxHead
<1> QED
  BY <1>1, <1>3, <1>4, <1>5

\* Data of a connection that the gate knows is cut into frames.
LEMMA DataFrames ==
  ASSUME TypeInv, NEW i \in Conns, NEW data \in ByteStrings,
         i \in DOMAIN gate_conns, i \in socket_conns, on_data(i, data),
         UNCHANGED <<sent, peer, wire, conn>>, mailbox' \in Seq(SocketEvents),
         BoxOf(mailbox, i) = Cat(data, BoxOf(mailbox', i)),
         sent[i] <= Len(Script[i]), Framing(i)
  PROVE  Framing(i)'
<1>0. /\ calls \in [Conns -> Seq(Callbacks)] /\ sent[i] \in Nat /\ gate_conns[i] \in ByteStrings
      /\ data \in Seq(Bytes)
  BY DEF TypeInv, TypeOK, ByteStrings
<1>1. PICK m \in Seq(Seq(Bytes)) : \E r \in Seq(Bytes) :
        /\ m = Frames[Cat(gate_conns[i], data)].msgs
        /\ r = Frames[Cat(gate_conns[i], data)].remaining
        /\ ~Complete(r, 1)
        /\ calls' = [calls EXCEPT ![i] = calls[i] \o Handed(m)]
        /\ gate_conns' = [gate_conns EXCEPT ![i] = r]
  BY <1>0, OnData
<1>2. PICK r \in Seq(Bytes) :
        /\ m = Frames[Cat(gate_conns[i], data)].msgs
        /\ r = Frames[Cat(gate_conns[i], data)].remaining
        /\ calls' = [calls EXCEPT ![i] = calls[i] \o Handed(m)]
        /\ gate_conns' = [gate_conns EXCEPT ![i] = r]
  BY <1>1
<1>3. PICK n \in Nat :
        /\ n <= sent[i] /\ MessagesOf(calls[i]) = First(i, n)
        /\ Fed(i) => \E x \in ByteStrings : Fits(i, n, x)
  BY DEF Framing
<1>4. PICK x \in ByteStrings : Fits(i, n, x)
  BY <1>3 DEF Fed
<1> DEFINE box == BoxOf(mailbox', i)
           re == Reached(i)
           buf == gate_conns[i]
<1>5. box \in ByteStrings /\ re \in ByteStrings
  BY BoxType, UnreadType
<1>6. Cat(Cat(buf, Cat(Cat(data, box), re)), x) = Between(i, n, sent[i])
  BY <1>4 DEF Fits, Unread, BufferOf
<1>7. PICK b : b = buf
  OBVIOUS
<1>8. PICK q \in ByteStrings : q = box
  BY <1>5
<1>9. PICK s : s = sent[i]
  OBVIOUS
<1>10. PICK u \in ByteStrings : u = re
  BY <1>5
<1>11. Cat(Cat(b, Cat(Cat(data, q), u)), x) = Between(i, n, s)
  BY <1>6, <1>7, <1>8, <1>9, <1>10
<1>12. b \in ByteStrings /\ s \in Nat /\ n <= s /\ s <= Len(Script[i])
  BY <1>0, <1>3, <1>7, <1>9
<1>13. PICK k \in n .. s :
         /\ Frames[Cat(b, data)].msgs = Some(i, n, k)
         /\ Cat(Cat(Frames[Cat(b, data)].remaining, Cat(q, u)), x) = Between(i, k, s)
  BY <1>11, <1>12, FilteredFrames
<1>14. m = Some(i, n, k) /\ Cat(Cat(r, Cat(q, u)), x) = Between(i, k, s) /\ k \in Nat /\ k <= s /\ n <= k
  BY <1>2, <1>7, <1>12, <1>13
<1>15. MessagesOf(calls'[i]) = First(i, k)
  <2>1. calls'[i] = calls[i] \o Handed(m)
    BY <1>0, <1>2
  <2>2. MessagesOf(calls[i] \o Handed(m)) = MessagesOf(calls[i]) \o m
    BY <1>0, MessagesHanded
  <2>3. First(i, n) \o Some(i, n, k) = First(i, k)
    <3>1. k <= Len(Script[i])
      BY <1>12, <1>14, ScriptType
    <3> QED
      BY Zenon, <1>14, <3>1, FirstSome
  <2>4. MessagesOf(calls'[i]) = MessagesOf(calls[i]) \o m
    BY Zenon, <2>1, <2>2
  <2>5. MessagesOf(calls[i]) \o m = First(i, n) \o Some(i, n, k)
    BY Zenon, <1>3, <1>14
  <2> QED
    BY Zenon, <2>3, <2>4, <2>5
<1>16. Unread(i)' = Cat(r, Cat(q, u))
  <2>1. BufferOf(i)' = r
    BY <1>2 DEF BufferOf
  <2>2. Reached(i)' = u
    BY <1>10 DEF Reached
  <2> QED
    BY <1>8, <2>1, <2>2 DEF Unread
<1>17. Fits(i, k, x)'
  BY <1>4, <1>9, <1>14, <1>16 DEF Fits
<1>18. k \in Nat /\ k <= sent'[i]
  BY <1>9, <1>14
<1> QED
  BY <1>15, <1>17, <1>18 DEF Framing

\* The service handles an event.
LEMMA EventFrames ==
  ASSUME TypeInv, TypeInv', CallsInv, BoxOrder, AcceptPart, HandleEvent, FramePart,
         NEW j \in Conns, j \notin overlap
  PROVE  Framing(j)'
<1> DEFINE ev == Head(mailbox)
           i == ev.id
<1>t. /\ calls \in [Conns -> Seq(Callbacks)] /\ mailbox \in Seq(SocketEvents)
      /\ mailbox' \in Seq(SocketEvents) /\ ~terminated /\ mailbox # <<>>
      /\ UNCHANGED <<sent, peer, wire, conn>> /\ DOMAIN gate_conns \subseteq Conns
  BY DEF TypeInv, TypeOK, HandleEvent, peerVars, ioVars
<1>b. /\ ev \in SocketEvents /\ i \in Conns /\ ev.data \in ByteStrings
      /\ ev.kind = "data" /\ i = j => BoxOf(mailbox, j) = Cat(ev.data, BoxOf(mailbox', j))
      /\ ev.kind # "data" \/ i # j => BoxOf(mailbox', j) = BoxOf(mailbox, j)
  BY BoxTaken
<1>h. ev = mailbox[1] /\ 1 \in 1 .. Len(mailbox)
  BY <1>t
<1>e. \/ ev.kind = "accept" /\ on_accept(i)
      \/ ev.kind = "data" /\ on_data(i, ev.data)
      \/ ev.kind = "close" /\ on_close(i)
      \/ ev.kind = "warning" /\ UNCHANGED <<socket_conns, gate_conns, calls>>
  BY DEF HandleEvent
<1>f. Framing(j) /\ sent[j] <= Len(Script[j])
  BY DEF FramePart
<1>r. Reached(j)' = Reached(j)
  BY <1>t DEF Reached
<1> HIDE DEF ev, i
<1>s. ASSUME BoxOf(mailbox', j) = BoxOf(mailbox, j) \/ ~Fed(j)', MessagesOf(calls'[j]) = MessagesOf(calls[j]),
             Fed(j)' => Fed(j) /\ BufferOf(j)' = BufferOf(j)
      PROVE  Framing(j)'
  <2>1. Fed(j)' => Unread(j)' = Unread(j)
    BY <1>s, <1>r, UnreadSame
  <2>2. FrameSame(j)
    BY <1>s, <1>t, <2>1 DEF FrameSame
  <2> QED
    BY <1>f, <2>2, FrameSameKeeps
<1>1. CASE ev.kind = "accept" /\ on_accept(i)
  <2>1. calls[i] = <<>>
    BY <1>1, <1>h DEF BoxOrder, i
  <2>2. i \notin DOMAIN gate_conns
    BY <1>b, <2>1 DEF CallsInv, Alive
  <2>3. /\ calls' = [calls EXCEPT ![i] = Append(calls[i], Call("connect", <<>>))]
        /\ DOMAIN gate_conns' = DOMAIN gate_conns \cup {i}
        /\ \A y \in DOMAIN gate_conns' : gate_conns'[y] = IF y = i THEN <<>> ELSE gate_conns[y]
    BY <1>1 DEF on_accept
  <2>4. BufferOf(j)' = BufferOf(j)
    BY <2>2, <2>3 DEF BufferOf
  <2>5. MessagesOf(calls'[j]) = MessagesOf(calls[j]) /\ (Fed(j)' => Fed(j))
    <3>1. CASE j # i
      <4>1. calls'[j] = calls[j] /\ (j \in DOMAIN gate_conns' <=> j \in DOMAIN gate_conns)
        BY <1>t, <1>b, <2>3, <3>1
      <4> QED
        BY <4>1 DEF Fed
    <3>2. CASE j = i
      <4>1. calls'[j] = Append(calls[j], Call("connect", <<>>)) /\ calls[j] \in Seq(Callbacks)
        BY <1>t, <2>3, <3>2
      <4> QED
        BY <2>1, <3>2, <4>1, CallAppended DEF Fed
    <3> QED
      BY <3>1, <3>2
  <2> QED
    BY <1>1, <1>b, <1>s, <2>4, <2>5
<1>2. CASE ev.kind = "data" /\ on_data(i, ev.data)
  <2>1. CASE i \in socket_conns /\ i \in DOMAIN gate_conns
    <3>1. CASE j = i
      BY <1>2, <1>b, <1>f, <1>t, <2>1, <3>1, DataFrames
    <3>2. CASE j # i
      <4>1. PICK m \in Seq(Seq(Bytes)) : \E r \in Seq(Bytes) :
              /\ calls' = [calls EXCEPT ![i] = calls[i] \o Handed(m)]
              /\ gate_conns' = [gate_conns EXCEPT ![i] = r]
        BY <1>2, <1>b, <2>1, OnData DEF ByteStrings
      <4>2. calls'[j] = calls[j]
        BY <1>t, <1>b, <3>2, <4>1
      <4>3. DOMAIN gate_conns' = DOMAIN gate_conns /\ (j \in DOMAIN gate_conns => gate_conns'[j] = gate_conns[j])
        BY <3>2, <4>1
      <4>4. BufferOf(j)' = BufferOf(j) /\ (Fed(j)' => Fed(j))
        BY <4>2, <4>3 DEF BufferOf, Fed
      <4> QED
        BY <1>b, <1>s, <3>2, <4>2, <4>4
    <3> QED
      BY <3>1, <3>2
  <2>2. CASE ~(i \in socket_conns /\ i \in DOMAIN gate_conns)
    <3>1. UNCHANGED <<gate_conns, calls>>
      BY <1>2, <2>2 DEF on_data
    <3>2. i \notin DOMAIN gate_conns
      BY <2>2 DEF CallsInv
    <3>3. calls[i] # <<>>
      <4>1. Introduced(mailbox, calls)
        BY <1>t DEF AcceptPart
      <4>2. ~Announced(mailbox, i, 1 - 1)
        BY DEF Announced
      <4> QED
        BY <1>2, <1>h, <4>1, <4>2 DEF Introduced, i
    <3>4. ~Fed(j)' \/ j # i
      BY <3>1, <3>2, <3>3 DEF Fed
    <3>5. BufferOf(j)' = BufferOf(j) /\ (Fed(j)' => Fed(j))
      BY <3>1 DEF BufferOf, Fed
    <3> QED
      BY <1>b, <1>s, <3>1, <3>4, <3>5
  <2> QED
    BY <2>1, <2>2
<1>3. CASE ev.kind = "close" /\ on_close(i)
  <2>1. /\ DOMAIN gate_conns' = DOMAIN gate_conns \ {i}
        /\ \A y \in DOMAIN gate_conns \ {i} : gate_conns'[y] = gate_conns[y]
    BY <1>3 DEF on_close, Restrict
  <2>2. CASE j # i
    <3>1. calls'[j] = calls[j]
      BY <1>3, <1>t, <1>b, <2>2 DEF on_close
    <3>2. BufferOf(j)' = BufferOf(j) /\ (Fed(j)' => Fed(j))
      BY <2>1, <2>2, <3>1 DEF BufferOf, Fed
    <3> QED
      BY <1>b, <1>s, <2>2, <3>1, <3>2
  <2>3. CASE j = i /\ i \in DOMAIN gate_conns
    <3>1. calls'[j] = Append(calls[j], Call("disconnect", <<>>)) /\ calls[j] \in Seq(Callbacks)
      BY <1>3, <1>t, <2>3 DEF on_close
    <3>2. calls'[j] # <<>> /\ MessagesOf(calls'[j]) = MessagesOf(calls[j])
      BY <3>1, CallAppended
    <3>3. ~Fed(j)'
      BY <2>1, <2>3, <3>2 DEF Fed
    <3> QED
      BY <1>s, <3>2, <3>3
  <2>4. CASE j = i /\ i \notin DOMAIN gate_conns
    <3>1. calls'[j] = calls[j]
      BY <1>3, <1>t, <2>4 DEF on_close
    <3>2. BufferOf(j)' = BufferOf(j) /\ (Fed(j)' => Fed(j))
      BY <2>1, <2>4, <3>1 DEF BufferOf, Fed
    <3> QED
      BY <1>3, <1>b, <1>s, <3>1, <3>2
  <2> QED
    BY <2>2, <2>3, <2>4
<1>4. CASE ev.kind = "warning" /\ UNCHANGED <<socket_conns, gate_conns, calls>>
  <2>1. BufferOf(j)' = BufferOf(j) /\ (Fed(j)' => Fed(j))
    BY <1>4 DEF BufferOf, Fed
  <2> QED
    BY <1>4, <1>b, <1>s, <2>1
<1> QED
  BY <1>e, <1>1, <1>2, <1>3, <1>4

\* gateserver's buffers.
LEMMA WholeStep == TypeInv /\ WholePart /\ [Next]_vars => WholePart'
<1> SUFFICES ASSUME TypeInv, WholePart, [Next]_vars PROVE WholePart'
  OBVIOUS
<1>u. ASSUME UNCHANGED gate_conns PROVE WholePart'
  BY <1>u DEF WholePart
<1>d. ASSUME NEW i, DOMAIN gate_conns' = DOMAIN gate_conns \ {i},
             \A y \in DOMAIN gate_conns \ {i} : gate_conns'[y] = gate_conns[y]
      PROVE  WholePart'
  BY <1>d DEF WholePart
<1>1. CASE HandleEvent
  <2> DEFINE ev == Head(mailbox)
             i == ev.id
  <2>b. i \in Conns /\ ev.data \in ByteStrings
    BY <1>1, BoxTaken
  <2>e. \/ on_accept(i)
        \/ on_data(i, ev.data)
        \/ on_close(i)
        \/ UNCHANGED gate_conns
    BY <1>1 DEF HandleEvent
  <2> HIDE DEF ev, i
  <2>1. CASE on_accept(i)
    <3>1. /\ DOMAIN gate_conns' = DOMAIN gate_conns \cup {i}
          /\ \A y \in DOMAIN gate_conns' : gate_conns'[y] = IF y = i THEN <<>> ELSE gate_conns[y]
      BY <2>1 DEF on_accept
    <3>2. ~Complete(<<>>, 1)
      BY DEF Complete
    <3> QED
      BY <3>1, <3>2 DEF WholePart
  <2>2. CASE on_data(i, ev.data)
    <3>1. CASE UNCHANGED gate_conns
      BY <1>u, <3>1
    <3>2. CASE i \in DOMAIN gate_conns /\ i \in socket_conns
      <4>1. PICK r : ~Complete(r, 1) /\ gate_conns' = [gate_conns EXCEPT ![i] = r]
        BY <2>b, <2>2, <3>2, OnData DEF ByteStrings
      <4>2. DOMAIN gate_conns' = DOMAIN gate_conns
        BY <4>1
      <4>3. \A y \in DOMAIN gate_conns : gate_conns'[y] = IF y = i THEN r ELSE gate_conns[y]
        BY <4>1
      <4> QED
        BY <4>1, <4>2, <4>3 DEF WholePart
    <3> QED
      BY <2>2, <3>1, <3>2 DEF on_data
  <2>3. CASE on_close(i)
    BY <2>3, <1>d DEF on_close, Restrict
  <2> QED
    BY <2>e, <1>u, <2>1, <2>2, <2>3
<1>2. ASSUME NEW i \in Conns, NEW cmd, Kick(i, cmd) PROVE WholePart'
  BY <1>2, <1>d DEF Kick, Restrict
<1>3. ASSUME RunPosted \/ Open \/ AcceptFails PROVE UNCHANGED gate_conns
  BY <1>3 DEF RunPosted, Open, AcceptFails, luaVars
<1>4. ASSUME NEW i \in Conns, Recv(i) \/ ReadHandler(i) PROVE UNCHANGED gate_conns
  BY <1>4 DEF Recv, ReadHandler, luaVars
<1>5. ASSUME NEW i \in Conns, WriteHandler(i) \/ Accept(i) PROVE UNCHANGED gate_conns
  BY <1>5 DEF WriteHandler, Accept
<1>6. ASSUME NEW i \in Conns, Connect(i) \/ PeerSend(i) PROVE UNCHANGED gate_conns
  BY <1>6 DEF Connect, PeerSend, luaVars
<1>7. ASSUME NEW i \in Conns, NEW x, PeerClose(i, x) \/ Write(i, x) \/ Flow(i, x) PROVE UNCHANGED gate_conns
  BY <1>7 DEF PeerClose, Write, Flow, luaVars
<1>8. CASE UNCHANGED vars
  BY <1>8, <1>u DEF vars, luaVars
<1> QED
  BY <1>u, <1>1, <1>2, <1>3, <1>4, <1>5, <1>6, <1>7, <1>8 DEF Next

-------------------------------------------------------------------------------
(* Framing: every step.                                                    *)

\* An event that is no data changes nothing of the bytes in the mailbox.
LEMMA BoxKept ==
  ASSUME TypeInv, NEW kind \in {"accept", "close", "warning"}, NEW i \in Conns,
         mailbox' = Append(mailbox, SocketEvent(kind, i, <<>>))
  PROVE  \A j \in Conns : BoxOf(mailbox', j) = BoxOf(mailbox, j)
<1>1. PICK e : e = SocketEvent(kind, i, <<>>)
  OBVIOUS
<1>2. e \in SocketEvents /\ e.kind # "data"
  BY <1>1, EmptyTyped DEF SocketEvent, SocketEvents
<1>3. mailbox \in Seq(SocketEvents) /\ mailbox' = Append(mailbox, e)
  BY <1>1 DEF TypeInv, TypeOK
<1> QED
  BY <1>2, <1>3, BoxAppend

\* FramePart is kept by every step.
LEMMA FrameStep ==
  TypeInv /\ TypeInv' /\ PhaseInv /\ CallsInv /\ BoxOrder /\ AllReading /\ AcceptPart /\ FramePart /\ [Next]_vars
    => FramePart'
<1> SUFFICES ASSUME TypeInv, TypeInv', PhaseInv, CallsInv, BoxOrder, AllReading, AcceptPart, FramePart,
                    [Next]_vars
             PROVE  FramePart'
  OBVIOUS
<1>i. \A j \in Conns : sent[j] <= Len(Script[j]) /\ (j \notin overlap => Framing(j))
  BY DEF FramePart
<1>l. \A j \in Conns : j \notin overlap => Len(conn[j].reads) <= 1
  BY DEF AllReading
<1>t. /\ conn \in [Conns -> GoodConnections] /\ posted \in Seq(Lambdas)
      /\ wire \in [Conns -> Seq(Bytes)] /\ sent \in [Conns -> Nat]
      /\ calls \in [Conns -> Seq(Callbacks)]
      /\ peer \in [Conns -> {"open", "fin", "reset"}]
  BY DEF TypeInv, TypeOK
<1>k. ASSUME sent' = sent, overlap' = overlap, \A j \in Conns : j \notin overlap => FrameSame(j)
      PROVE  FramePart'
  <2>1. ASSUME NEW j \in Conns, j \notin overlap PROVE Framing(j)'
    BY <1>k, <1>i, <2>1, FrameSameKeeps
  <2> QED
    BY <1>k, <1>i, <2>1 DEF FramePart
<1>e. ASSUME UNCHANGED <<sent, peer, calls, gate_conns>>, overlap \subseteq overlap',
             \A j \in Conns : BoxOf(mailbox', j) = BoxOf(mailbox, j),
             \A j \in Conns : j \notin overlap' => Reached(j)' = Reached(j)
      PROVE  FramePart'
  <2>1. ASSUME NEW j \in Conns, j \notin overlap' PROVE Framing(j)'
    <3>1. BufferOf(j)' = BufferOf(j) /\ (Fed(j)' => Fed(j))
      BY <1>e DEF BufferOf, Fed
    <3>2. Unread(j)' = Unread(j)
      BY <1>e, <2>1, <3>1, UnreadSame
    <3>3. FrameSame(j)
      BY <1>e, <3>1, <3>2 DEF FrameSame
    <3> QED
      BY <1>e, <1>i, <2>1, <3>3, FrameSameKeeps
  <2>2. \A j \in Conns : sent'[j] <= Len(Script[j])
    BY <1>e, <1>i
  <2> QED
    BY <2>1, <2>2 DEF FramePart
<1>u. ASSUME UNCHANGED <<sent, peer, wire, calls, gate_conns, overlap, mailbox, conn>> PROVE FramePart'
  BY <1>u, <1>e DEF Reached
<1>c. ASSUME NEW i \in Conns, NEW d, conn' = [conn EXCEPT ![i] = d], wire' = wire,
             i \notin overlap' => ReadOf(d) = ReadOf(conn[i])
      PROVE  \A j \in Conns : j \notin overlap' => Reached(j)' = Reached(j)
  <2>1. \A j \in Conns : conn'[j] = IF j = i THEN d ELSE conn[j]
    BY <1>c, <1>t
  <2> QED
    BY <1>c, <2>1, ReachedSame
<1>1. CASE RunPosted
  <2> DEFINE l == Head(posted)
             c == conn[l.id]
  <2>1. l \in Lambdas /\ UNCHANGED <<sent, peer, wire, calls, gate_conns>>
    BY <1>1, <1>t DEF RunPosted, peerVars
  <2>2. l.id \in Conns /\ l.data \in Seq(Bytes)
    <3> HIDE DEF l
    <3> QED
      BY <2>1 DEF Lambdas
  <2>3. \A j \in Conns : BoxOf(mailbox', j) = BoxOf(mailbox, j)
    <3>1. CASE mailbox' = mailbox
      BY <3>1
    <3>2. CASE mailbox' = Append(mailbox, SocketEvent("warning", l.id, <<>>))
      BY <2>2, <3>2, BoxKept
    <3> QED
      BY <1>1, <3>1, <3>2 DEF RunPosted
  <2>4. /\ overlap \subseteq overlap'
        /\ \/ conn' = [conn EXCEPT ![l.id] = Sent(c, l.data)[1]]
           \/ conn' = [conn EXCEPT ![l.id] = Closed(c)]
           \/ conn' = [conn EXCEPT ![l.id].is_paused = TRUE]
           \/ /\ conn' = [conn EXCEPT ![l.id] = Resumed(c)]
              /\ overlap' = IF c.is_paused /\ c.reads # <<>> THEN overlap \cup {l.id} ELSE overlap
           \/ UNCHANGED conn
    BY <1>1 DEF RunPosted
  <2> HIDE DEF l
  <2>5. c \in GoodConnections
    BY <1>t, <2>2
  <2> HIDE DEF c
  <2>6. CASE conn' = [conn EXCEPT ![l.id] = Sent(c, l.data)[1]]
    <3>1. PICK d : d = Sent(c, l.data)[1]
      OBVIOUS
    <3>2. SameReading(c, d)
      BY <2>2, <2>5, <3>1, SentGood
    <3>3. ReadOf(d) = ReadOf(c)
      BY <3>2, SameReadOf DEF SameReading
    <3>4. conn' = [conn EXCEPT ![l.id] = d]
      BY <2>6, <3>1
    <3> QED
      BY <1>c, <1>e, <2>1, <2>2, <2>3, <2>4, <3>3, <3>4 DEF c
  <2>7. CASE conn' = [conn EXCEPT ![l.id] = Closed(c)]
    <3>1. PICK d : d = Closed(c)
      OBVIOUS
    <3>3. ReadOf(d) = ReadOf(c)
      BY <2>5, <3>1, ClosedReadOf
    <3>4. conn' = [conn EXCEPT ![l.id] = d]
      BY <2>7, <3>1
    <3> QED
      BY <1>c, <1>e, <2>1, <2>2, <2>3, <2>4, <3>3, <3>4 DEF c
  <2>8. CASE conn' = [conn EXCEPT ![l.id].is_paused = TRUE]
    <3>1. PICK d : d = [c EXCEPT !.is_paused = TRUE]
      OBVIOUS
    <3>2. d.reads = c.reads /\ d.read_buf = c.read_buf
      BY <2>5, <3>1, PausedGood
    <3>3. ReadOf(d) = ReadOf(c)
      BY <3>2, SameReadOf
    <3>4. conn' = [conn EXCEPT ![l.id] = d]
      BY <2>8, <3>1 DEF c
    <3> QED
      BY <1>c, <1>e, <2>1, <2>2, <2>3, <2>4, <3>3, <3>4 DEF c
  <2>9. CASE /\ conn' = [conn EXCEPT ![l.id] = Resumed(c)]
             /\ overlap' = IF c.is_paused /\ c.reads # <<>> THEN overlap \cup {l.id} ELSE overlap
    <3>1. PICK d : d = Resumed(c)
      OBVIOUS
    <3>2. /\ d.read_buf = c.read_buf
          /\ d.reads = IF c.is_paused THEN Append(c.reads, IF c.open THEN 0 ELSE -1) ELSE c.reads
      BY <2>5, <3>1, ResumedGood
    <3>3. l.id \notin overlap' => ReadOf(d) = ReadOf(c)
      <4>1. CASE c.is_paused /\ c.reads # <<>>
        BY <2>9, <4>1
      <4>2. CASE c.is_paused /\ c.reads = <<>>
        <5>1. d.reads = Append(c.reads, IF c.open THEN 0 ELSE -1)
          BY <3>2, <4>2
        <5>2. ReadOf(d) = <<>>
          BY <4>2, <5>1, StartedReadOf
        <5>3. ReadOf(c) = <<>>
          BY <4>2, NothingRead
        <5> QED
          BY <5>2, <5>3
      <4>3. CASE ~c.is_paused
        BY <3>2, <4>3, SameReadOf
      <4> QED
        BY <4>1, <4>2, <4>3
    <3>4. conn' = [conn EXCEPT ![l.id] = d]
      BY <2>9, <3>1
    <3> QED
      BY <1>c, <1>e, <2>1, <2>2, <2>3, <2>4, <3>3, <3>4 DEF c
  <2>10. CASE UNCHANGED conn
    BY <1>e, <2>1, <2>3, <2>4, <2>10 DEF Reached
  <2> QED
    BY <2>4, <2>6, <2>7, <2>8, <2>9, <2>10
<1>2. CASE HandleEvent
  <2>1. UNCHANGED <<sent, overlap>>
    BY <1>2 DEF HandleEvent, peerVars
  <2>2. ASSUME NEW j \in Conns, j \notin overlap PROVE Framing(j)'
    BY <1>2, <2>2, EventFrames
  <2> QED
    BY <1>i, <2>1, <2>2 DEF FramePart
<1>3. ASSUME Open \/ AcceptFails PROVE UNCHANGED <<sent, peer, wire, calls, gate_conns, overlap, mailbox, conn>>
  BY <1>3 DEF Open, AcceptFails, peerVars, luaVars, history
<1>5. ASSUME NEW i \in Conns, Recv(i) PROVE FramePart'
  <2>1. UNCHANGED <<sent, peer, calls, gate_conns, overlap, mailbox>>
    BY <1>5 DEF Recv, luaVars, history
  <2>2. i \notin overlap => Reached(i)' = Reached(i)
    BY <1>5, <1>l, RecvMoves DEF Reached
  <2>3. \A j \in Conns \ {i} : wire'[j] = wire[j] /\ conn'[j] = conn[j]
    <3>1. PICK k \in 1 .. Len(conn[i].reads) : \E n \in Int : \E b :
            /\ conn' = [conn EXCEPT ![i] = [conn[i] EXCEPT !.reads[k] = n, !.read_buf = b]]
            /\ n = -1 => peer[i] # "open"
      BY <1>5, RecvChanges
    <3>2. PICK d : conn' = [conn EXCEPT ![i] = d]
      BY <3>1
    <3>3. \A j \in Conns \ {i} : wire'[j] = wire[j]
      BY <1>5, <1>t DEF Recv
    <3> QED
      BY <1>t, <3>2, <3>3
  <2>4. \A j \in Conns : j \notin overlap => Reached(j)' = Reached(j)
    BY <2>2, <2>3 DEF Reached
  <2> QED
    BY <1>e, <2>1, <2>4
<1>6. ASSUME NEW i \in Conns, ReadHandler(i) PROVE FramePart'
  <2>1. UNCHANGED <<sent, peer, wire, calls, gate_conns, overlap>>
    BY <1>6 DEF ReadHandler, peerVars, history
  <2>2. ASSUME NEW j \in Conns, j \notin overlap PROVE FrameSame(j)
    <3>1. CASE j = i
      BY <1>6, <1>l, <2>2, <3>1, HandledFrames
    <3>2. CASE j # i
      <4>1. PICK e \in SocketEvents : mailbox' = Append(mailbox, e) /\ e.id = i
        BY <1>6, ReadEvent
      <4>2. BoxOf(mailbox', j) = BoxOf(mailbox, j)
        BY <3>2, <4>1, BoxAppend DEF TypeInv, TypeOK
      <4>3. conn'[j] = conn[j]
        BY <1>6, <1>t, <3>2 DEF ReadHandler
      <4>4. Reached(j)' = Reached(j) /\ BufferOf(j)' = BufferOf(j) /\ (Fed(j)' => Fed(j))
        BY <2>1, <4>3 DEF Reached, BufferOf, Fed
      <4>5. Unread(j)' = Unread(j)
        BY <4>2, <4>4, UnreadSame
      <4> QED
        BY <2>1, <4>4, <4>5 DEF FrameSame
    <3> QED
      BY <3>1, <3>2
  <2> QED
    BY <1>k, <2>1, <2>2
<1>7. ASSUME NEW i \in Conns, WriteHandler(i) PROVE FramePart'
  <2> DEFINE c == conn[i]
  <2>1. /\ UNCHANGED <<sent, peer, wire, calls, gate_conns, overlap>>
        /\ c \in GoodConnections /\ c.write_queue # <<>>
    BY <1>7, <1>t DEF WriteHandler, history, GoodConnections
  <2>2. PICK d : conn' = [conn EXCEPT ![i] = d] /\ SameReading(c, d)
    <3>1. CASE conn' = [conn EXCEPT ![i] = Written(c)]
      BY <2>1, <3>1, WrittenGood
    <3>2. CASE conn' = [conn EXCEPT ![i].write_failed = TRUE]
      BY <2>1, <3>2, FailedGood
    <3> QED
      BY <1>7, <3>1, <3>2 DEF WriteHandler
  <2>3. ReadOf(d) = ReadOf(c)
    BY <2>2, SameReadOf DEF SameReading
  <2>4. \A j \in Conns : BoxOf(mailbox', j) = BoxOf(mailbox, j)
    <3>1. CASE mailbox' = mailbox
      BY <3>1
    <3>2. CASE mailbox' = Append(mailbox, SocketEvent("close", i, <<>>))
      BY <3>2, BoxKept
    <3> QED
      BY <1>7, <3>1, <3>2 DEF WriteHandler
  <2>5. \A j \in Conns : j \notin overlap' => Reached(j)' = Reached(j)
    BY <1>c, <2>1, <2>2, <2>3
  <2> QED
    BY <1>e, <2>1, <2>4, <2>5
<1>8. ASSUME NEW i \in Conns, Accept(i) PROVE FramePart'
  <2>0. UNCHANGED <<sent, peer, wire, calls, gate_conns, overlap>>
    BY <1>8 DEF Accept, history
  <2>1. CASE UNCHANGED <<conn, mailbox>>
    BY <1>u, <2>0, <2>1
  <2>2. CASE /\ conn' = [conn EXCEPT ![i] = do_read([@ EXCEPT !.open = TRUE])]
             /\ mailbox' = Append(mailbox, SocketEvent("accept", i, <<>>))
    <3> DEFINE o == [NewConnection EXCEPT !.open = TRUE]
               d == do_read(o)
    <3>1. conn[i] = NewConnection
      BY <1>8 DEF Accept, Backlog, PhaseInv
    <3>2. o \in GoodConnections /\ o.open /\ o.reads = <<>> /\ o.is_paused = FALSE
      BY SMTT(30), NewConnectionGood, OpenedGood
    <3>3. conn' = [conn EXCEPT ![i] = d]
      BY <2>2, <3>1
    <3> HIDE DEF o
    <3>4. d.reads = Append(o.reads, IF o.open THEN 0 ELSE -1)
      BY <3>2, do_readGood
    <3> HIDE DEF d
    <3>5. ReadOf(d) = <<>>
      BY <3>2, <3>4, StartedReadOf
    <3>6. ReadOf(conn[i]) = <<>>
      BY <3>1, NewConnectionGood, NothingRead
    <3>7. \A j \in Conns : j \notin overlap' => Reached(j)' = Reached(j)
      BY <1>c, <2>0, <3>3, <3>5, <3>6
    <3>8. \A j \in Conns : BoxOf(mailbox', j) = BoxOf(mailbox, j)
      BY <2>2, BoxKept
    <3> QED
      BY <1>e, <2>0, <3>7, <3>8
  <2> QED
    BY <1>8, <2>1, <2>2 DEF Accept
<1>9. ASSUME NEW i \in Conns, Connect(i)
      PROVE  UNCHANGED <<sent, peer, wire, calls, gate_conns, overlap, mailbox, conn>>
  BY <1>9 DEF Connect, ioVars, luaVars, history
<1>o. ASSUME NEW i \in Conns, NEW j \in Conns, j # i,
             sent'[j] = sent[j], wire'[j] = wire[j], peer'[j] = peer[j],
             UNCHANGED <<calls, gate_conns, mailbox, conn>>
      PROVE  FrameSame(j)
  BY <1>o DEF FrameSame, Fed, Unread, Reached, BufferOf
<1>10. ASSUME NEW i \in Conns, PeerSend(i) PROVE FramePart'
  <2>1. /\ sent' = [sent EXCEPT ![i] = sent[i] + 1] /\ sent[i] < Len(Script[i])
        /\ wire' = [wire EXCEPT ![i] = wire[i] \o lpack(Script[i][sent[i] + 1])]
        /\ UNCHANGED <<peer, calls, gate_conns, mailbox, conn, overlap>>
    BY <1>10 DEF PeerSend, ioVars, luaVars, history
  <2>2. \A j \in Conns : sent'[j] <= Len(Script[j])
    BY <1>i, <1>t, <2>1, ScriptType
  <2>3. ASSUME NEW j \in Conns, j \notin overlap PROVE Framing(j)'
    <3>1. CASE j = i
      BY <1>10, <1>i, <2>3, <3>1, SendFrames
    <3>2. CASE j # i
      <4>1. sent'[j] = sent[j] /\ wire'[j] = wire[j] /\ peer'[j] = peer[j]
        BY <1>t, <2>1, <3>2
      <4> QED
        BY <1>i, <1>o, <2>1, <2>3, <3>2, <4>1, FrameSameKeeps
    <3> QED
      BY <3>1, <3>2
  <2> QED
    BY <2>1, <2>2, <2>3 DEF FramePart
<1>11. ASSUME NEW i \in Conns, NEW how, PeerClose(i, how) PROVE FramePart'
  <2>1. /\ peer' = [peer EXCEPT ![i] = how] /\ UNCHANGED <<sent, calls, gate_conns, mailbox, conn, overlap>>
        /\ wire' = [wire EXCEPT ![i] = IF how = "reset" THEN <<>> ELSE wire[i]]
    BY <1>11 DEF PeerClose, ioVars, luaVars, history
  <2>3. ASSUME NEW j \in Conns, j \notin overlap PROVE Framing(j)'
    <3>1. CASE j = i
      BY <1>11, <1>i, <2>3, <3>1, CloseFrames
    <3>2. CASE j # i
      <4>1. sent'[j] = sent[j] /\ wire'[j] = wire[j] /\ peer'[j] = peer[j]
        BY <1>t, <2>1, <3>2
      <4> QED
        BY <1>i, <1>o, <2>1, <2>3, <3>2, <4>1, FrameSameKeeps
    <3> QED
      BY <3>1, <3>2
  <2> QED
    BY <1>i, <2>1, <2>3 DEF FramePart
<1>12. ASSUME NEW i \in Conns, NEW cmd, Kick(i, cmd) PROVE FramePart'
  <2>1. /\ UNCHANGED <<sent, peer, wire, conn, mailbox, overlap>>
        /\ calls' = [calls EXCEPT ![i] = IF i \in DOMAIN gate_conns
                                         THEN Append(calls[i], Call("kicked", <<>>)) ELSE calls[i]]
    BY <1>12 DEF Kick, peerVars
  <2>2. /\ DOMAIN gate_conns' = DOMAIN gate_conns \ {i} /\ calls[i] # <<>>
        /\ \A y \in DOMAIN gate_conns \ {i} : gate_conns'[y] = gate_conns[y]
    BY <1>12 DEF Kick, Restrict, Command, Known
  <2>3. ASSUME NEW j \in Conns PROVE FrameSame(j)
    <3>1. CASE j = i
      <4>1. calls'[i] # <<>> /\ MessagesOf(calls'[i]) = MessagesOf(calls[i])
        <5>1. CASE i \in DOMAIN gate_conns
          <6>1. calls'[i] = Append(calls[i], Call("kicked", <<>>)) /\ calls[i] \in Seq(Callbacks)
            BY <1>t, <2>1, <5>1
          <6> QED
            BY <6>1, CallAppended
        <5>2. CASE i \notin DOMAIN gate_conns
          BY <1>t, <2>1, <2>2, <5>2
        <5> QED
          BY <5>1, <5>2
      <4>2. ~Fed(i)'
        BY <2>2, <4>1 DEF Fed
      <4> QED
        BY <2>1, <3>1, <4>1, <4>2 DEF FrameSame
    <3>2. CASE j # i
      <4>1. calls'[j] = calls[j]
        BY <1>t, <2>1, <3>2
      <4>2. BufferOf(j)' = BufferOf(j) /\ (Fed(j)' => Fed(j))
        BY <2>2, <3>2, <4>1 DEF BufferOf, Fed
      <4>3. Unread(j)' = Unread(j)
        BY <2>1, <4>2 DEF Unread, Reached
      <4> QED
        BY <2>1, <4>1, <4>2, <4>3 DEF FrameSame
    <3> QED
      BY <3>1, <3>2
  <2> QED
    BY <1>k, <2>1, <2>3
<1>13. ASSUME NEW i \in Conns, NEW x, Write(i, x) \/ Flow(i, x)
       PROVE  UNCHANGED <<sent, peer, wire, calls, gate_conns, overlap, mailbox, conn>>
  BY <1>13 DEF Write, Flow, peerVars, history
<1>15. ASSUME UNCHANGED vars
       PROVE  UNCHANGED <<sent, peer, wire, calls, gate_conns, overlap, mailbox, conn>>
  BY <1>15 DEF vars, peerVars, ioVars, luaVars, history
<1> QED
  BY <1>u, <1>1, <1>2, <1>3, <1>5, <1>6, <1>7, <1>8, <1>9, <1>10, <1>11, <1>12, <1>13, <1>15
  DEF Next

-------------------------------------------------------------------------------
(* The theorems.                                                           *)

\* The inductive invariant.
GateInv ==
  /\ TypeInv /\ PhaseInv
  /\ CallsInv /\ BoxOrder
  /\ AllReading /\ AllWriting
  /\ AcceptPart /\ FramePart /\ WholePart

\* Every reachable state satisfies the inductive invariant.
LEMMA GateInductive == Spec => []GateInv
<1>1. Init => GateInv
  BY InitType, InitPhase, InitOrder, InitRead, InitWrite, InitAccept, InitFrame DEF GateInv
<1>2. GateInv /\ [Next]_vars => GateInv'
  BY TypeStep, PhaseStep, OrderStep, ReadStep, WriteStep, AcceptStep, FrameStep, WholeStep
  DEF GateInv
<1> QED
  BY <1>1, <1>2, PTL DEF Spec

\* Lengths fit their bytes, and events and lambdas are for connections, in every reachable
\* state.
THEOREM GateTypeCorrect == Spec => []TypeOK
<1>1. GateInv => TypeOK
  BY DEF GateInv, TypeInv
<1> QED
  BY <1>1, GateInductive, PTL

\* For each connection gateserver's handler gets connect first and once, and nothing after
\* disconnect or after the user closed it: on_accept, on_data, on_close and KICK or CLOSE.
THEOREM CallbacksInOrder == Spec => []CallbackOrder
<1>1. GateInv => CallbackOrder
  BY DEF GateInv, CallsInv, Sound, CallbackOrder
<1> QED
  BY <1>1, GateInductive, PTL

\* An open connection that is not paused has a read outstanding or performed (do_read, the
\* handler of a read, resume), and two at once only after a resume that came too early.
THEOREM ConnectionsAreRead == Spec => []AlwaysReading
<1>1. GateInv => AlwaysReading
  BY DEF GateInv, AllReading, Reading, AlwaysReading
<1> QED
  BY <1>1, GateInductive, PTL

\* What reaches a peer is what was written to its connection, in order and once, and
\* pending_bytes_ counts the queue exactly (send, do_write and its handler).
THEOREM WritesArriveInOrder == Spec => []WritesInOrder
<1>1. ASSUME GateInv PROVE WritesInOrder
  <2>1. posted \in Seq(Lambdas) /\ conn \in [Conns -> TcpConnections] /\ AllWriting
    BY <1>1 DEF GateInv, TypeInv, TypeOK
  <2>2. \A i \in Conns : PostedTo(i) = PostedOf(posted, i)
    BY <2>1, PostedIsPicked DEF PostedTo
  <2> QED
    BY <2>1, <2>2 DEF AllWriting, Writing, Settled, Queued, Cat, WritesInOrder
<1> QED
  BY <1>1, GateInductive, PTL

\* However TCP cuts the stream into reads, the handler is given the first frames that the
\* peer sent, unchanged and in order (lfilter, on_data), on every connection that was not
\* resumed too early; and a whole frame never stays in gateserver's buffer.
THEOREM FramesArriveInOrder == Spec => []FramesInOrder
<1>1. ASSUME GateInv PROVE FramesInOrder
  <2>1. ASSUME NEW i \in Conns \ overlap PROVE IsPrefix(Messages(i), Script[i])
    <3>1. calls[i] \in Seq(Callbacks) /\ Framing(i) /\ sent[i] <= Len(Script[i]) /\ sent[i] \in Nat
      BY <1>1 DEF GateInv, TypeInv, TypeOK, FramePart
    <3>2. PICK n \in Nat : n <= sent[i] /\ MessagesOf(calls[i]) = First(i, n)
      BY <3>1 DEF Framing
    <3>3. PICK s \in Seq(Payloads) : s = Script[i] /\ n <= Len(s) /\ Len(s) \in Nat
      BY <3>1, <3>2, ScriptType
    <3>4. PICK m : m = SubSeq(s, 1, n)
      OBVIOUS
    <3>5. m \in Seq(Payloads) /\ Len(m) = n /\ SubSeq(m, 1, n) = SubSeq(s, 1, n)
      BY <3>3, <3>4
    <3>6. IsPrefix(m, s)
      BY <3>3, <3>5 DEF IsPrefix
    <3>7. Messages(i) = m
      BY <3>1, <3>2, <3>3, <3>4, MessagesIsPicked DEF First
    <3> QED
      BY <3>3, <3>6, <3>7
  <2>2. ASSUME NEW i \in DOMAIN gate_conns PROVE lunpack(gate_conns[i], 1) = <<>>
    BY <1>1, <2>2 DEF GateInv, WholePart, lunpack
  <2> QED
    BY <2>1, <2>2 DEF FramesInOrder
<1> QED
  BY <1>1, GateInductive, PTL

===============================================================================
