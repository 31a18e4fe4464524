--------------------------- MODULE MessagingProofs ---------------------------
(***************************************************************************)
(* Theorems about Messaging: its five invariants hold for every number of  *)
(* actors, every set of argument lists and every bound on the operations.  *)
(*                                                                         *)
(* The inductive invariants:                                               *)
(*   Shape       the types; a message names a buffer that was packed; a    *)
(*               request comes from an actor whose on_init has ended; who  *)
(*               waits for an answer is a Lua service with a callback;     *)
(*   AllOwned    given Shape, each buffer is the load of one actor and     *)
(*               neither freed nor dropped, or of none and either freed    *)
(*               once or dropped; what was read is what was packed, if it  *)
(*               can be had back at all;                                   *)
(*   LoggerInv   the cached logger handle, the handle that an error() is   *)
(*               about to store, and the name agree;                       *)
(*   Carried     given Shape, each call that is waited for is settled.     *)
(*                                                                         *)
(* Each is kept by every action: one lemma per action, which rests on one  *)
(* lemma per operator that the action is built from (Pushed, BouncedGrows, *)
(* FreedIs, ...).  A buffer's load is a number of messages, so the lemmas  *)
(* about the operators count the positions that carry it (Count).          *)
(***************************************************************************)
EXTENDS Messaging, FiniteSetTheorems, WellFoundedInduction, TLAPS

-------------------------------------------------------------------------------
(* Induction over the naturals, in terms of sets.                          *)

\* A set of naturals that is not empty has a least member.
LEMMA LeastNat ==
  ASSUME NEW T \in SUBSET Nat, T # {}
  PROVE  \E x \in T : \A y \in T : x <= y
<1> DEFINE R == {ss \in Nat \X Nat : ss[1] < ss[2]}
<1>1. IsWellFoundedOn(R, Nat)
  BY NatLessThanWellFounded DEF OpToRel
<1>2. PICK x \in T : \A y \in T : ~(<<y, x>> \in R)
  <2> HIDE DEF R
  <2> QED
    BY <1>1, WFMin
<1>3. ASSUME NEW y \in T PROVE x <= y
  <2>1. y \in Nat /\ x \in Nat
    OBVIOUS
  <2>2. <<y, x>> \in Nat \X Nat
    BY <2>1
  <2>3. y < x => <<y, x>> \in R
    BY <2>2
  <2> QED
    BY <1>2, <2>1, <2>3
<1> QED
  BY <1>3

\* Induction, for the set of the numbers that a claim holds for.
LEMMA NatSet ==
  ASSUME NEW S, 0 \in S, \A n \in Nat : n \in S => n + 1 \in S
  PROVE  \A n \in Nat : n \in S
<1> DEFINE T == Nat \ S
<1> SUFFICES ASSUME T # {} PROVE FALSE
  OBVIOUS
<1>1. PICK x \in T : \A y \in T : x <= y
  BY LeastNat
<1>2. x # 0 /\ x - 1 \in Nat /\ x - 1 \notin T
  BY <1>1
<1> QED
  BY <1>2

-------------------------------------------------------------------------------
(* Those: the messages of a sequence that are in a set.                    *)

AmongValue(f, msgs, S, n) ==
  IF n = 0 THEN <<>>
  ELSE IF msgs[n] \in S THEN Append(f[n - 1], msgs[n]) ELSE f[n - 1]

\* f is the function that Those defines, up to n.
Among(f, msgs, S, n) ==
  /\ f = [i \in 0 .. n |-> f[i]]
  /\ \A i \in 0 .. n : f[i] = AmongValue(f, msgs, S, i)

\* There is such a function.
LEMMA AmongExists ==
  ASSUME NEW msgs, NEW S, NEW n \in Nat
  PROVE  \E f : Among(f, msgs, S, n)
<1> DEFINE T == {m \in Nat : \E f : Among(f, msgs, S, m)}
<1>1. 0 \in T
  <2> DEFINE f == [i \in 0 .. 0 |-> <<>>]
  <2>1. Among(f, msgs, S, 0)
    BY DEF Among, AmongValue
  <2> QED
    BY <2>1
<1>2. ASSUME NEW m \in Nat, m \in T PROVE m + 1 \in T
  <2>1. PICK f : Among(f, msgs, S, m)
    BY <1>2
  <2> DEFINE g == [i \in 0 .. m + 1 |-> AmongValue(f, msgs, S, i)]
  <2>2. \A i \in 0 .. m : g[i] = f[i]
    BY <2>1 DEF Among
  <2>3. ASSUME NEW i \in 0 .. m + 1 PROVE g[i] = AmongValue(g, msgs, S, i)
    <3>1. CASE i = 0
      BY <3>1 DEF AmongValue
    <3>2. CASE i # 0
      <4>1. i - 1 \in 0 .. m
        BY <3>2
      <4>2. g[i - 1] = f[i - 1]
        BY <2>2, <4>1
      <4> QED
        BY <3>2, <4>2 DEF AmongValue
    <3> QED
      BY <3>1, <3>2
  <2>4. g = [i \in 0 .. m + 1 |-> g[i]]
    OBVIOUS
  <2> HIDE DEF g
  <2> QED
    BY <2>3, <2>4 DEF Among
<1> HIDE DEF T
<1>3. n \in T
  BY <1>1, <1>2, NatSet
<1> QED
  BY <1>3 DEF T

\* Those is its last value.
LEMMA ThoseIs ==
  ASSUME NEW msgs, NEW S, Len(msgs) \in Nat
  PROVE  \E f : Among(f, msgs, S, Len(msgs)) /\ Those(msgs, S) = f[Len(msgs)]
<1> DEFINE Is(f) == f = [n \in 0 .. Len(msgs) |->
                           IF n = 0 THEN <<>>
                           ELSE IF msgs[n] \in S THEN Append(f[n - 1], msgs[n]) ELSE f[n - 1]]
           g == CHOOSE f : Is(f)
<1>1. PICK f : Among(f, msgs, S, Len(msgs))
  BY AmongExists
<1>2. Is(f)
  BY <1>1 DEF Among, AmongValue
<1>3. Is(g)
  BY <1>2
<1>4. Those(msgs, S) = g[Len(msgs)]
  BY DEF Those
<1> HIDE DEF g
<1>5. Among(g, msgs, S, Len(msgs))
  <2>1. g = [i \in 0 .. Len(msgs) |-> g[i]]
    BY <1>3
  <2>2. \A i \in 0 .. Len(msgs) : g[i] = AmongValue(g, msgs, S, i)
    BY <1>3 DEF AmongValue
  <2> QED
    BY <2>1, <2>2 DEF Among
<1> QED
  BY <1>4, <1>5

\* Those of the messages are what it says.
LEMMA ThoseAre ==
  ASSUME NEW D, NEW msgs \in Seq(D), NEW S
  PROVE  /\ Those(msgs, S) \in Seq(D)
         /\ \A m : m \in Range(Those(msgs, S)) <=> m \in Range(msgs) /\ m \in S
<1>1. PICK f : Among(f, msgs, S, Len(msgs)) /\ Those(msgs, S) = f[Len(msgs)]
  BY ThoseIs
<1> DEFINE Good(n) == /\ f[n] \in Seq(D)
                      /\ \A m : (\E k \in 1 .. Len(f[n]) : f[n][k] = m)
                                  <=> (\E k \in 1 .. n : msgs[k] = m /\ m \in S)
           T == {n \in Nat : n <= Len(msgs) => Good(n)}
<1>2. 0 \in T
  <2>1. 0 \in 0 .. Len(msgs)
    OBVIOUS
  <2>2. f[0] = AmongValue(f, msgs, S, 0)
    BY <1>1, <2>1, Zenon DEF Among
  <2>3. f[0] = <<>>
    BY <2>2 DEF AmongValue
  <2>4. Good(0)
    BY <2>3
  <2> QED
    BY <2>4
<1>3. ASSUME NEW n \in Nat, n \in T PROVE n + 1 \in T
  <2> SUFFICES ASSUME n + 1 <= Len(msgs) PROVE Good(n + 1)
    OBVIOUS
  <2>1. Good(n)
    <3>1. n <= Len(msgs)
      OBVIOUS
    <3> HIDE DEF Good
    <3> QED
      BY <1>3, <3>1
  <2>2. n + 1 \in 0 .. Len(msgs) /\ n + 1 # 0 /\ n + 1 - 1 = n
    OBVIOUS
  <2>3. f[n + 1] = IF msgs[n + 1] \in S THEN Append(f[n], msgs[n + 1]) ELSE f[n]
    BY <1>1, <2>2 DEF Among, AmongValue
  <2>4. msgs[n + 1] \in D
    OBVIOUS
  <2> HIDE DEF T
  <2>5. PICK q \in Seq(D) : q = f[n]
    BY <2>1
  <2>6. CASE msgs[n + 1] \in S
    <3>1. PICK r : r = Append(q, msgs[n + 1])
      OBVIOUS
    <3>2. /\ r \in Seq(D) /\ Len(r) = Len(q) + 1 /\ Len(q) \in Nat
          /\ \A k \in 1 .. Len(q) : r[k] = q[k]
          /\ r[Len(q) + 1] = msgs[n + 1]
      BY <2>4, <3>1
    <3>3. f[n + 1] = r
      BY <2>3, <2>5, <2>6, <3>1
    <3>4. ASSUME NEW m
          PROVE (\E k \in 1 .. Len(r) : r[k] = m) <=> (\E k \in 1 .. n + 1 : msgs[k] = m /\ m \in S)
      <4>1. (\E k \in 1 .. Len(q) : q[k] = m) <=> (\E k \in 1 .. n : msgs[k] = m /\ m \in S)
        BY <2>1, <2>5
      <4>2. ASSUME NEW k \in 1 .. Len(r), r[k] = m
            PROVE  \E j \in 1 .. n + 1 : msgs[j] = m /\ m \in S
        <5>1. CASE k = Len(q) + 1
          BY <2>6, <3>2, <4>2, <5>1
        <5>2. CASE k # Len(q) + 1
          <6>1. k \in 1 .. Len(q) /\ q[k] = m
            BY <3>2, <4>2, <5>2
          <6>2. PICK j \in 1 .. n : msgs[j] = m /\ m \in S
            BY <4>1, <6>1
          <6> QED
            BY <6>2
        <5> QED
          BY <5>1, <5>2
      <4>3. ASSUME NEW j \in 1 .. n + 1, msgs[j] = m, m \in S
            PROVE  \E k \in 1 .. Len(r) : r[k] = m
        <5>1. CASE j = n + 1
          <6>1. Len(q) + 1 \in 1 .. Len(r)
            BY <3>2
          <6> QED
            BY <3>2, <4>3, <5>1, <6>1
        <5>2. CASE j # n + 1
          <6>1. j \in 1 .. n
            BY <5>2
          <6>2. PICK k \in 1 .. Len(q) : q[k] = m
            BY <4>1, <4>3, <6>1
          <6>3. k \in 1 .. Len(r) /\ r[k] = m
            BY <3>2, <6>2
          <6> QED
            BY <6>3
        <5> QED
          BY <5>1, <5>2
      <4> QED
        BY <4>2, <4>3
    <3> QED
      BY <3>2, <3>3, <3>4
  <2>7. CASE msgs[n + 1] \notin S
    <3>1. f[n + 1] = f[n]
      BY <2>3, <2>7
    <3>2. \A m : (\E k \in 1 .. n + 1 : msgs[k] = m /\ m \in S)
                   <=> (\E k \in 1 .. n : msgs[k] = m /\ m \in S)
      <4>1. \A k \in 1 .. n + 1 : k = n + 1 \/ k \in 1 .. n
        OBVIOUS
      <4>2. \A k \in 1 .. n : k \in 1 .. n + 1
        OBVIOUS
      <4> QED
        BY <2>7, <4>1, <4>2
    <3> QED
      BY <2>1, <3>1, <3>2
  <2> QED
    BY <2>6, <2>7
<1> HIDE DEF T
<1>4. Len(msgs) \in T /\ Len(msgs) \in Nat
  BY <1>2, <1>3, NatSet
<1>5. Good(Len(msgs))
  BY <1>4 DEF T
<1>6. PICK q \in Seq(D) : q = Those(msgs, S)
  BY <1>1, <1>5
<1>7. \A m : (\E k \in 1 .. Len(q) : q[k] = m) <=> (\E k \in 1 .. Len(msgs) : msgs[k] = m /\ m \in S)
  BY <1>1, <1>5, <1>6
<1>8. /\ \A m : m \in Range(q) <=> \E k \in 1 .. Len(q) : q[k] = m
      /\ \A m : m \in Range(msgs) <=> \E k \in 1 .. Len(msgs) : msgs[k] = m
  BY DEF Range
<1> QED
  BY <1>6, <1>7, <1>8

-------------------------------------------------------------------------------
(* Sequences of messages.                                                  *)

\* What is in a sequence, after an operation on it.
LEMMA RangeIs ==
  ASSUME NEW D, NEW q \in Seq(D)
  PROVE  \A m : m \in Range(q) <=> \E k \in 1 .. Len(q) : q[k] = m
BY DEF Range

\* The values of a sequence over S are in S.
LEMMA RangeType ==
  ASSUME NEW D, NEW q \in Seq(D)
  PROVE  \A m \in Range(q) : m \in D
BY DEF Range

\* The empty sequence has no values.
LEMMA RangeEmpty == Range(<<>>) = {}
BY DEF Range

\* A sequence of one element has that value.
LEMMA RangeOne ==
  ASSUME NEW x
  PROVE  <<x>> \in Seq({x}) /\ Range(<<x>>) = {x}
<1>a. <<x>> \in Seq({x}) /\ Len(<<x>>) = 1 /\ <<x>>[1] = x
  OBVIOUS
<1>1. PICK q \in Seq({x}) : q = <<x>> /\ Len(q) = 1 /\ q[1] = x
  BY <1>a, Zenon
<1> QED
  BY <1>1 DEF Range

\* Append adds its element to the values.
LEMMA RangeAppend ==
  ASSUME NEW D, NEW q \in Seq(D), NEW x \in D
  PROVE  Append(q, x) \in Seq(D) /\ \A m : m \in Range(Append(q, x)) <=> m \in Range(q) \/ m = x
<1>a. Append(q, x) \in Seq(D)
  OBVIOUS
<1>1. PICK r \in Seq(D) : r = Append(q, x)
  BY <1>a, Zenon
<1>2. /\ Len(r) = Len(q) + 1 /\ Len(q) \in Nat
      /\ \A k \in 1 .. Len(q) : r[k] = q[k]
      /\ r[Len(q) + 1] = x
  BY <1>1
<1>3. ASSUME NEW m PROVE m \in Range(r) <=> m \in Range(q) \/ m = x
  <2>1. ASSUME NEW k \in 1 .. Len(r), r[k] = m PROVE m \in Range(q) \/ m = x
    <3>1. k = Len(q) + 1 \/ k \in 1 .. Len(q)
      BY <1>2
    <3> QED
      BY <1>2, <2>1, <3>1, RangeIs
  <2>2. ASSUME NEW k \in 1 .. Len(q), q[k] = m PROVE m \in Range(r)
    <3>1. k \in 1 .. Len(r) /\ r[k] = m
      BY <1>2, <2>2
    <3> QED
      BY <3>1, RangeIs
  <2>3. x \in Range(r)
    <3>1. Len(q) + 1 \in 1 .. Len(r)
      BY <1>2
    <3> QED
      BY <1>2, <3>1, RangeIs
  <2> QED
    BY <2>1, <2>2, <2>3, RangeIs
<1> QED
  BY <1>1, <1>3

\* Concatenation joins the values.
LEMMA RangeConcat ==
  ASSUME NEW D, NEW q \in Seq(D), NEW r \in Seq(D)
  PROVE  q \o r \in Seq(D) /\ \A m : m \in Range(q \o r) <=> m \in Range(q) \/ m \in Range(r)
<1>a. q \o r \in Seq(D)
  OBVIOUS
<1>1. PICK s \in Seq(D) : s = q \o r
  BY <1>a, Zenon
<1>2. /\ Len(s) = Len(q) + Len(r) /\ Len(q) \in Nat /\ Len(r) \in Nat
      /\ \A k \in 1 .. Len(q) : s[k] = q[k]
      /\ \A k \in 1 .. Len(r) : s[Len(q) + k] = r[k]
  BY <1>1
<1>3. ASSUME NEW m PROVE m \in Range(s) <=> m \in Range(q) \/ m \in Range(r)
  <2>1. ASSUME NEW k \in 1 .. Len(s), s[k] = m PROVE m \in Range(q) \/ m \in Range(r)
    <3>1. CASE k \in 1 .. Len(q)
      BY <1>2, <2>1, <3>1, RangeIs
    <3>2. CASE k \notin 1 .. Len(q)
      <4>1. k - Len(q) \in 1 .. Len(r) /\ r[k - Len(q)] = m
        <5>1. k - Len(q) \in 1 .. Len(r) /\ Len(q) + (k - Len(q)) = k
          BY <1>2, <3>2
        <5> QED
          BY <1>2, <2>1, <5>1
      <4> QED
        BY <4>1, RangeIs
    <3> QED
      BY <3>1, <3>2
  <2>2. ASSUME NEW k \in 1 .. Len(q), q[k] = m PROVE m \in Range(s)
    <3>1. k \in 1 .. Len(s) /\ s[k] = m
      BY <1>2, <2>2
    <3> QED
      BY <3>1, RangeIs
  <2>3. ASSUME NEW k \in 1 .. Len(r), r[k] = m PROVE m \in Range(s)
    <3>1. Len(q) + k \in 1 .. Len(s) /\ s[Len(q) + k] = m
      BY <1>2, <2>3
    <3> QED
      BY <3>1, RangeIs
  <2> QED
    BY <2>1, <2>2, <2>3, RangeIs
<1> QED
  BY <1>1, <1>3

\* A sequence has the values of its head and of its tail.
LEMMA RangeTail ==
  ASSUME NEW D, NEW q \in Seq(D), q # <<>>
  PROVE  /\ Tail(q) \in Seq(D) /\ Head(q) \in D /\ Head(q) \in Range(q)
         /\ \A m : m \in Range(q) <=> m = Head(q) \/ m \in Range(Tail(q))
<1>a. Tail(q) \in Seq(D)
  OBVIOUS
<1>1. PICK t \in Seq(D) : t = Tail(q)
  BY <1>a, Zenon
<1>2. /\ Len(q) = Len(t) + 1 /\ Len(t) \in Nat /\ q[1] = Head(q) /\ Head(q) \in D
      /\ \A k \in 1 .. Len(t) : q[k + 1] = t[k]
  BY <1>1
<1>3. ASSUME NEW m PROVE m \in Range(q) <=> m = Head(q) \/ m \in Range(t)
  <2>1. ASSUME NEW k \in 1 .. Len(q), q[k] = m PROVE m = Head(q) \/ m \in Range(t)
    <3>1. CASE k = 1
      BY <1>2, <2>1, <3>1
    <3>2. CASE k # 1
      <4>1. k - 1 \in 1 .. Len(t) /\ k - 1 + 1 = k
        BY <1>2, <3>2
      <4>2. t[k - 1] = m
        BY <1>2, <2>1, <4>1
      <4> QED
        BY <4>1, <4>2, RangeIs
    <3> QED
      BY <3>1, <3>2
  <2>2. ASSUME NEW k \in 1 .. Len(t), t[k] = m PROVE m \in Range(q)
    <3>1. k + 1 \in 1 .. Len(q) /\ q[k + 1] = m
      BY <1>2, <2>2
    <3> QED
      BY <3>1, RangeIs
  <2>3. Head(q) \in Range(q)
    <3>1. 1 \in 1 .. Len(q)
      BY <1>2
    <3> QED
      BY <1>2, <3>1, RangeIs
  <2> QED
    BY <2>1, <2>2, <2>3, RangeIs
<1>4. Head(q) \in Range(q)
  BY <1>3
<1> QED
  BY <1>1, <1>2, <1>3, <1>4

\* RemoveAt loses at most the value at its index.
LEMMA RangeRemove ==
  ASSUME NEW D, NEW q \in Seq(D), NEW i \in DOMAIN q
  PROVE  /\ RemoveAt(q, i) \in Seq(D) /\ q[i] \in D
         /\ \A m \in Range(q) : m = q[i] \/ m \in Range(RemoveAt(q, i))
         /\ \A m \in Range(RemoveAt(q, i)) : m \in Range(q)
<1>0. i \in 1 .. Len(q) /\ Len(q) \in Nat /\ q[i] \in D
  OBVIOUS
<1>a. SubSeq(q, 1, i - 1) \in Seq(D) /\ SubSeq(q, i + 1, Len(q)) \in Seq(D)
  BY <1>0
<1>1. PICK a \in Seq(D), b \in Seq(D) : a = SubSeq(q, 1, i - 1) /\ b = SubSeq(q, i + 1, Len(q))
  BY <1>a, Zenon
<1>2. RemoveAt(q, i) = a \o b
  BY <1>1 DEF RemoveAt
<1>3. a \o b \in Seq(D) /\ \A m : m \in Range(a \o b) <=> m \in Range(a) \/ m \in Range(b)
  BY RangeConcat
<1>4. Len(a) = i - 1 /\ \A k \in 1 .. i - 1 : a[k] = q[k]
  BY <1>0, <1>1
<1>5. Len(b) = Len(q) - i /\ \A k \in 1 .. Len(q) - i : b[k] = q[i + k]
  BY <1>0, <1>1, SMTT(30)
<1>6. ASSUME NEW k \in 1 .. Len(q), k # i PROVE q[k] \in Range(a) \/ q[k] \in Range(b)
  <2>1. CASE k < i
    <3>1. k \in 1 .. Len(a) /\ a[k] = q[k]
      BY <1>0, <1>4, <2>1
    <3> QED
      BY <3>1, RangeIs
  <2>2. CASE k > i
    <3>1. k - i \in 1 .. Len(b) /\ i + (k - i) = k
      BY <1>0, <1>5, <2>2
    <3>2. b[k - i] = q[k]
      BY <1>5, <3>1
    <3> QED
      BY <3>1, <3>2, RangeIs
  <2> QED
    BY <1>0, <1>6, <2>1, <2>2
<1>7. ASSUME NEW m \in Range(a) PROVE m \in Range(q)
  <2>1. PICK k \in 1 .. Len(a) : a[k] = m
    BY RangeIs
  <2>2. k \in 1 .. Len(q) /\ q[k] = m
    BY <1>0, <1>4, <2>1
  <2> QED
    BY <2>2, RangeIs
<1>8. ASSUME NEW m \in Range(b) PROVE m \in Range(q)
  <2>1. PICK k \in 1 .. Len(b) : b[k] = m
    BY RangeIs
  <2>2. i + k \in 1 .. Len(q) /\ q[i + k] = m
    BY <1>0, <1>5, <2>1
  <2> QED
    BY <2>2, RangeIs
<1>9. /\ \A m \in Range(q) : m = q[i] \/ m \in Range(RemoveAt(q, i))
      /\ \A m \in Range(RemoveAt(q, i)) : m \in Range(q)
  <2>1. \A m : m \in Range(RemoveAt(q, i)) <=> m \in Range(a) \/ m \in Range(b)
    BY <1>2, <1>3, Zenon
  <2>2. \A m \in Range(q) : m = q[i] \/ m \in Range(a) \/ m \in Range(b)
    BY <1>6, RangeIs
  <2> QED
    BY <1>7, <1>8, <2>1, <2>2, Zenon
<1>10. RemoveAt(q, i) \in Seq(D)
  BY <1>2, <1>3, Zenon
<1> QED
  BY <1>0, <1>9, <1>10, Zenon

\* How many messages carry a buffer, after an operation on the sequence.
Count(q, b) == Cardinality(Carrying(q, b))

\* The positions that carry a buffer are finitely many.
LEMMA CarryingFinite ==
  ASSUME NEW D, NEW q \in Seq(D), NEW b
  PROVE  IsFiniteSet(Carrying(q, b)) /\ Count(q, b) \in Nat /\ (Count(q, b) = 0 <=> Carrying(q, b) = {})
<1>1. Carrying(q, b) \subseteq 1 .. Len(q) /\ Len(q) \in Nat
  BY DEF Carrying
<1>2. IsFiniteSet(1 .. Len(q))
  BY <1>1, FS_Interval
<1>3. IsFiniteSet(Carrying(q, b))
  BY <1>1, <1>2, FS_Subset
<1> QED
  BY <1>3, FS_CardinalityType, FS_EmptySet DEF Count

\* No message carries nothing.
LEMMA CountEmpty ==
  ASSUME NEW b
  PROVE  Count(<<>>, b) = 0
<1>1. Carrying(<<>>, b) = {}
  BY DEF Carrying
<1> QED
  BY <1>1, FS_EmptySet DEF Count

\* One message carries its own buffer, once.
LEMMA CountOne ==
  ASSUME NEW m, NEW b
  PROVE  /\ Count(<<m>>, b) = IF m.data = b THEN 1 ELSE 0
         /\ Carrying(<<m>>, b) = IF m.data = b THEN {1} ELSE {}
<1>a. <<m>> \in Seq({m}) /\ Len(<<m>>) = 1 /\ <<m>>[1] = m
  OBVIOUS
<1>1. PICK q \in Seq({m}) : q = <<m>> /\ Len(q) = 1 /\ q[1] = m
  BY <1>a, Zenon
<1>2. Carrying(q, b) = IF m.data = b THEN {1} ELSE {}
  BY <1>1 DEF Carrying
<1>3. Cardinality({1}) = 1 /\ Cardinality({}) = 0
  BY FS_Singleton, FS_EmptySet
<1> QED
  BY <1>1, <1>2, <1>3 DEF Count

\* Append adds what its message carries.
LEMMA CountAppend ==
  ASSUME NEW D, NEW q \in Seq(D), NEW m \in D, NEW b
  PROVE  Count(Append(q, m), b) = Count(q, b) + (IF m.data = b THEN 1 ELSE 0)
<1>a. Append(q, m) \in Seq(D)
  OBVIOUS
<1>1. PICK r \in Seq(D) : r = Append(q, m)
  BY <1>a, Zenon
<1>2. /\ Len(r) = Len(q) + 1 /\ Len(q) \in Nat /\ DOMAIN r = 1 .. Len(r) /\ DOMAIN q = 1 .. Len(q)
      /\ \A k \in 1 .. Len(q) : r[k] = q[k]
      /\ r[Len(q) + 1] = m
  BY <1>1
<1>3. Carrying(r, b) = Carrying(q, b) \cup (IF m.data = b THEN {Len(q) + 1} ELSE {})
  BY <1>2 DEF Carrying
<1>4. Len(q) + 1 \notin Carrying(q, b)
  BY <1>2 DEF Carrying
<1>5. IsFiniteSet(Carrying(q, b)) /\ Count(q, b) \in Nat
  BY CarryingFinite
<1>6. CASE m.data = b
  <2>1. Cardinality(Carrying(q, b) \cup {Len(q) + 1}) = Cardinality(Carrying(q, b)) + 1
    BY <1>4, <1>5, FS_AddElement
  <2> QED
    BY <1>1, <1>3, <1>6, <2>1 DEF Count
<1>7. CASE m.data # b
  <2>1. Carrying(r, b) = Carrying(q, b)
    BY <1>3, <1>7
  <2> QED
    BY <1>1, <1>5, <1>7, <2>1 DEF Count
<1> QED
  BY <1>6, <1>7

\* A sequence carries what its head and its tail carry.
LEMMA CountTail ==
  ASSUME NEW D, NEW q \in Seq(D), q # <<>>, NEW b
  PROVE  Count(q, b) = Count(Tail(q), b) + Count(<<Head(q)>>, b)
<1>a. Tail(q) \in Seq(D)
  OBVIOUS
<1>1. PICK t \in Seq(D) : t = Tail(q)
  BY <1>a, Zenon
<1>2. /\ Len(q) = Len(t) + 1 /\ Len(t) \in Nat /\ q[1] = Head(q)
      /\ DOMAIN t = 1 .. Len(t) /\ DOMAIN q = 1 .. Len(q)
      /\ \A k \in 1 .. Len(t) : q[k + 1] = t[k]
  BY <1>1
<1> DEFINE A == Carrying(t, b)
           B == Carrying(q, b) \ {1}
           f == [k \in A |-> k + 1]
<1>3. \A k \in A : k \in 1 .. Len(t) /\ t[k].data = b
  BY <1>2 DEF Carrying
<1>4. \A j \in B : j - 1 \in A /\ j - 1 + 1 = j /\ j \in Nat
  BY <1>2 DEF Carrying
<1>5. \A k \in A : k + 1 \in B
  BY <1>2, <1>3 DEF Carrying
<1>6. IsFiniteSet(A) /\ IsFiniteSet(Carrying(q, b)) /\ Count(t, b) \in Nat
  BY CarryingFinite
<1>7. IsFiniteSet(B)
  BY <1>6, FS_Subset
<1>8. f \in Bijection(A, B)
  <2>1. f \in [A -> B]
    BY <1>5
  <2>2. \A x, y \in A : f[x] = f[y] => x = y
    BY <1>3
  <2>3. \A y \in B : \E x \in A : f[x] = y
    <3> SUFFICES ASSUME NEW y \in B PROVE f[y - 1] = y /\ y - 1 \in A
      OBVIOUS
    <3> QED
      BY <1>4
  <2> HIDE DEF f, A, B
  <2> QED
    BY <2>1, <2>2, <2>3 DEF Bijection, Injection, Surjection, IsInjective
<1>9. Cardinality(A) = Cardinality(B)
  <2> HIDE DEF f, A, B
  <2> QED
    BY <1>6, <1>8, FS_Bijection DEF ExistsBijection
<1>10. Count(<<Head(q)>>, b) = IF Head(q).data = b THEN 1 ELSE 0
  BY CountOne
<1>11. 1 \in Carrying(q, b) <=> Head(q).data = b
  BY <1>2 DEF Carrying
<1>12. CASE Head(q).data = b
  <2>1. Carrying(q, b) = B \cup {1} /\ 1 \notin B
    BY <1>11, <1>12
  <2>2. Cardinality(B \cup {1}) = Cardinality(B) + 1
    <3> HIDE DEF B
    <3> QED
      BY <1>7, <2>1, FS_AddElement
  <2> QED
    BY <1>1, <1>6, <1>9, <1>10, <1>12, <2>1, <2>2 DEF Count
<1>13. CASE Head(q).data # b
  <2>1. Carrying(q, b) = B
    BY <1>11, <1>13
  <2>2. Count(q, b) = Count(t, b)
    <3> HIDE DEF B
    <3> QED
      BY <1>9, <2>1 DEF Count
  <2>3. Count(t, b) + 0 = Count(t, b)
    BY <1>6
  <2> QED
    BY <1>1, <1>10, <1>13, <2>2, <2>3
<1> QED
  BY <1>12, <1>13

\* Messages without a buffer do not count.
LEMMA CountZeros ==
  ASSUME NEW D, NEW q \in Seq(D), NEW r \in Seq(D), \A m \in Range(r) : m.data = 0, NEW b, b # 0
  PROVE  Count(q \o r, b) = Count(q, b)
<1>a. q \o r \in Seq(D)
  OBVIOUS
<1>1. PICK s \in Seq(D) : s = q \o r
  BY <1>a, Zenon
<1>2. /\ Len(s) = Len(q) + Len(r) /\ Len(q) \in Nat /\ Len(r) \in Nat
      /\ DOMAIN s = 1 .. Len(s) /\ DOMAIN q = 1 .. Len(q)
      /\ \A k \in 1 .. Len(q) : s[k] = q[k]
      /\ \A k \in 1 .. Len(r) : s[Len(q) + k] = r[k]
  BY <1>1
<1>3. \A k \in 1 .. Len(r) : r[k].data = 0
  BY RangeIs
<1>4. ASSUME NEW k \in 1 .. Len(s), k \notin 1 .. Len(q) PROVE s[k].data = 0
  <2>1. PICK j : j = k - Len(q)
    OBVIOUS
  <2>2. j \in 1 .. Len(r) /\ Len(q) + j = k
    BY <1>2, <1>4, <2>1
  <2>3. s[Len(q) + j] = r[j]
    BY <1>2, <2>2
  <2> QED
    BY <1>3, <2>2, <2>3, Zenon
<1>5. Carrying(s, b) = Carrying(q, b)
  <2>1. \A k : k \in Carrying(q, b) => k \in Carrying(s, b)
    BY <1>2 DEF Carrying
  <2>2. \A k : k \in Carrying(s, b) => k \in Carrying(q, b)
    BY <1>2, <1>4 DEF Carrying
  <2> QED
    BY <2>1, <2>2
<1> QED
  BY <1>1, <1>5 DEF Count

-------------------------------------------------------------------------------
(* Mailboxes.                                                              *)

Boxes == [Handles -> Seq(Messages)]

\* An error answer or a report.
Note(m) == m.data = 0 /\ m.type = "ERROR"

\* by is bx with messages that carry no buffer, in mailboxes that accept.
Grown(bx, by) ==
  /\ by \in Boxes
  /\ \A h \in Handles :
       /\ ~Accepting(h) => by[h] = bx[h]
       /\ \A m \in Range(bx[h]) : m \in Range(by[h])
       /\ \A m \in Range(by[h]) : m \in Range(bx[h]) \/ Note(m)
       /\ \A b \in Nat \ {0} : Count(by[h], b) = Count(bx[h], b)

\* There is an error in the mailbox q for the session s.
HasError(q, s) == \E e \in Range(q) : e.type = "ERROR" /\ e.session = s

\* What Message makes, field by field.
LEMMA MessageType ==
  ASSUME NEW source \in 0 .. MaxHandle, NEW session \in 0 .. MaxOps, NEW data \in 0 .. MaxOps,
         NEW type \in {"LUA", "CLIENT", "RESPONSE", "ERROR"}
  PROVE  /\ Message(source, session, type, data) \in Messages
         /\ Message(source, session, type, data).source = source
         /\ Message(source, session, type, data).session = session
         /\ Message(source, session, type, data).type = type
         /\ Message(source, session, type, data).data = data
BY DEF Message, Messages

\* A report carries no buffer and needs no answer.
LEMMA TextType ==
  ASSUME NEW h \in 0 .. MaxHandle
  PROVE  Text(h) \in Messages /\ Text(h).data = 0 /\ Text(h).session = 0 /\ Text(h).type = "ERROR"
         /\ ~NeedsAnswer(Text(h))
<1>1. 0 \in 0 .. MaxOps
  BY MessagingAssumption
<1> QED
  BY <1>1, MessageType DEF Text, NeedsAnswer

\* Mailboxes that stay have grown.
LEMMA GrownSame ==
  ASSUME NEW bx \in Boxes
  PROVE  Grown(bx, bx)
BY DEF Grown, Boxes

\* Growing twice is growing.
LEMMA GrownTwice ==
  ASSUME NEW bx, NEW by, NEW bz, Grown(bx, by), Grown(by, bz)
  PROVE  Grown(bx, bz)
BY DEF Grown

\* One mailbox that gets such messages.
LEMMA Lengthened ==
  ASSUME NEW q \in Seq(Messages), NEW z \in Seq(Messages), \A m \in Range(z) : Note(m)
  PROVE  /\ q \o z \in Seq(Messages)
         /\ \A m \in Range(q) : m \in Range(q \o z)
         /\ \A m \in Range(z) : m \in Range(q \o z)
         /\ \A m \in Range(q \o z) : m \in Range(q) \/ Note(m)
         /\ \A b \in Nat \ {0} : Count(q \o z, b) = Count(q, b)
<1>1. q \o z \in Seq(Messages) /\ \A m : m \in Range(q \o z) <=> m \in Range(q) \/ m \in Range(z)
  BY RangeConcat
<1>2. \A b \in Nat \ {0} : Count(q \o z, b) = Count(q, b)
  BY CountZeros DEF Note
<1> QED
  BY <1>1, <1>2

\* The error answers to messages of a sequence.
LEMMA ErrorsAre ==
  ASSUME NEW q \in Seq(Messages)
  PROVE  /\ [k \in 1 .. Len(q) |-> Message(0, q[k].session, "ERROR", 0)] \in Seq(Messages)
         /\ \A m \in Range([k \in 1 .. Len(q) |-> Message(0, q[k].session, "ERROR", 0)]) : Note(m)
         /\ \A m \in Range(q) :
              HasError([k \in 1 .. Len(q) |-> Message(0, q[k].session, "ERROR", 0)], m.session)
<1>1. PICK z : z = [k \in 1 .. Len(q) |-> Message(0, q[k].session, "ERROR", 0)]
  OBVIOUS
<1>2. ASSUME NEW k \in 1 .. Len(q)
      PROVE  /\ Message(0, q[k].session, "ERROR", 0) \in Messages
             /\ Message(0, q[k].session, "ERROR", 0).data = 0
             /\ Message(0, q[k].session, "ERROR", 0).type = "ERROR"
             /\ Message(0, q[k].session, "ERROR", 0).session = q[k].session
  <2>1. q[k] \in Messages
    OBVIOUS
  <2>2. q[k].session \in 0 .. MaxOps /\ 0 \in 0 .. MaxHandle /\ 0 \in 0 .. MaxOps
    BY <2>1, MessagingAssumption DEF Messages
  <2> QED
    BY <2>2, MessageType
<1>3. Len(q) \in Nat /\ z \in [1 .. Len(q) -> Messages]
  BY <1>1, <1>2
<1>4. z \in Seq(Messages) /\ Len(z) = Len(q)
  BY <1>3
<1>5. \A k \in 1 .. Len(q) : z[k].data = 0 /\ z[k].type = "ERROR" /\ z[k].session = q[k].session
  BY <1>1, <1>2
<1>6. \A m \in Range(z) : Note(m)
  BY <1>4, <1>5, RangeIs DEF Note
<1>7. ASSUME NEW m \in Range(q) PROVE HasError(z, m.session)
  <2>1. PICK k \in 1 .. Len(q) : q[k] = m
    BY RangeIs
  <2>2. z[k] \in Range(z)
    BY <1>4, RangeIs
  <2> QED
    BY <1>5, <2>1, <2>2 DEF HasError
<1> QED
  BY <1>1, <1>4, <1>6, <1>7

\* Error answers are notes for the mailboxes of the senders, and each sender that accepts gets one.
LEMMA BouncedGrows ==
  ASSUME NEW bx \in Boxes, NEW msgs \in Seq(Messages)
  PROVE  /\ Grown(bx, Bounced(bx, msgs))
         /\ \A m \in Range(msgs) : NeedsAnswer(m) /\ Accepting(m.source) =>
              HasError(Bounced(bx, msgs)[m.source], m.session)
<1> DEFINE From(h) == Those(msgs, {m \in Range(msgs) : NeedsAnswer(m) /\ m.source = h})
           Errors(h) == [k \in 1 .. Len(From(h)) |-> Message(0, From(h)[k].session, "ERROR", 0)]
<1>1. PICK by : by = Bounced(bx, msgs)
  OBVIOUS
<1>2. by = [h \in Handles |-> IF ~Accepting(h) THEN bx[h] ELSE bx[h] \o Errors(h)]
  BY <1>1 DEF Bounced
<1>3. ASSUME NEW h \in Handles
      PROVE  /\ From(h) \in Seq(Messages)
             /\ \A m : m \in Range(From(h)) <=> m \in Range(msgs) /\ NeedsAnswer(m) /\ m.source = h
  BY ThoseAre
<1>4. ASSUME NEW h \in Handles
      PROVE  /\ Errors(h) \in Seq(Messages)
             /\ \A m \in Range(Errors(h)) : Note(m)
             /\ \A m \in Range(From(h)) : HasError(Errors(h), m.session)
  <2>1. PICK q \in Seq(Messages) : q = From(h)
    BY <1>3
  <2> QED
    BY <2>1, ErrorsAre
<1> HIDE DEF From, Errors
<1>5. ASSUME NEW h \in Handles
      PROVE  /\ by[h] \in Seq(Messages)
             /\ ~Accepting(h) => by[h] = bx[h]
             /\ \A m \in Range(bx[h]) : m \in Range(by[h])
             /\ \A m \in Range(by[h]) : m \in Range(bx[h]) \/ Note(m)
             /\ \A b \in Nat \ {0} : Count(by[h], b) = Count(bx[h], b)
             /\ Accepting(h) => \A m \in Range(Errors(h)) : m \in Range(by[h])
  <2>1. bx[h] \in Seq(Messages)
    BY DEF Boxes
  <2>2. CASE ~Accepting(h)
    <3>1. by[h] = bx[h]
      BY <1>2, <2>2
    <3> QED
      BY <2>1, <2>2, <3>1
  <2>3. CASE Accepting(h)
    <3>1. by[h] = bx[h] \o Errors(h)
      BY <1>2, <2>3
    <3>2. PICK q \in Seq(Messages), z \in Seq(Messages) :
            q = bx[h] /\ z = Errors(h) /\ by[h] = q \o z /\ \A m \in Range(z) : Note(m)
      BY <1>4, <2>1, <3>1, Zenon
    <3>3. PICK r : r = q \o z
      OBVIOUS
    <3>4. /\ r \in Seq(Messages)
          /\ \A m \in Range(q) : m \in Range(r)
          /\ \A m \in Range(z) : m \in Range(r)
          /\ \A m \in Range(r) : m \in Range(q) \/ Note(m)
          /\ \A b \in Nat \ {0} : Count(r, b) = Count(q, b)
      BY <3>2, <3>3, Lengthened, ZenonT(60)
    <3>5. by[h] = r
      BY <3>2, <3>3, Zenon
    <3> QED
      BY <2>3, <3>2, <3>4, <3>5, Zenon
  <2> QED
    BY <2>2, <2>3
<1>6. Grown(bx, by)
  <2>1. by \in Boxes
    BY <1>2, <1>5 DEF Boxes
  <2> QED
    BY <1>5, <2>1 DEF Grown
<1>7. ASSUME NEW m \in Range(msgs), NeedsAnswer(m), Accepting(m.source)
      PROVE  HasError(by[m.source], m.session)
  <2>1. m.source \in Handles
    BY <1>7 DEF Accepting
  <2>2. m \in Range(From(m.source))
    BY <1>3, <1>7, <2>1
  <2>3. PICK e \in Range(Errors(m.source)) : e.type = "ERROR" /\ e.session = m.session
    BY <1>4, <2>1, <2>2 DEF HasError
  <2> QED
    BY <1>5, <1>7, <2>1, <2>3 DEF HasError
<1> QED
  BY <1>1, <1>6, <1>7

\* Reports are notes for one mailbox.
LEMMA ReportedGrows ==
  ASSUME NEW bx \in Boxes, NEW h \in 0 .. MaxHandle, NEW n \in Nat
  PROVE  Grown(bx, Reported(bx, h, n))
<1>t. Text(h) \in Messages /\ Note(Text(h))
  BY TextType DEF Note
<1>2. PICK text \in Messages : text = Text(h) /\ Note(text)
  BY <1>t, Zenon
<1>1. PICK z : z = [k \in 1 .. n |-> text]
  OBVIOUS
<1>f. z \in [1 .. n -> Messages]
  BY <1>1
<1>3. z \in Seq(Messages) /\ Len(z) = n
  BY <1>f
<1>g. \A k \in 1 .. n : z[k] = text
  BY <1>1
<1>4. \A m \in Range(z) : Note(m)
  <2> HIDE <1>1
  <2>1. \A m : m \in Range(z) <=> \E k \in 1 .. Len(z) : z[k] = m
    BY <1>3, RangeIs
  <2> QED
    BY <1>2, <1>3, <1>g, <2>1
<1>5. CASE ~Accepting(Target)
  BY <1>5, GrownSame DEF Reported
<1>6. CASE Accepting(Target)
  <2>1. Target \in Handles /\ bx[Target] \in Seq(Messages)
    BY <1>6 DEF Accepting, Boxes
  <2>2. PICK q \in Seq(Messages) : q = bx[Target]
    BY <2>1
  <2>3. PICK r : r = q \o z
    OBVIOUS
  <2>4. /\ r \in Seq(Messages)
        /\ \A m \in Range(q) : m \in Range(r)
        /\ \A m \in Range(r) : m \in Range(q) \/ Note(m)
        /\ \A b \in Nat \ {0} : Count(r, b) = Count(q, b)
    BY <1>3, <1>4, <2>3, Lengthened, Zenon
  <2>5. PICK t \in Handles : t = Target
    BY <2>1
  <2>6. Reported(bx, h, n) = [bx EXCEPT ![t] = r]
    BY <1>1, <1>2, <1>6, <2>2, <2>3, <2>5 DEF Reported
  <2>7. PICK by : by = [bx EXCEPT ![t] = r]
    OBVIOUS
  <2>8. by \in Boxes /\ by[t] = r /\ \A k \in Handles \ {t} : by[k] = bx[k]
    BY <2>4, <2>7 DEF Boxes
  <2>9. Grown(bx, by)
    BY <1>6, <2>2, <2>4, <2>5, <2>8 DEF Grown
  <2> QED
    BY <2>6, <2>7, <2>9
<1> QED
  BY <1>5, <1>6

\* push_message, and what it does to the mailboxes.
LEMMA Pushed ==
  ASSUME NEW bx \in Boxes, NEW hp, NEW dest, NEW m \in Messages, push_message(bx, hp, dest, m)
  PROVE  \/ /\ dest \in Handles /\ Accepting(dest) /\ heap' = hp
            /\ box' \in Boxes /\ \A k \in Handles \ {dest} : box'[k] = bx[k]
            /\ \A x : x \in Range(box'[dest]) <=> x \in Range(bx[dest]) \/ x = m
            /\ \A b : Count(box'[dest], b) = Count(bx[dest], b) + (IF m.data = b THEN 1 ELSE 0)
         \/ /\ ~Accepting(dest) /\ heap' = Freed(hp, <<m>>)
            /\ Grown(bx, box')
            /\ NeedsAnswer(m) /\ Accepting(m.source) => HasError(box'[m.source], m.session)
<1>1. CASE Accepting(dest) /\ box' = Enqueue(bx, dest, m) /\ heap' = hp
  <2>1. dest \in Handles
    BY <1>1 DEF Accepting
  <2>2. PICK q \in Seq(Messages) : q = bx[dest]
    BY <2>1 DEF Boxes
  <2>3. PICK r : r = Append(q, m)
    OBVIOUS
  <2>4. /\ r \in Seq(Messages)
        /\ \A x : x \in Range(r) <=> x \in Range(q) \/ x = m
    BY <2>3, RangeAppend, Zenon
  <2>5. \A b : Count(r, b) = Count(q, b) + (IF m.data = b THEN 1 ELSE 0)
    BY <2>3, CountAppend, Zenon
  <2>6. box' = [bx EXCEPT ![dest] = r]
    BY <1>1, <2>2, <2>3 DEF Enqueue
  <2>7. box' \in Boxes /\ box'[dest] = r /\ \A k \in Handles \ {dest} : box'[k] = bx[k]
    BY <2>1, <2>4, <2>6 DEF Boxes
  <2> QED
    BY <1>1, <2>1, <2>2, <2>4, <2>5, <2>7
<1>2. CASE ~Accepting(dest) /\ box' = Bounced(bx, <<m>>) /\ heap' = Freed(hp, <<m>>)
  <2>1. PICK q : q = <<m>>
    OBVIOUS
  <2>2. q \in Seq(Messages) /\ Range(q) = {m}
    BY <2>1, RangeOne
  <2>3. Grown(bx, box') /\ (NeedsAnswer(m) /\ Accepting(m.source) => HasError(box'[m.source], m.session))
    BY <1>2, <2>1, <2>2, BouncedGrows
  <2> QED
    BY <1>2, <2>3
<1> QED
  BY <1>1, <1>2 DEF push_message

-------------------------------------------------------------------------------
(* Buffers.                                                                *)

Heaps == Seq(Buffers)

\* Freed, buffer by buffer.
LEMMA FreedIs ==
  ASSUME NEW hp \in Heaps, NEW msgs \in Seq(Messages)
  PROVE  /\ Freed(hp, msgs) \in Heaps /\ Len(Freed(hp, msgs)) = Len(hp)
         /\ \A b \in 1 .. Len(hp) :
              /\ Freed(hp, msgs)[b].frees = hp[b].frees + Count(msgs, b)
              /\ Freed(hp, msgs)[b].dropped = hp[b].dropped
              /\ Freed(hp, msgs)[b].got = hp[b].got
              /\ Freed(hp, msgs)[b].args = hp[b].args
<1>1. PICK g : g = Freed(hp, msgs)
  OBVIOUS
<1>2. g = [b \in 1 .. Len(hp) |-> [hp[b] EXCEPT !.frees = @ + Count(msgs, b)]]
  BY <1>1 DEF Freed, Count, Heaps
<1>3. ASSUME NEW b \in 1 .. Len(hp)
      PROVE  /\ g[b] \in Buffers /\ g[b].frees = hp[b].frees + Count(msgs, b)
             /\ g[b].dropped = hp[b].dropped /\ g[b].got = hp[b].got /\ g[b].args = hp[b].args
  <2>1. hp[b] \in Buffers /\ Count(msgs, b) \in Nat
    BY CarryingFinite DEF Heaps
  <2>2. g[b] = [hp[b] EXCEPT !.frees = @ + Count(msgs, b)]
    BY <1>2
  <2> QED
    BY <2>1, <2>2 DEF Buffers
<1>4. Len(hp) \in Nat /\ g \in [1 .. Len(hp) -> Buffers]
  BY <1>2, <1>3 DEF Heaps
<1>5. g \in Heaps /\ Len(g) = Len(hp)
  BY <1>4 DEF Heaps
<1> QED
  BY <1>1, <1>3, <1>5

\* The heap g is hp after the receiver of msgs let go of their buffers.
LetGo(g, hp, msgs, why) ==
  /\ g \in Heaps /\ Len(g) = Len(hp)
  /\ \A b \in 1 .. Len(hp) :
       /\ g[b].frees = hp[b].frees
       /\ g[b].dropped = IF Count(msgs, b) > 0 THEN why ELSE hp[b].dropped
       /\ g[b].got = hp[b].got
       /\ g[b].args = hp[b].args

\* That is what Dropped makes.
LEMMA ManyDropped ==
  ASSUME NEW hp \in Heaps, NEW msgs \in Seq(Messages),
         NEW why \in {"pending", "logger", "type", "session"}, NEW g, g = Dropped(hp, msgs, why)
  PROVE  LetGo(g, hp, msgs, why)
<1>2. g = [b \in 1 .. Len(hp) |->
             IF Carrying(msgs, b) # {} THEN [hp[b] EXCEPT !.dropped = why] ELSE hp[b]]
  BY DEF Dropped, Heaps
<1>3. ASSUME NEW b \in 1 .. Len(hp)
      PROVE  /\ g[b] \in Buffers /\ g[b].frees = hp[b].frees
             /\ g[b].dropped = IF Count(msgs, b) > 0 THEN why ELSE hp[b].dropped
             /\ g[b].got = hp[b].got /\ g[b].args = hp[b].args
  <2>1. hp[b] \in Buffers /\ Count(msgs, b) \in Nat /\ (Count(msgs, b) = 0 <=> Carrying(msgs, b) = {})
    BY CarryingFinite DEF Heaps
  <2>2. CASE Carrying(msgs, b) # {}
    <3>1. g[b] = [hp[b] EXCEPT !.dropped = why] /\ Count(msgs, b) > 0
      BY <1>2, <2>1, <2>2
    <3> QED
      BY <2>1, <3>1 DEF Buffers
  <2>3. CASE Carrying(msgs, b) = {}
    <3>1. g[b] = hp[b] /\ ~(Count(msgs, b) > 0)
      BY <1>2, <2>1, <2>3
    <3> QED
      BY <2>1, <3>1 DEF Buffers
  <2> QED
    BY <2>2, <2>3
<1>4. Len(hp) \in Nat /\ g \in [1 .. Len(hp) -> Buffers]
  BY <1>2, <1>3 DEF Heaps
<1>5. g \in Heaps /\ Len(g) = Len(hp)
  BY <1>4 DEF Heaps
<1> QED
  BY <1>3, <1>5 DEF LetGo

\* Dropped, buffer by buffer.
LEMMA DroppedIs ==
  ASSUME NEW hp \in Heaps, NEW msgs \in Seq(Messages),
         NEW why \in {"pending", "logger", "type", "session"}
  PROVE  /\ Dropped(hp, msgs, why) \in Heaps /\ Len(Dropped(hp, msgs, why)) = Len(hp)
         /\ \A b \in 1 .. Len(hp) :
              /\ Dropped(hp, msgs, why)[b].frees = hp[b].frees
              /\ Dropped(hp, msgs, why)[b].dropped = IF Count(msgs, b) > 0 THEN why ELSE hp[b].dropped
              /\ Dropped(hp, msgs, why)[b].got = hp[b].got
              /\ Dropped(hp, msgs, why)[b].args = hp[b].args
<1>1. LetGo(Dropped(hp, msgs, why), hp, msgs, why)
  BY ManyDropped
<1> QED
  BY <1>1 DEF LetGo

\* What is not of the type that is read carries no buffer.
LEMMA TrashedIs ==
  ASSUME NEW hp \in Heaps, NEW msgs \in Seq(Messages), NEW type,
         \A m \in Range(msgs) : m.type # type => m.data = 0
  PROVE  /\ unpacktrash(hp, msgs, type) \in Heaps /\ Len(unpacktrash(hp, msgs, type)) = Len(hp)
         /\ \A b \in 1 .. Len(hp) :
              /\ unpacktrash(hp, msgs, type)[b].frees = hp[b].frees + Count(msgs, b)
              /\ unpacktrash(hp, msgs, type)[b].dropped = hp[b].dropped
              /\ unpacktrash(hp, msgs, type)[b].args = hp[b].args
              /\ unpacktrash(hp, msgs, type)[b].got
                   = IF Count(msgs, b) > 0 THEN Contents(hp[b]) ELSE hp[b].got
<1>1. PICK g : g = unpacktrash(hp, msgs, type)
  OBVIOUS
<1> DEFINE Read(b) == {k \in Carrying(msgs, b) : msgs[k].type = type}
           Gone(b) == [hp[b] EXCEPT !.got = Contents(hp[b]), !.frees = @ + Cardinality(Read(b))]
<1>d. DOMAIN hp = 1 .. Len(hp) /\ Len(hp) \in Nat
  BY DEF Heaps
<1>e. g = [b \in DOMAIN hp |-> IF Read(b) = {} THEN hp[b] ELSE Gone(b)]
  BY <1>1, Zenon DEF unpacktrash
<1>2. \A b \in 1 .. Len(hp) : g[b] = IF Read(b) = {} THEN hp[b] ELSE Gone(b)
  <2> HIDE DEF Read, Gone
  <2> QED
    BY <1>d, <1>e
<1>f. g = [b \in 1 .. Len(hp) |-> g[b]]
  <2> HIDE DEF Read, Gone
  <2> QED
    BY <1>d, <1>e
<1>3. ASSUME NEW b \in 1 .. Len(hp)
      PROVE  Read(b) = Carrying(msgs, b)
  <2>1. \A k \in 1 .. Len(msgs) : msgs[k].type # type => msgs[k].data = 0
    BY RangeIs
  <2>2. b # 0 /\ DOMAIN msgs = 1 .. Len(msgs)
    OBVIOUS
  <2> QED
    BY <2>1, <2>2 DEF Carrying
<1> HIDE DEF Read
<1>4. ASSUME NEW b \in 1 .. Len(hp)
      PROVE  /\ g[b] \in Buffers /\ g[b].frees = hp[b].frees + Count(msgs, b)
             /\ g[b].dropped = hp[b].dropped /\ g[b].args = hp[b].args
             /\ g[b].got = IF Count(msgs, b) > 0 THEN Contents(hp[b]) ELSE hp[b].got
  <2>1. hp[b] \in Buffers /\ Count(msgs, b) \in Nat /\ (Count(msgs, b) = 0 <=> Read(b) = {})
        /\ Cardinality(Read(b)) = Count(msgs, b)
    BY <1>3, CarryingFinite DEF Heaps, Count
  <2>2. Contents(hp[b]) \in {"packed", "other"}
    BY DEF Contents
  <2>3. CASE Read(b) # {}
    <3>1. g[b] = Gone(b) /\ Count(msgs, b) > 0
      <4> HIDE DEF Gone
      <4> QED
        BY <1>2, <2>1, <2>3
    <3>2. PICK buffer \in Buffers, c \in {"packed", "other"}, n \in Nat :
            buffer = hp[b] /\ c = Contents(hp[b]) /\ n = Cardinality(Read(b))
      BY <2>1, <2>2, Zenon
    <3>3. g[b] = [buffer EXCEPT !.got = c, !.frees = @ + n]
      BY <3>1, <3>2, Zenon
    <3>m. PICK f \in Nat : f = buffer.frees + n
      BY DEF Buffers
    <3>n. [buffer EXCEPT !.got = c, !.frees = f] \in Buffers
      BY DEF Buffers
    <3>4. /\ [buffer EXCEPT !.got = c, !.frees = @ + n].frees = buffer.frees + n
          /\ [buffer EXCEPT !.got = c, !.frees = @ + n].got = c
          /\ [buffer EXCEPT !.got = c, !.frees = @ + n].dropped = buffer.dropped
          /\ [buffer EXCEPT !.got = c, !.frees = @ + n].args = buffer.args
      BY DEF Buffers
    <3>5. PICK r : r = [buffer EXCEPT !.got = c, !.frees = @ + n]
      OBVIOUS
    <3>6. g[b] = r /\ n = Count(msgs, b)
      BY <2>1, <3>2, <3>3, <3>5, Zenon
    <3>o. r \in Buffers
      BY <3>m, <3>n, <3>5, Zenon
    <3>7. r.frees = buffer.frees + n /\ r.got = c
          /\ r.dropped = buffer.dropped /\ r.args = buffer.args
      BY <3>4, <3>5, Zenon
    <3> QED
      BY <3>1, <3>2, <3>6, <3>7, <3>o
  <2>4. CASE Read(b) = {}
    <3>1. g[b] = hp[b] /\ Count(msgs, b) = 0
      <4> HIDE DEF Gone
      <4> QED
        BY <1>2, <2>1, <2>4
    <3> QED
      BY <2>1, <3>1 DEF Buffers
  <2> QED
    BY <2>3, <2>4
<1>5. Len(hp) \in Nat /\ g \in [1 .. Len(hp) -> Buffers]
  BY <1>d, <1>f, <1>4
<1>6. g \in Heaps /\ Len(g) = Len(hp)
  BY <1>5 DEF Heaps
<1> QED
  BY <1>1, <1>4, <1>6

-------------------------------------------------------------------------------
(* The shape of a state.                                                   *)

\* An actor that no request has come from yet: its on_init has not ended, or has failed.
Young(h) == actor[h].state \in {"none", "init", "failed"}

\* A message names a buffer that was packed, and a request comes from an actor that ran.
Fine(m) ==
  /\ m.data \in 0 .. Len(heap)
  /\ NeedsAnswer(m) => ~Young(m.source)
  /\ m.type = "ERROR" => m.data = 0
FineDebt(d) == d[1] # 0 /\ d[2] # 0 => ~Young(d[1])

\* The parts of an actor fit together.
Local(a) ==
  /\ a.waits \subseteq 1 .. a.sessions
  /\ a.state \in {"none", "init", "failed"} => a.sessions = 0
  /\ a.state \in {"none", "dead"} => a.pending = <<>>
  /\ a.waits # {} => a.kind = "lua" /\ a.callback = TRUE
  /\ \A m \in Range(a.pending) : m.type # "LUA" => m.data = 0

ActorFine(h) ==
  /\ Local(actor[h]) /\ actor[h].sessions <= Len(heap)
  /\ \A m \in Range(actor[h].pending) : Fine(m)
  /\ \A d \in Range(actor[h].debts) : FineDebt(d)

BoxFine(h) ==
  /\ actor[h].state \in {"none", "dead"} => box[h] = <<>>
  /\ \A m \in Range(box[h]) : Fine(m)

Globals ==
  /\ heap \in Heaps /\ errcall \in [0 .. MaxHandle -> ErrorCalls]
  /\ logger_name \in 0 .. MaxHandle /\ logger_handle \in 0 .. MaxHandle
  /\ ops \in Nat /\ ops + Len(heap) <= MaxOps
  /\ raced \in BOOLEAN
  /\ abandoned \subseteq (0 .. MaxHandle) \X (0 .. MaxOps)

Shape ==
  /\ actor \in [Handles -> Actors] /\ box \in Boxes /\ Globals
  /\ \A h \in Handles : ActorFine(h) /\ BoxFine(h)

\* The bounds, and which handles there are.
LEMMA Numbers ==
  /\ 0 \in 0 .. MaxHandle /\ 0 \in 0 .. MaxOps /\ 1 \in Handles /\ 2 \in Handles
  /\ MaxHandle \in Nat /\ MaxOps \in Nat
  /\ \A h \in Handles : h \in 0 .. MaxHandle /\ h # 0
  /\ \A h \in 0 .. MaxHandle : h # 0 => h \in Handles
BY MessagingAssumption DEF Handles

\* The fields of an actor that the proofs use most.
LEMMA ActorTypes ==
  ASSUME NEW a \in Actors
  PROVE  /\ a.pending \in Seq(Messages) /\ a.debts \in Seq((0 .. MaxHandle) \X (0 .. MaxOps))
         /\ a.sessions \in Nat /\ a.sessions \in 0 .. MaxOps /\ a.waits \subseteq 1 .. MaxOps
<1>1. a.sessions \in 0 .. MaxOps
  BY DEF Actors
<1>2. a.sessions \in Nat
  BY <1>1
<1>3. a.waits \subseteq 1 .. MaxOps
  BY DEF Actors
<1> QED
  BY <1>1, <1>2, <1>3 DEF Actors

\* The shape is more than the types.
LEMMA ShapeTypes ==
  ASSUME Shape
  PROVE  TypeOK
<1>1. Len(heap) \in Nat
  BY DEF Shape, Globals, Heaps
<1>2. ops \in 0 .. MaxOps
  BY <1>1, Numbers DEF Shape, Globals
<1>3. \A h \in Handles :
       /\ actor[h].state \in {"none", "dead"} => box[h] = <<>>
       /\ actor[h].waits \subseteq 1 .. actor[h].sessions
       /\ \A m \in Range(box[h]) \cup Range(actor[h].pending) : m.data \in 0 .. Len(heap)
  BY DEF Shape, ActorFine, BoxFine, Local, Fine
<1> QED
  BY <1>2, <1>3 DEF TypeOK, Shape, Globals, Boxes, Heaps

-------------------------------------------------------------------------------
(* What a step does to the mailboxes.                                      *)

\* Actors do not become young, and buffers stay.
Older == Len(heap') >= Len(heap) /\ \A k \in Handles : Young(k)' => Young(k)

\* Mailboxes with messages taken out.
Shrunk(bx) ==
  /\ bx \in Boxes
  /\ \A k \in Handles :
       /\ actor[k].state \in {"none", "dead"} => bx[k] = box[k]
       /\ \A m \in Range(bx[k]) : m \in Range(box[k])

Flow ==
  /\ box' \in Boxes
  /\ \A k \in Handles :
       /\ actor[k].state \in {"none", "dead"} => box'[k] = box[k]
       /\ \A m \in Range(box'[k]) : m \in Range(box[k]) \/ Note(m) \/ Fine(m)'

\* Mailboxes that lost messages and then got notes hold fine messages.
LEMMA FlowGrown ==
  ASSUME NEW bx, Shrunk(bx), Grown(bx, box')
  PROVE  Flow
<1>1. \A k \in Handles : actor[k].state \in {"none", "dead"} => ~Accepting(k)
  BY DEF Accepting
<1> QED
  BY <1>1 DEF Flow, Shrunk, Grown

\* So do those after a push of a fine message.
LEMMA FlowPushed ==
  ASSUME NEW bx, Shrunk(bx), NEW hp, NEW dest, NEW m \in Messages, push_message(bx, hp, dest, m),
         Note(m) \/ Fine(m)'
  PROVE  Flow
<1>1. bx \in Boxes
  BY DEF Shrunk
<1>2. CASE /\ dest \in Handles /\ Accepting(dest) /\ heap' = hp
           /\ box' \in Boxes /\ \A k \in Handles \ {dest} : box'[k] = bx[k]
           /\ \A x : x \in Range(box'[dest]) <=> x \in Range(bx[dest]) \/ x = m
  <2>1. ~(actor[dest].state \in {"none", "dead"})
    BY <1>2 DEF Accepting
  <2> HIDE DEF Fine
  <2>2. ASSUME NEW k \in Handles
        PROVE  /\ actor[k].state \in {"none", "dead"} => box'[k] = box[k]
               /\ \A x \in Range(box'[k]) : x \in Range(box[k]) \/ Note(x) \/ Fine(x)'
    <3>1. CASE k = dest
      BY <1>2, <2>1, <3>1 DEF Shrunk
    <3>2. CASE k # dest
      BY <1>2, <3>2 DEF Shrunk
    <3> QED
      BY <3>1, <3>2
  <2> QED
    BY <1>2, <2>2 DEF Flow
<1>3. CASE Grown(bx, box')
  BY <1>3, FlowGrown
<1> QED
  BY <1>1, <1>2, <1>3, Pushed

\* Mailboxes that stay have lost nothing that matters.
LEMMA ShrunkSame ==
  ASSUME Shape
  PROVE  Shrunk(box)
BY DEF Shrunk, Shape

\* Mailboxes that stay hold fine messages.
LEMMA FlowSame ==
  ASSUME Shape, UNCHANGED box
  PROVE  Flow
BY DEF Flow, Shape

\* Popped takes the first message of one mailbox.
LEMMA PoppedIs ==
  ASSUME Shape, NEW h \in Handles, CanDispatch(h)
  PROVE  /\ Popped(h) \in Boxes /\ Shrunk(Popped(h))
         /\ Head(box[h]) \in Messages /\ Head(box[h]) \in Range(box[h]) /\ Fine(Head(box[h]))
         /\ \A k \in Handles \ {h} : Popped(h)[k] = box[k]
         /\ \A m : m \in Range(box[h]) <=> m = Head(box[h]) \/ m \in Range(Popped(h)[h])
         /\ \A b : Count(box[h], b) = Count(Popped(h)[h], b) + Count(<<Head(box[h])>>, b)
<1>1. box[h] \in Seq(Messages) /\ box[h] # <<>>
  BY DEF Shape, Boxes, CanDispatch
<1>2. PICK q \in Seq(Messages) : q = box[h]
  BY <1>1
<1>3. PICK r : r = Tail(q)
  OBVIOUS
<1>4. /\ r \in Seq(Messages) /\ Head(q) \in Messages /\ Head(q) \in Range(q)
      /\ \A m : m \in Range(q) <=> m = Head(q) \/ m \in Range(r)
  BY <1>1, <1>2, <1>3, RangeTail, Zenon
<1>5. \A b : Count(q, b) = Count(r, b) + Count(<<Head(q)>>, b)
  BY <1>1, <1>2, <1>3, CountTail, Zenon
<1>6. Popped(h) = [box EXCEPT ![h] = r]
  BY <1>2, <1>3 DEF Popped
<1>7. PICK by : by = [box EXCEPT ![h] = r]
  OBVIOUS
<1>8. by \in Boxes /\ by[h] = r /\ \A k \in Handles \ {h} : by[k] = box[k]
  BY <1>4, <1>7 DEF Boxes, Shape
<1>9. ~(actor[h].state \in {"none", "dead"})
  BY DEF CanDispatch
<1>10. Shrunk(by)
  BY <1>2, <1>4, <1>8, <1>9 DEF Shrunk
<1>11. Fine(Head(q))
  BY <1>2, <1>4 DEF Shape, BoxFine
<1> QED
  BY <1>2, <1>4, <1>5, <1>6, <1>7, <1>8, <1>10, <1>11

-------------------------------------------------------------------------------
(* A step keeps the shape.                                                 *)

\* At most the actor h changes.
Kept(h) == \A k \in Handles \ {h} : actor'[k] = actor[k]

\* A fine message stays fine.
LEMMA FineStays ==
  ASSUME Shape, Older, heap' \in Heaps, NEW m \in Messages, Fine(m)
  PROVE  Fine(m)'
<1>1. Len(heap) \in Nat /\ Len(heap') \in Nat /\ Len(heap') >= Len(heap)
  BY DEF Shape, Globals, Heaps, Older
<1>2. m.data \in 0 .. Len(heap')
  BY <1>1 DEF Fine
<1>3. NeedsAnswer(m) => m.source \in Handles
  BY Numbers DEF NeedsAnswer, Messages
<1>4. NeedsAnswer(m) => ~Young(m.source)'
  BY <1>3 DEF Fine, Older
<1> QED
  BY <1>2, <1>4 DEF Fine, NeedsAnswer

\* A note is fine.
LEMMA NoteIsFine ==
  ASSUME heap' \in Heaps, NEW m, Note(m)
  PROVE  Fine(m)'
<1>1. Len(heap') \in Nat
  BY DEF Heaps
<1> QED
  BY <1>1 DEF Fine, Note, NeedsAnswer

\* A step that changes one actor keeps the shape when what is new in it is fine.
LEMMA ShapeStep ==
  ASSUME Shape, Globals', Older, Flow, NEW h \in Handles, Kept(h),
         actor' \in [Handles -> Actors], Local(actor'[h]),
         actor'[h].sessions <= Len(heap'),
         \A m \in Range(actor'[h].pending) : m \in Range(actor[h].pending) \/ Fine(m),
         \A d \in Range(actor'[h].debts) : d \in Range(actor[h].debts) \/ FineDebt(d),
         actor'[h].state \in {"none", "dead"} => box'[h] = <<>>
  PROVE  Shape'
<1>1. heap' \in Heaps /\ heap \in Heaps /\ Len(heap') \in Nat /\ Len(heap) \in Nat
  BY DEF Globals, Heaps, Shape
<1>2. ASSUME NEW k \in Handles PROVE BoxFine(k)'
  <2>1. actor'[k].state \in {"none", "dead"} => box'[k] = <<>>
    BY DEF Kept, Flow, Shape, BoxFine
  <2>2. ASSUME NEW m \in Range(box'[k]) PROVE Fine(m)'
    <3>1. m \in Range(box[k]) => Fine(m) /\ m \in Messages
      <4>1. box[k] \in Seq(Messages)
        BY DEF Shape, Boxes
      <4> QED
        BY <4>1, RangeType DEF Shape, BoxFine
    <3>2. m \in Range(box[k]) \/ Note(m) \/ Fine(m)'
      BY DEF Flow
    <3> QED
      BY <1>1, <3>1, <3>2, FineStays, NoteIsFine
  <2> QED
    BY <2>1, <2>2 DEF BoxFine
<1>3. ASSUME NEW k \in Handles PROVE ActorFine(k)'
  <2>1. actor[k] \in Actors /\ actor'[k] \in Actors /\ ActorFine(k)
    BY DEF Shape
  <2>2. actor'[k].pending \in Seq(Messages) /\ actor'[k].debts \in Seq((0 .. MaxHandle) \X (0 .. MaxOps))
    BY <2>1 DEF Actors
  <2>3. actor[k].sessions \in Nat
    BY <2>1, ActorTypes
  <2>4. Local(actor'[k]) /\ actor'[k].sessions <= Len(heap')
    <3>1. CASE k = h
      BY <3>1
    <3>2. CASE k # h
      <4>1. actor'[k] = actor[k]
        BY <3>2 DEF Kept
      <4>2. Local(actor[k]) /\ actor[k].sessions <= Len(heap)
        BY <2>1 DEF ActorFine
      <4> QED
        BY <1>1, <2>3, <4>1, <4>2 DEF Older
    <3> QED
      BY <3>1, <3>2
  <2>5. ASSUME NEW m \in Range(actor'[k].pending) PROVE Fine(m)'
    <3>1. m \in Messages
      BY <2>2, RangeType
    <3>2. Fine(m)
      BY <2>1 DEF Kept, ActorFine
    <3> QED
      BY <1>1, <3>1, <3>2, FineStays
  <2>6. ASSUME NEW d \in Range(actor'[k].debts) PROVE FineDebt(d)'
    <3>1. d \in (0 .. MaxHandle) \X (0 .. MaxOps)
      BY <2>2, RangeType
    <3>2. FineDebt(d)
      BY <2>1 DEF Kept, ActorFine
    <3>3. d[1] # 0 => d[1] \in Handles
      BY <3>1, Numbers
    <3> QED
      BY <3>2, <3>3 DEF FineDebt, Older
  <2> QED
    BY <2>4, <2>5, <2>6 DEF ActorFine, Local
<1>4. box' \in Boxes
  BY DEF Flow
<1> QED
  BY <1>2, <1>3, <1>4 DEF Shape

\* Nothing but mailboxes and buffers changes.
LEMMA ShapeMail ==
  ASSUME Shape, Globals', Len(heap') >= Len(heap), Flow, UNCHANGED actor
  PROVE  Shape'
<1>1. 1 \in Handles
  BY Numbers
<1>2. ActorFine(1) /\ BoxFine(1) /\ actor' \in [Handles -> Actors] /\ actor[1] \in Actors
  BY <1>1 DEF Shape
<1>3. Older /\ Kept(1)
  BY DEF Older, Kept, Young
<1>4. Len(heap') \in Nat /\ Len(heap) \in Nat /\ actor[1].sessions \in Nat
  BY <1>2, ActorTypes DEF Globals, Heaps, Shape
<1>5. actor'[1] = actor[1] /\ Local(actor'[1]) /\ actor'[1].sessions <= Len(heap')
  BY <1>2, <1>4 DEF ActorFine
<1>6. actor'[1].state \in {"none", "dead"} => box'[1] = <<>>
  BY <1>1, <1>2 DEF Flow, BoxFine
<1> QED
  BY <1>1, <1>2, <1>3, <1>5, <1>6, ShapeStep

-------------------------------------------------------------------------------
(* Steps that send.                                                        *)

\* A pack adds a buffer, which nobody has freed or dropped.
LEMMA PackedIs ==
  ASSUME heap \in Heaps, NEW args \in CanPack
  PROVE  /\ Append(heap, Packed(args)) \in Heaps
         /\ Len(Append(heap, Packed(args))) = Len(heap) + 1
         /\ \A b \in 1 .. Len(heap) : Append(heap, Packed(args))[b] = heap[b]
         /\ Append(heap, Packed(args))[Len(heap) + 1] = Packed(args)
<1>1. Packed(args) \in Buffers
  BY DEF Packed, Buffers
<1>2. PICK p \in Buffers : p = Packed(args)
  BY <1>1
<1>3. PICK q \in Seq(Buffers) : q = heap
  BY DEF Heaps
<1>4. /\ Append(q, p) \in Seq(Buffers) /\ Len(Append(q, p)) = Len(q) + 1
      /\ \A b \in 1 .. Len(q) : Append(q, p)[b] = q[b]
      /\ Append(q, p)[Len(q) + 1] = p
  OBVIOUS
<1> QED
  BY <1>2, <1>3, <1>4, Zenon DEF Heaps

\* A push keeps the types of the buffers and their number.
LEMMA PushedHeap ==
  ASSUME NEW bx, NEW hp \in Heaps, NEW dest, NEW m \in Messages, push_message(bx, hp, dest, m)
  PROVE  heap' \in Heaps /\ Len(heap') = Len(hp)
<1>1. <<m>> \in Seq(Messages)
  OBVIOUS
<1>2. Freed(hp, <<m>>) \in Heaps /\ Len(Freed(hp, <<m>>)) = Len(hp)
  BY <1>1, FreedIs
<1> QED
  BY <1>2 DEF push_message

\* A message that names the new buffer is fine in the new heap.
LEMMA SentIs ==
  ASSUME Shape, NEW args \in CanPack, NEW dest, NEW m \in Messages,
         m.data = Len(heap) + 1, m.type # "ERROR", NeedsAnswer(m) => ~Young(m.source)',
         push_message(box, Append(heap, Packed(args)), dest, m)
  PROVE  Flow /\ heap' \in Heaps /\ Len(heap') = Len(heap) + 1 /\ Len(heap) \in Nat
<1>1. heap \in Heaps /\ Len(heap) \in Nat
  BY DEF Shape, Globals, Heaps
<1>2. PICK hp \in Heaps : hp = Append(heap, Packed(args)) /\ Len(hp) = Len(heap) + 1
  BY <1>1, PackedIs, Zenon
<1>3. heap' \in Heaps /\ Len(heap') = Len(heap) + 1
  BY <1>2, PushedHeap
<1>4. Fine(m)'
  BY <1>1, <1>3 DEF Fine, NeedsAnswer
<1> QED
  BY <1>1, <1>2, <1>3, <1>4, ShrunkSame, FlowPushed

\* Actors that differ in what they owe and in how they started.
Alike(a, c) ==
  /\ a.kind = c.kind /\ a.state = c.state /\ a.callback = c.callback
  /\ a.pending = c.pending /\ a.waits = c.waits /\ a.sessions = c.sessions

\* An update of one actor leaves the others.
LEMMA ActorSet ==
  ASSUME actor \in [Handles -> Actors], NEW h \in Handles, NEW a \in Actors,
         actor' = [actor EXCEPT ![h] = a]
  PROVE  actor' \in [Handles -> Actors] /\ Kept(h) /\ actor'[h] = a
BY DEF Kept

\* A debt that is paid is gone; the others stay.
LEMMA DebtPaid ==
  ASSUME Shape, NEW h \in Handles, NEW k \in DOMAIN actor[h].debts,
         actor' = [actor EXCEPT ![h].debts = RemoveAt(@, k)]
  PROVE  /\ actor' \in [Handles -> Actors] /\ Kept(h) /\ Alike(actor'[h], actor[h])
         /\ \A d \in Range(actor'[h].debts) : d \in Range(actor[h].debts)
         /\ \A d \in Range(actor[h].debts) : d = actor[h].debts[k] \/ d \in Range(actor'[h].debts)
<1>1. actor[h] \in Actors /\ actor \in [Handles -> Actors]
  BY DEF Shape
<1>a. PICK D : D = (0 .. MaxHandle) \X (0 .. MaxOps)
  OBVIOUS
<1>2. PICK q \in Seq(D) : q = actor[h].debts
  BY <1>1, <1>a, ActorTypes
<1>3. PICK r : r = RemoveAt(q, k)
  OBVIOUS
<1>b. k \in DOMAIN q
  BY <1>2
<1>c. /\ RemoveAt(q, k) \in Seq(D)
      /\ \A d \in Range(q) : d = q[k] \/ d \in Range(RemoveAt(q, k))
      /\ \A d \in Range(RemoveAt(q, k)) : d \in Range(q)
  BY <1>b, RangeRemove
<1>4. /\ r \in Seq((0 .. MaxHandle) \X (0 .. MaxOps))
      /\ \A d \in Range(q) : d = q[k] \/ d \in Range(r)
      /\ \A d \in Range(r) : d \in Range(q)
  BY <1>a, <1>3, <1>c, Zenon
<1>5. PICK a : a = [actor[h] EXCEPT !.debts = r]
  OBVIOUS
<1>6. a \in Actors /\ a.debts = r /\ Alike(a, actor[h])
  BY <1>1, <1>4, <1>5 DEF Actors, Alike
<1>7. actor' = [actor EXCEPT ![h] = a]
  BY <1>1, <1>2, <1>3, <1>5
<1>8. actor' \in [Handles -> Actors] /\ Kept(h) /\ actor'[h] = a
  BY <1>1, <1>6, <1>7, ActorSet
<1> QED
  BY <1>2, <1>4, <1>6, <1>8

\* Actors that differ in their debts fit together alike.
LEMMA LocalAlike ==
  ASSUME NEW a, NEW c, Alike(a, c), Local(c)
  PROVE  Local(a)
BY DEF Alike, Local

\* An actor that only gets rid of debts.
LEMMA ShapePays ==
  ASSUME Shape, Globals', Len(heap') >= Len(heap), Flow, NEW h \in Handles, Kept(h),
         actor' \in [Handles -> Actors], Alike(actor'[h], actor[h]),
         \A d \in Range(actor'[h].debts) : d \in Range(actor[h].debts) \/ FineDebt(d)
  PROVE  Shape'
<1>1. ActorFine(h) /\ BoxFine(h) /\ actor[h] \in Actors
  BY DEF Shape
<1>2. Local(actor'[h])
  BY <1>1, LocalAlike DEF ActorFine
<1>3. Older
  BY DEF Older, Young, Kept, Alike
<1>4. Len(heap') \in Nat /\ Len(heap) \in Nat /\ actor[h].sessions \in Nat
  BY <1>1, ActorTypes DEF Globals, Heaps, Shape
<1>5. actor'[h].sessions <= Len(heap')
  BY <1>1, <1>4 DEF Alike, ActorFine
<1>6. actor'[h].state \in {"none", "dead"} => box'[h] = <<>>
  BY <1>1 DEF Flow, BoxFine, Alike
<1>7. \A m \in Range(actor'[h].pending) : m \in Range(actor[h].pending)
  BY DEF Alike
<1> QED
  BY <1>2, <1>3, <1>5, <1>6, <1>7, ShapeStep

\* The parts of a debt.
LEMMA DebtTypes ==
  ASSUME Shape, NEW h \in Handles, NEW k \in DOMAIN actor[h].debts
  PROVE  /\ actor[h].debts[k] \in (0 .. MaxHandle) \X (0 .. MaxOps)
         /\ actor[h].debts[k][1] \in 0 .. MaxHandle /\ actor[h].debts[k][2] \in 0 .. MaxOps
         /\ actor[h].debts[k] = <<actor[h].debts[k][1], actor[h].debts[k][2]>>
         /\ actor[h].debts[k] \in Range(actor[h].debts)
         /\ FineDebt(actor[h].debts[k])
<1>1. PICK q \in Seq((0 .. MaxHandle) \X (0 .. MaxOps)) : q = actor[h].debts
  BY ActorTypes DEF Shape
<1>2. k \in 1 .. Len(q) /\ q[k] \in (0 .. MaxHandle) \X (0 .. MaxOps)
  BY <1>1
<1>3. q[k] \in Range(q)
  BY <1>2, RangeIs
<1>4. FineDebt(q[k])
  BY <1>1, <1>3 DEF Shape, ActorFine
<1> QED
  BY <1>1, <1>2, <1>3, <1>4

\* The number of the next buffer is within the bound.
LEMMA NextBufferIs ==
  ASSUME Shape, ops + Len(heap) < MaxOps
  PROVE  Next_buffer \in 0 .. MaxOps /\ Next_buffer = Len(heap) + 1
<1>1. Len(heap) \in Nat /\ ops \in Nat /\ MaxOps \in Nat
  BY Numbers DEF Shape, Globals, Heaps
<1> QED
  BY <1>1 DEF Next_buffer

\* lsend keeps the shape.
LEMMA ShapeSend ==
  ASSUME Shape, NEW h \in Handles, Send(h)
  PROVE  Shape'
<1>1. PICK dest \in Handles, type \in {"LUA", "CLIENT"}, args \in CanPack :
        /\ MaySend(type)
        /\ push_message(box, Append(heap, Packed(args)), dest, Message(h, 0, type, Next_buffer))
  BY DEF Send
<1>2. Len(heap) \in Nat /\ ops \in Nat /\ MaxOps \in Nat
  BY Numbers DEF Shape, Globals, Heaps
<1>3. ops' \in Nat /\ ops' + Len(heap) < MaxOps /\ ops + Len(heap) < MaxOps
  BY <1>1, <1>2 DEF MaySend
<1>a. Next_buffer \in 0 .. MaxOps /\ Next_buffer = Len(heap) + 1 /\ h \in 0 .. MaxHandle /\ 0 \in 0 .. MaxOps
  BY <1>3, NextBufferIs, Numbers
<1>4. PICK m \in Messages : m = Message(h, 0, type, Next_buffer) /\ m.data = Len(heap) + 1 /\ m.session = 0 /\ m.type = type
  BY <1>a, MessageType
<1>5. Flow /\ heap' \in Heaps /\ Len(heap') = Len(heap) + 1
  BY <1>1, <1>4, SentIs DEF NeedsAnswer
<1>6. Globals'
  BY <1>2, <1>3, <1>5 DEF Globals, Shape, Send
<1> QED
  BY <1>2, <1>5, <1>6, ShapeMail DEF Send

\* What a call changes of its actor: a session more, which is waited for.
LEMMA CallSets ==
  ASSUME Shape, NEW h \in Handles, Call(h)
  PROVE  /\ actor' \in [Handles -> Actors] /\ Kept(h) /\ actor'[h].debts = actor[h].debts
         /\ actor'[h].kind = actor[h].kind /\ actor'[h].state = actor[h].state
         /\ actor'[h].callback = actor[h].callback /\ actor'[h].pending = actor[h].pending
         /\ actor'[h].sessions = actor[h].sessions + 1
         /\ actor'[h].waits = actor[h].waits \cup {actor[h].sessions + 1}
         /\ actor[h].sessions + 1 \in 1 .. MaxOps
         /\ actor[h].state \in {"live", "erased"} /\ actor[h].kind = "lua" /\ actor[h].callback = TRUE
<1>1. actor[h] \in Actors /\ actor \in [Handles -> Actors] /\ ActorFine(h)
  BY DEF Shape
<1>2. PICK type \in {"LUA", "CLIENT"} : MaySend(type)
  BY DEF Call
<1>3. Len(heap) \in Nat /\ ops \in Nat /\ MaxOps \in Nat
  BY Numbers DEF Shape, Globals, Heaps
<1>4. Len(heap) + 1 <= MaxOps
  BY <1>2, <1>3 DEF MaySend
<1>5. actor[h].sessions <= Len(heap) /\ actor[h].sessions \in Nat
  BY <1>1, ActorTypes DEF ActorFine
<1>6. PICK s \in 1 .. MaxOps : s = actor[h].sessions + 1
  BY <1>3, <1>4, <1>5
<1>7. PICK w \in SUBSET (1 .. MaxOps) : w = actor[h].waits \cup {s}
  BY <1>1, ActorTypes
<1>8. PICK a : a = [actor[h] EXCEPT !.sessions = s, !.waits = w]
  OBVIOUS
<1>9. s \in 0 .. MaxOps
  OBVIOUS
<1>10. /\ a.debts = actor[h].debts /\ a.kind = actor[h].kind /\ a.state = actor[h].state
       /\ a.callback = actor[h].callback /\ a.pending = actor[h].pending
       /\ a.sessions = s /\ a.waits = w
  BY <1>1, <1>8 DEF Actors
<1>11. a \in Actors
  BY <1>1, <1>8, <1>9 DEF Actors
<1>12. actor' = [actor EXCEPT ![h] = a]
  BY <1>1, <1>6, <1>7, <1>8 DEF Call
<1>13. actor' \in [Handles -> Actors] /\ Kept(h) /\ actor'[h] = a
  BY <1>1, <1>11, <1>12, ActorSet
<1>14. actor[h].state \in {"live", "erased"} /\ actor[h].kind = "lua" /\ actor[h].callback = TRUE
  BY <1>1 DEF Call, CanRun, Actors
<1> QED
  BY <1>6, <1>7, <1>10, <1>13, <1>14

\* skynet.call keeps the shape.
LEMMA ShapeCall ==
  ASSUME Shape, NEW h \in Handles, Call(h)
  PROVE  Shape'
<1>1. PICK s : s = actor[h].sessions + 1
  OBVIOUS
<1>2. PICK dest \in Handles, type \in {"LUA", "CLIENT"}, args \in CanPack :
        /\ MaySend(type)
        /\ push_message(box, Append(heap, Packed(args)), dest, Message(h, s, type, Next_buffer))
  BY <1>1 DEF Call
<1>3. Len(heap) \in Nat /\ ops \in Nat /\ MaxOps \in Nat
  BY Numbers DEF Shape, Globals, Heaps
<1>4. ops' \in Nat /\ ops' + Len(heap) < MaxOps /\ ops + Len(heap) < MaxOps
  BY <1>2, <1>3 DEF MaySend
<1>5. /\ actor' \in [Handles -> Actors] /\ Kept(h) /\ actor'[h].debts = actor[h].debts
      /\ actor'[h].kind = actor[h].kind /\ actor'[h].state = actor[h].state
      /\ actor'[h].callback = actor[h].callback /\ actor'[h].pending = actor[h].pending
      /\ actor'[h].sessions = s
      /\ actor'[h].waits = actor[h].waits \cup {s} /\ s \in 1 .. MaxOps
      /\ actor[h].state \in {"live", "erased"} /\ actor[h].kind = "lua" /\ actor[h].callback = TRUE
  BY <1>1, CallSets
<1>6. s \in 0 .. MaxOps /\ Next_buffer \in 0 .. MaxOps /\ Next_buffer = Len(heap) + 1 /\ h \in 0 .. MaxHandle
  BY <1>4, <1>5, NextBufferIs, Numbers
<1>7. PICK m \in Messages : m = Message(h, s, type, Next_buffer) /\ m.data = Len(heap) + 1 /\ m.source = h /\ m.type = type
  BY <1>6, MessageType
<1>8. Older
  <2>1. \A k \in Handles : Young(k)' => Young(k)
    BY <1>5 DEF Young, Kept
  <2>2. heap' \in Heaps /\ Len(heap') = Len(heap) + 1
    <3>1. Append(heap, Packed(args)) \in Heaps /\ Len(Append(heap, Packed(args))) = Len(heap) + 1
      BY PackedIs DEF Shape, Globals
    <3>2. PICK hp \in Heaps : hp = Append(heap, Packed(args)) /\ Len(hp) = Len(heap) + 1
      BY <3>1, Zenon
    <3> QED
      BY <1>2, <1>7, <3>2, PushedHeap
  <2> QED
    BY <1>3, <2>1, <2>2 DEF Older
<1>9. ~Young(h)'
  BY <1>5 DEF Young
<1>10. Flow /\ heap' \in Heaps /\ Len(heap') = Len(heap) + 1
  BY <1>2, <1>7, <1>9, SentIs
<1>11. Globals'
  BY <1>3, <1>4, <1>10 DEF Globals, Shape, Call
<1>12. ActorFine(h) /\ actor[h].sessions \in Nat
  BY ActorTypes DEF Shape
<1>13. Local(actor'[h]) /\ actor'[h].sessions <= Len(heap')
  <2>1. actor[h].waits \subseteq 1 .. actor[h].sessions /\ s <= Len(heap) + 1
    BY <1>1, <1>3, <1>12 DEF ActorFine, Local
  <2>2. actor[h].waits \cup {s} \subseteq 1 .. s
    BY <1>1, <1>12, <2>1
  <2> QED
    BY <1>5, <1>10, <1>12, <2>1, <2>2 DEF Local, ActorFine
<1>14. actor'[h].state \in {"none", "dead"} => box'[h] = <<>>
  BY <1>5
<1> QED
  BY <1>5, <1>8, <1>10, <1>11, <1>13, <1>14, ShapeStep

\* A redirect, with its message in the types.
LEMMA RedirectOf ==
  ASSUME Shape, NEW h \in Handles, Redirect(h)
  PROVE  \E k \in DOMAIN actor[h].debts, dest \in Handles, args \in CanPack, ignore \in BOOLEAN,
            m \in Messages :
           /\ push_message(box, Append(heap, Packed(args)), dest, m)
           /\ m.source = actor[h].debts[k][1] /\ m.session = actor[h].debts[k][2]
           /\ m.type = "LUA" /\ m.data = Len(heap) + 1
           /\ actor' = IF ignore THEN [actor EXCEPT ![h].debts = RemoveAt(@, k)] ELSE actor
<1>1. PICK k \in DOMAIN actor[h].debts, dest \in Handles, args \in CanPack, ignore \in BOOLEAN :
        /\ MayPack
        /\ push_message(box, Append(heap, Packed(args)), dest,
             Message(actor[h].debts[k][1], actor[h].debts[k][2], "LUA", Next_buffer))
        /\ actor' = IF ignore THEN [actor EXCEPT ![h].debts = RemoveAt(@, k)] ELSE actor
  BY DEF Redirect
<1>2. Next_buffer \in 0 .. MaxOps /\ Next_buffer = Len(heap) + 1
  BY <1>1, NextBufferIs DEF MayPack
<1>3. actor[h].debts[k][1] \in 0 .. MaxHandle /\ actor[h].debts[k][2] \in 0 .. MaxOps
  BY DebtTypes
<1>4. PICK m \in Messages :
        /\ m = Message(actor[h].debts[k][1], actor[h].debts[k][2], "LUA", Next_buffer)
        /\ m.source = actor[h].debts[k][1] /\ m.session = actor[h].debts[k][2]
        /\ m.type = "LUA" /\ m.data = Next_buffer
  BY <1>2, <1>3, MessageType
<1> QED
  BY <1>1, <1>2, <1>4

\* lredirect keeps the shape.
LEMMA ShapeRedirect ==
  ASSUME Shape, NEW h \in Handles, Redirect(h)
  PROVE  Shape'
<1>1. PICK k \in DOMAIN actor[h].debts, dest \in Handles, args \in CanPack, ignore \in BOOLEAN,
            m \in Messages :
           /\ push_message(box, Append(heap, Packed(args)), dest, m)
           /\ m.source = actor[h].debts[k][1] /\ m.session = actor[h].debts[k][2]
           /\ m.type = "LUA" /\ m.data = Len(heap) + 1
           /\ actor' = IF ignore THEN [actor EXCEPT ![h].debts = RemoveAt(@, k)] ELSE actor
  BY RedirectOf
<1>2. Len(heap) \in Nat /\ ops \in Nat /\ MaxOps \in Nat
  BY Numbers DEF Shape, Globals, Heaps
<1>3. /\ actor' \in [Handles -> Actors] /\ Kept(h) /\ Alike(actor'[h], actor[h])
      /\ \A d \in Range(actor'[h].debts) : d \in Range(actor[h].debts)
  <2>1. CASE ignore
    BY <1>1, <2>1, DebtPaid
  <2>2. CASE ~ignore
    BY <1>1, <2>2 DEF Shape, Kept, Alike
  <2> QED
    BY <2>1, <2>2
<1>4. NeedsAnswer(m) => ~Young(m.source)'
  <2>1. NeedsAnswer(m) => ~Young(m.source)
    BY <1>1, DebtTypes DEF NeedsAnswer, FineDebt
  <2>2. NeedsAnswer(m) => m.source \in Handles
    BY Numbers DEF NeedsAnswer, Messages
  <2> QED
    BY <1>3, <2>1, <2>2 DEF Young, Kept, Alike
<1>5. Flow /\ heap' \in Heaps /\ Len(heap') = Len(heap) + 1
  BY <1>1, <1>4, SentIs
<1>6. Globals'
  BY <1>2, <1>5 DEF Globals, Shape, Redirect, MayPack
<1> QED
  BY <1>2, <1>3, <1>5, <1>6, ShapePays

\* skynet.ret, with its message in the types.
LEMMA RetOf ==
  ASSUME Shape, NEW h \in Handles, Ret(h)
  PROVE  \E k \in DOMAIN actor[h].debts, args \in CanPack, m \in Messages :
           /\ m.source = h /\ m.session = actor[h].debts[k][2]
           /\ m.type = "RESPONSE" /\ m.data = Len(heap) + 1
           /\ \/ /\ actor[h].debts[k][2] # 0
                 /\ push_message(box, Append(heap, Packed(args)), actor[h].debts[k][1], m)
              \/ /\ actor[h].debts[k][2] = 0
                 /\ heap' = Freed(Append(heap, Packed(args)), <<m>>) /\ UNCHANGED box
           /\ actor' = [actor EXCEPT ![h].debts = RemoveAt(@, k)]
<1>1. PICK k \in DOMAIN actor[h].debts, args \in CanPack :
        /\ MayPack
        /\ \/ /\ actor[h].debts[k][2] # 0
              /\ push_message(box, Append(heap, Packed(args)), actor[h].debts[k][1],
                   Message(h, actor[h].debts[k][2], "RESPONSE", Next_buffer))
           \/ /\ actor[h].debts[k][2] = 0
              /\ heap' = Freed(Append(heap, Packed(args)), <<Message(h, actor[h].debts[k][2], "RESPONSE", Next_buffer)>>)
              /\ UNCHANGED box
        /\ actor' = [actor EXCEPT ![h].debts = RemoveAt(@, k)]
  BY Zenon DEF Ret
<1>2. Next_buffer \in 0 .. MaxOps /\ Next_buffer = Len(heap) + 1
  BY <1>1, NextBufferIs DEF MayPack
<1>3. actor[h].debts[k][2] \in 0 .. MaxOps /\ h \in 0 .. MaxHandle
  BY DebtTypes, Numbers
<1>4. PICK m \in Messages :
        /\ m = Message(h, actor[h].debts[k][2], "RESPONSE", Next_buffer)
        /\ m.source = h /\ m.session = actor[h].debts[k][2]
        /\ m.type = "RESPONSE" /\ m.data = Next_buffer
  BY <1>2, <1>3, MessageType
<1> QED
  BY <1>1, <1>2, <1>4, Zenon

\* skynet.ret keeps the shape.
LEMMA ShapeRet ==
  ASSUME Shape, NEW h \in Handles, Ret(h)
  PROVE  Shape'
<1>1. PICK k \in DOMAIN actor[h].debts, args \in CanPack, m \in Messages :
           /\ m.source = h /\ m.session = actor[h].debts[k][2]
           /\ m.type = "RESPONSE" /\ m.data = Len(heap) + 1
           /\ \/ /\ actor[h].debts[k][2] # 0
                 /\ push_message(box, Append(heap, Packed(args)), actor[h].debts[k][1], m)
              \/ /\ actor[h].debts[k][2] = 0
                 /\ heap' = Freed(Append(heap, Packed(args)), <<m>>) /\ UNCHANGED box
           /\ actor' = [actor EXCEPT ![h].debts = RemoveAt(@, k)]
  BY RetOf
<1>2. Len(heap) \in Nat /\ ops \in Nat /\ MaxOps \in Nat
  BY Numbers DEF Shape, Globals, Heaps
<1>3. /\ actor' \in [Handles -> Actors] /\ Kept(h) /\ Alike(actor'[h], actor[h])
      /\ \A d \in Range(actor'[h].debts) : d \in Range(actor[h].debts)
  BY <1>1, DebtPaid
<1>4. ~NeedsAnswer(m)
  BY <1>1 DEF NeedsAnswer
<1>5. Flow /\ heap' \in Heaps /\ Len(heap') = Len(heap) + 1
  <2>1. CASE push_message(box, Append(heap, Packed(args)), actor[h].debts[k][1], m)
    BY <1>1, <1>4, <2>1, SentIs
  <2>2. CASE heap' = Freed(Append(heap, Packed(args)), <<m>>) /\ UNCHANGED box
    <3>1. Append(heap, Packed(args)) \in Heaps /\ Len(Append(heap, Packed(args))) = Len(heap) + 1
      BY PackedIs DEF Shape, Globals
    <3>2. PICK hp \in Heaps : hp = Append(heap, Packed(args)) /\ Len(hp) = Len(heap) + 1
      BY <3>1, Zenon
    <3>3. <<m>> \in Seq(Messages)
      OBVIOUS
    <3>4. heap' = Freed(hp, <<m>>)
      BY <2>2, <3>2, Zenon
    <3>5. heap' \in Heaps /\ Len(heap') = Len(hp)
      BY <3>3, <3>4, FreedIs
    <3>6. Flow
      BY <2>2, FlowSame
    <3> QED
      BY <3>2, <3>5, <3>6
  <2> QED
    BY <1>1, <2>1, <2>2
<1>6. Globals'
  BY <1>2, <1>5 DEF Globals, Shape, Ret, MayPack
<1> QED
  BY <1>2, <1>3, <1>5, <1>6, ShapePays

\* An error response, with its message in the types.
LEMMA RespondErrorOf ==
  ASSUME Shape, NEW h \in Handles, RespondError(h)
  PROVE  \E k \in DOMAIN actor[h].debts, m \in Messages :
           /\ m.source = h /\ m.session = actor[h].debts[k][2] /\ Note(m)
           /\ actor[h].debts[k][2] # 0
           /\ push_message(box, heap, actor[h].debts[k][1], m)
           /\ actor' = [actor EXCEPT ![h].debts = RemoveAt(@, k)]
<1>1. PICK k \in DOMAIN actor[h].debts :
           /\ actor[h].debts[k][2] # 0
           /\ push_message(box, heap, actor[h].debts[k][1], Message(h, actor[h].debts[k][2], "ERROR", 0))
           /\ actor' = [actor EXCEPT ![h].debts = RemoveAt(@, k)]
  BY DEF RespondError
<1>3. actor[h].debts[k][2] \in 0 .. MaxOps /\ h \in 0 .. MaxHandle /\ 0 \in 0 .. MaxOps
  BY DebtTypes, Numbers
<1>4. PICK m \in Messages :
        /\ m = Message(h, actor[h].debts[k][2], "ERROR", 0)
        /\ m.source = h /\ m.session = actor[h].debts[k][2] /\ Note(m)
  BY <1>3, MessageType DEF Note
<1> QED
  BY <1>1, <1>4

\* An error response keeps the shape.
LEMMA ShapeRespondError ==
  ASSUME Shape, NEW h \in Handles, RespondError(h)
  PROVE  Shape'
<1>1. PICK k \in DOMAIN actor[h].debts, m \in Messages :
           /\ m.source = h /\ m.session = actor[h].debts[k][2] /\ Note(m)
           /\ push_message(box, heap, actor[h].debts[k][1], m)
           /\ actor' = [actor EXCEPT ![h].debts = RemoveAt(@, k)]
  BY RespondErrorOf
<1>2. heap \in Heaps /\ Len(heap) \in Nat
  BY DEF Shape, Globals, Heaps
<1>3. /\ actor' \in [Handles -> Actors] /\ Kept(h) /\ Alike(actor'[h], actor[h])
      /\ \A d \in Range(actor'[h].debts) : d \in Range(actor[h].debts)
  BY <1>1, DebtPaid
<1>4. heap' \in Heaps /\ Len(heap') = Len(heap)
  BY <1>1, <1>2, PushedHeap
<1>5. Flow
  BY <1>1, ShrunkSame, FlowPushed
<1>6. Globals'
  BY <1>4 DEF Globals, Shape, RespondError
<1> QED
  BY <1>2, <1>3, <1>4, <1>5, <1>6, ShapePays

-------------------------------------------------------------------------------
(* Steps that report, and error().                                         *)

\* Reports go to a handle, or nowhere.
LEMMA TargetType ==
  ASSUME Shape
  PROVE  Target \in 0 .. MaxHandle
BY DEF Shape, Globals, Target

\* Reports leave fine messages and a handle for the logger.
LEMMA ReportedFlow ==
  ASSUME Shape, NEW bx, Shrunk(bx), NEW h \in 0 .. MaxHandle, NEW n \in Nat,
         box' = Reported(bx, h, n), Report(n)
  PROVE  Flow /\ Grown(bx, box') /\ logger_handle' \in 0 .. MaxHandle
<1>1. Grown(bx, box')
  BY ReportedGrows DEF Shrunk
<1>2. logger_handle' \in 0 .. MaxHandle
  BY TargetType DEF Report, Shape, Globals
<1> QED
  BY <1>1, <1>2, FlowGrown

\* An operation that the bound counts stays within it.
LEMMA SpendIs ==
  ASSUME Shape, Spend
  PROVE  ops' \in Nat /\ ops' + Len(heap) <= MaxOps
<1>1. Len(heap) \in Nat /\ ops \in Nat /\ MaxOps \in Nat
  BY Numbers DEF Shape, Globals, Heaps
<1> QED
  BY <1>1 DEF Spend

\* The heap is a sequence.
LEMMA LengthType ==
  ASSUME Shape
  PROVE  heap \in Heaps /\ Len(heap) \in Nat
BY DEF Shape, Globals, Heaps

\* A failing luaseri_pack keeps the shape.
LEMMA ShapePackRaises ==
  ASSUME Shape, NEW h \in Handles, PackRaises(h)
  PROVE  Shape'
<1>1. Flow /\ logger_handle' \in 0 .. MaxHandle
  BY ShrunkSame, ReportedFlow, Numbers DEF PackRaises
<1>2. Globals'
  BY <1>1, SpendIs DEF PackRaises, Globals, Shape
<1> QED
  BY <1>1, <1>2, LengthType, ShapeMail DEF PackRaises

\* A forgotten answer, with the number of its reports.
LEMMA ForgetOf ==
  ASSUME Shape, NEW h \in Handles, Forget(h)
  PROVE  \E k \in DOMAIN actor[h].debts, n \in Nat :
           /\ actor' = [actor EXCEPT ![h].debts = RemoveAt(@, k)]
           /\ abandoned' = IF actor[h].debts[k][2] # 0 THEN abandoned \cup {actor[h].debts[k]} ELSE abandoned
           /\ box' = Reported(box, h, n) /\ Report(n)
<1>1. PICK k \in DOMAIN actor[h].debts :
           /\ actor' = [actor EXCEPT ![h].debts = RemoveAt(@, k)]
           /\ abandoned' = IF actor[h].debts[k][2] # 0 THEN abandoned \cup {actor[h].debts[k]} ELSE abandoned
           /\ box' = Reported(box, h, IF actor[h].debts[k][2] # 0 THEN 1 ELSE 0)
           /\ Report(IF actor[h].debts[k][2] # 0 THEN 1 ELSE 0)
  BY Zenon DEF Forget
<1>2. PICK n \in Nat : n = IF actor[h].debts[k][2] # 0 THEN 1 ELSE 0
  OBVIOUS
<1> QED
  BY <1>1, <1>2, Zenon

\* A forgotten answer keeps the shape.
LEMMA ShapeForget ==
  ASSUME Shape, NEW h \in Handles, Forget(h)
  PROVE  Shape'
<1>1. PICK k \in DOMAIN actor[h].debts, n \in Nat :
           /\ actor' = [actor EXCEPT ![h].debts = RemoveAt(@, k)]
           /\ abandoned' = IF actor[h].debts[k][2] # 0 THEN abandoned \cup {actor[h].debts[k]} ELSE abandoned
           /\ box' = Reported(box, h, n) /\ Report(n)
  BY ForgetOf
<1>2. Flow /\ logger_handle' \in 0 .. MaxHandle
  BY <1>1, ShrunkSame, ReportedFlow, Numbers
<1>3. /\ actor' \in [Handles -> Actors] /\ Kept(h) /\ Alike(actor'[h], actor[h])
      /\ \A d \in Range(actor'[h].debts) : d \in Range(actor[h].debts)
  BY <1>1, DebtPaid
<1>4. abandoned' \subseteq (0 .. MaxHandle) \X (0 .. MaxOps)
  BY <1>1, DebtTypes DEF Shape, Globals
<1>5. Globals'
  BY <1>2, <1>4 DEF Forget, Globals, Shape
<1> QED
  BY <1>2, <1>3, <1>5, LengthType, ShapePays DEF Forget

\* An update of one call of error() keeps the types.
LEMMA ErrorCallSet ==
  ASSUME Shape, NEW h \in 0 .. MaxHandle,
         \/ errcall' = [errcall EXCEPT ![h].pc = "load"]
         \/ errcall' = [errcall EXCEPT ![h].pc = "find"]
         \/ errcall' = [errcall EXCEPT ![h] = NoCall]
         \/ errcall' = [errcall EXCEPT ![h] = [pc |-> "store", to |-> logger_name]]
  PROVE  errcall' \in [0 .. MaxHandle -> ErrorCalls]
<1>1. errcall \in [0 .. MaxHandle -> ErrorCalls] /\ logger_name \in 0 .. MaxHandle
  BY DEF Shape, Globals
<1>2. NoCall \in ErrorCalls /\ [pc |-> "store", to |-> logger_name] \in ErrorCalls
  BY <1>1, Numbers DEF NoCall, ErrorCalls
<1>3. /\ [errcall[h] EXCEPT !.pc = "load"] \in ErrorCalls
      /\ [errcall[h] EXCEPT !.pc = "find"] \in ErrorCalls
  BY <1>1 DEF ErrorCalls
<1> QED
  BY <1>1, <1>2, <1>3

\* Each step of error() keeps the shape.
LEMMA ShapeError ==
  ASSUME Shape, NEW h \in 0 .. MaxHandle, Error(h) \/ ErrorLoad(h) \/ ErrorFind(h) \/ ErrorStore(h)
  PROVE  Shape'
<1>1. CASE Error(h)
  <2>1. errcall' \in [0 .. MaxHandle -> ErrorCalls]
    BY <1>1, ErrorCallSet DEF Error
  <2>2. Globals'
    BY <1>1, <2>1, SpendIs DEF Error, Globals, Shape
  <2>3. Flow
    BY <1>1, FlowSame DEF Error
  <2> QED
    BY <1>1, <2>2, <2>3, LengthType, ShapeMail DEF Error
<1>2. CASE ErrorFind(h)
  <2>1. errcall' \in [0 .. MaxHandle -> ErrorCalls]
    BY <1>2, ErrorCallSet DEF ErrorFind
  <2>2. Globals'
    BY <1>2, <2>1 DEF ErrorFind, Globals, Shape
  <2>3. Flow
    BY <1>2, FlowSame DEF ErrorFind
  <2> QED
    BY <1>2, <2>2, <2>3, LengthType, ShapeMail DEF ErrorFind
<1>t. PICK text \in Messages : text = Text(h) /\ Note(text)
  <2>1. Text(h) \in Messages /\ Note(Text(h))
    BY TextType DEF Note
  <2> QED
    BY <2>1, Zenon
<1>p. ASSUME NEW dest, push_message(box, heap, dest, Text(h))
      PROVE  Flow /\ heap' \in Heaps /\ Len(heap') = Len(heap)
  <2>1. push_message(box, heap, dest, text)
    BY <1>t, <1>p, Zenon
  <2>2. heap \in Heaps
    BY LengthType
  <2> QED
    BY <1>t, <2>1, <2>2, ShrunkSame, FlowPushed, PushedHeap
<1>3. CASE ErrorLoad(h)
  <2>1. errcall' \in [0 .. MaxHandle -> ErrorCalls]
    BY <1>3, ErrorCallSet DEF ErrorLoad
  <2>2. Flow /\ heap' \in Heaps /\ Len(heap') = Len(heap)
    <3>1. CASE UNCHANGED <<box, heap>>
      BY <3>1, FlowSame, LengthType
    <3>2. CASE push_message(box, heap, logger_handle, Text(h))
      BY <1>p, <3>2
    <3> QED
      BY <1>3, <3>1, <3>2 DEF ErrorLoad
  <2>3. Globals'
    BY <1>3, <2>1, <2>2 DEF ErrorLoad, Globals, Shape
  <2> QED
    BY <1>3, <2>2, <2>3, LengthType, ShapeMail DEF ErrorLoad
<1>4. CASE ErrorStore(h)
  <2>1. errcall' \in [0 .. MaxHandle -> ErrorCalls]
    BY <1>4, ErrorCallSet DEF ErrorStore
  <2>2. Flow /\ heap' \in Heaps /\ Len(heap') = Len(heap)
    BY <1>4, <1>p DEF ErrorStore
  <2>3. logger_handle' \in 0 .. MaxHandle
    BY <1>4 DEF ErrorStore, Shape, Globals, ErrorCalls
  <2>4. Globals'
    BY <1>4, <2>1, <2>2, <2>3 DEF ErrorStore, Globals, Shape
  <2> QED
    BY <1>4, <2>2, <2>4, LengthType, ShapeMail DEF ErrorStore
<1> QED
  BY <1>1, <1>2, <1>3, <1>4

\* register_name keeps the shape.
LEMMA ShapeRegister ==
  ASSUME Shape, NEW h \in Handles, Register(h)
  PROVE  Shape'
<1>1. logger_name' \in 0 .. MaxHandle /\ logger_handle' \in 0 .. MaxHandle
  BY Numbers DEF Register, register_name
<1>2. raced' \in BOOLEAN
  BY DEF Register, Shape, Globals
<1>3. Globals'
  BY <1>1, <1>2, SpendIs DEF Register, Globals, Shape
<1>4. Flow
  BY FlowSame DEF Register
<1> QED
  BY <1>3, <1>4, LengthType, ShapeMail DEF Register

-------------------------------------------------------------------------------
(* The life of an actor.                                                   *)

\* The requests of messages are pairs of a handle and a session.
LEMMA RequestsType ==
  ASSUME NEW q \in Seq(Messages)
  PROVE  Requests(q) \subseteq (0 .. MaxHandle) \X (0 .. MaxOps)
<1>1. \A m \in Range(q) : m \in Messages
  BY RangeType
<1>2. \A m \in Messages : m.source \in 0 .. MaxHandle /\ m.session \in 0 .. MaxOps
  BY DEF Messages
<1> QED
  BY <1>1, <1>2 DEF Requests

\* What NewActor makes, field by field.
LEMMA NewActorType ==
  ASSUME NEW kind \in {"lua", "logger"},
         NEW state \in {"none", "init", "failed", "live", "erased", "releasing", "dead"}
  PROVE  /\ NewActor(kind, state) \in Actors
         /\ NewActor(kind, state).kind = kind /\ NewActor(kind, state).state = state
         /\ NewActor(kind, state).pending = <<>> /\ NewActor(kind, state).waits = {}
         /\ NewActor(kind, state).sessions = 0 /\ NewActor(kind, state).debts = <<>>
         /\ Local(NewActor(kind, state))
<1>1. NewActor(kind, state) \in Actors
  BY Numbers DEF NewActor, Actors
<1>2. /\ NewActor(kind, state).kind = kind /\ NewActor(kind, state).state = state
      /\ NewActor(kind, state).pending = <<>> /\ NewActor(kind, state).waits = {}
      /\ NewActor(kind, state).sessions = 0 /\ NewActor(kind, state).debts = <<>>
  BY DEF NewActor
<1>3. Range(<<>>) = {}
  BY RangeEmpty
<1>4. Local(NewActor(kind, state))
  BY <1>2, <1>3 DEF Local
<1> QED
  BY <1>1, <1>2, <1>4

\* What spawn leaves.
LEMMA SpawnSets ==
  ASSUME Shape, NEW h \in Handles, Spawn(h)
  PROVE  /\ actor' \in [Handles -> Actors] /\ Kept(h) /\ Local(actor'[h])
         /\ actor[h].state = "none" /\ actor'[h].state = "init"
         /\ actor'[h].pending = <<>> /\ actor'[h].waits = {} /\ actor'[h].debts = <<>>
         /\ actor'[h].sessions = 0
<1>1. PICK kind \in {"lua", "logger"} : actor' = [actor EXCEPT ![h] = NewActor(kind, "init")]
  BY DEF Spawn
<1>2. PICK a \in Actors :
        /\ a = NewActor(kind, "init") /\ a.state = "init" /\ a.pending = <<>> /\ a.waits = {}
        /\ a.sessions = 0 /\ a.debts = <<>> /\ Local(a)
  BY NewActorType
<1>3. actor' = [actor EXCEPT ![h] = a]
  BY <1>1, <1>2
<1>4. actor' \in [Handles -> Actors] /\ Kept(h) /\ actor'[h] = a
  BY <1>2, <1>3, ActorSet DEF Shape
<1> QED
  BY <1>2, <1>4 DEF Spawn

\* spawn keeps the shape.
LEMMA ShapeSpawn ==
  ASSUME Shape, NEW h \in Handles, Spawn(h)
  PROVE  Shape'
<1>1. /\ actor' \in [Handles -> Actors] /\ Kept(h) /\ Local(actor'[h])
      /\ actor[h].state = "none" /\ actor'[h].state = "init"
      /\ actor'[h].pending = <<>> /\ actor'[h].waits = {} /\ actor'[h].debts = <<>>
      /\ actor'[h].sessions = 0
  BY SpawnSets
<1>2. Older
  BY <1>1, LengthType DEF Older, Spawn, Young, Kept
<1>3. Flow
  BY FlowSame DEF Spawn
<1>4. Globals'
  BY DEF Spawn, Globals, Shape
<1>5. Range(actor'[h].pending) = {} /\ Range(actor'[h].debts) = {}
  BY <1>1, RangeEmpty
<1>6. actor'[h].sessions <= Len(heap')
  BY <1>1, LengthType DEF Spawn
<1> QED
  BY <1>1, <1>2, <1>3, <1>4, <1>5, <1>6, ShapeStep

\* A change of state, or of the callback.
Moved(a, c) ==
  /\ a.kind = c.kind /\ a.pending = c.pending /\ a.waits = c.waits
  /\ a.sessions = c.sessions /\ a.debts = c.debts

\* An update of the state of one actor leaves the rest of it.
LEMMA StateSet ==
  ASSUME Shape, NEW h \in Handles, NEW s \in {"live", "failed", "erased", "releasing"},
         actor' = [actor EXCEPT ![h].state = s]
  PROVE  /\ actor' \in [Handles -> Actors] /\ Kept(h) /\ actor'[h].state = s
         /\ Moved(actor'[h], actor[h]) /\ actor'[h].callback = actor[h].callback
<1>1. actor[h] \in Actors /\ actor \in [Handles -> Actors]
  BY DEF Shape
<1>2. PICK a : a = [actor[h] EXCEPT !.state = s]
  OBVIOUS
<1>3. a \in Actors /\ a.state = s /\ Moved(a, actor[h]) /\ a.callback = actor[h].callback
  BY <1>1, <1>2 DEF Actors, Moved
<1>4. actor' = [actor EXCEPT ![h] = a]
  BY <1>1, <1>2
<1>5. actor' \in [Handles -> Actors] /\ Kept(h) /\ actor'[h] = a
  BY <1>1, <1>3, <1>4, ActorSet
<1> QED
  BY <1>3, <1>5

\* What the end of on_init changes of its actor.
LEMMA InitDoneSets ==
  ASSUME Shape, NEW h \in Handles, InitDone(h)
  PROVE  /\ actor' \in [Handles -> Actors] /\ Kept(h)
         /\ actor[h].state = "init" /\ actor'[h].state = "live" /\ Moved(actor'[h], actor[h])
<1>1. actor[h] \in Actors /\ actor \in [Handles -> Actors]
  BY DEF Shape
<1>2. PICK callback \in BOOLEAN :
        actor' = [actor EXCEPT ![h].state = "live", ![h].callback = callback]
  BY DEF InitDone
<1>3. PICK a : a = [actor[h] EXCEPT !.state = "live", !.callback = callback]
  OBVIOUS
<1>4. a \in Actors /\ a.state = "live" /\ Moved(a, actor[h])
  BY <1>1, <1>3 DEF Actors, Moved
<1>5. actor' = [actor EXCEPT ![h] = a]
  BY <1>1, <1>2, <1>3
<1>6. actor' \in [Handles -> Actors] /\ Kept(h) /\ actor'[h] = a
  BY <1>1, <1>4, <1>5, ActorSet
<1> QED
  BY <1>4, <1>6 DEF InitDone

\* Each step of an actor's life that only changes its state keeps the shape.
LEMMA ShapeMoves ==
  ASSUME Shape, Globals', UNCHANGED <<box, heap>>, NEW h \in Handles, Kept(h),
         actor' \in [Handles -> Actors], Moved(actor'[h], actor[h]),
         actor'[h].callback = actor[h].callback \/ actor[h].state = "init",
         \/ actor[h].state = "init" /\ actor'[h].state \in {"live", "failed"}
         \/ actor[h].state \in {"live", "erased"} /\ actor'[h].state \in {"erased", "releasing"}
  PROVE  Shape'
<1>1. ActorFine(h) /\ actor[h] \in Actors /\ actor[h].sessions \in Nat
  BY ActorTypes DEF Shape
<1>2. actor[h].state = "init" => actor[h].waits = {}
  BY <1>1 DEF ActorFine, Local
<1>3. Local(actor'[h])
  BY <1>1, <1>2 DEF ActorFine, Local, Moved
<1>4. Older
  BY LengthType DEF Older, Young, Kept
<1>5. Flow
  BY FlowSame
<1>6. actor'[h].sessions <= Len(heap')
  BY <1>1 DEF ActorFine, Moved
<1>7. Range(actor'[h].pending) = Range(actor[h].pending) /\ Range(actor'[h].debts) = Range(actor[h].debts)
  BY DEF Moved
<1> QED
  BY <1>3, <1>4, <1>5, <1>6, <1>7, ShapeStep

\* The end of on_init keeps the shape.
LEMMA ShapeInit ==
  ASSUME Shape, NEW h \in Handles, InitDone(h) \/ InitFails(h) \/ Kill(h) \/ KillResets(h)
  PROVE  Shape'
<1>1. CASE InitDone(h)
  <2>1. Globals'
    BY <1>1 DEF InitDone, Globals, Shape
  <2> QED
    BY <1>1, <2>1, InitDoneSets, ShapeMoves DEF InitDone
<1>2. CASE InitFails(h)
  <2>1. errcall' \in [0 .. MaxHandle -> ErrorCalls]
    BY <1>2, ErrorCallSet, Numbers DEF InitFails
  <2>2. Globals'
    BY <1>2, <2>1, SpendIs DEF InitFails, Globals, Shape
  <2> QED
    BY <1>2, <2>2, StateSet, ShapeMoves DEF InitFails
<1>3. CASE Kill(h)
  <2>1. Globals'
    BY <1>3, SpendIs DEF Kill, Globals, Shape
  <2> QED
    BY <1>3, <2>1, StateSet, ShapeMoves DEF Kill
<1>4. CASE KillResets(h)
  <2>1. Globals'
    BY <1>4, Numbers DEF KillResets, Globals, Shape
  <2> QED
    BY <1>4, <2>1, StateSet, ShapeMoves DEF KillResets
<1> QED
  BY <1>1, <1>2, <1>3, <1>4

-------------------------------------------------------------------------------
(* The end of an actor.                                                    *)

\* A mailbox gets no error when no request in the messages is its own.
LEMMA BouncedNone ==
  ASSUME NEW bx \in Boxes, NEW msgs \in Seq(Messages), NEW h \in Handles, bx[h] = <<>>,
         \A m \in Range(msgs) : ~(NeedsAnswer(m) /\ m.source = h)
  PROVE  Bounced(bx, msgs)[h] = <<>>
<1> DEFINE From == Those(msgs, {m \in Range(msgs) : NeedsAnswer(m) /\ m.source = h})
           Errors == [k \in 1 .. Len(From) |-> Message(0, From[k].session, "ERROR", 0)]
<1>1. Bounced(bx, msgs)[h] = IF ~Accepting(h) THEN bx[h] ELSE bx[h] \o Errors
  BY Zenon DEF Bounced
<1>2. From \in Seq(Messages) /\ \A m : m \in Range(From) <=> m \in Range(msgs) /\ NeedsAnswer(m) /\ m.source = h
  BY ThoseAre
<1>3. PICK q \in Seq(Messages) : q = From /\ Range(q) = {}
  BY <1>2
<1>4. Len(q) = 0
  <2>1. Len(q) \in Nat
    OBVIOUS
  <2>2. ~(1 \in 1 .. Len(q))
    BY <1>3, RangeIs
  <2> QED
    BY <2>1, <2>2
<1>5. 1 .. Len(q) = {}
  BY <1>4
<1>6. Errors = <<>>
  <2>1. Errors = [k \in 1 .. Len(q) |-> Message(0, q[k].session, "ERROR", 0)]
    BY <1>3
  <2> HIDE DEF Errors
  <2> QED
    BY <1>5, <2>1
<1>7. <<>> \o <<>> = <<>>
  OBVIOUS
<1> HIDE DEF Errors, From
<1> QED
  BY <1>1, <1>6, <1>7, Zenon

Emptied(h) == [box EXCEPT ![h] = <<>>]

\* Emptied takes everything out of one mailbox.
LEMMA EmptiedIs ==
  ASSUME Shape, NEW h \in Handles, actor[h].state \notin {"none", "dead"}
  PROVE  /\ Shrunk(Emptied(h)) /\ Emptied(h) \in Boxes /\ Emptied(h)[h] = <<>>
         /\ \A k \in Handles \ {h} : Emptied(h)[k] = box[k]
<1>1. <<>> \in Seq(Messages)
  OBVIOUS
<1>2. box \in Boxes
  BY DEF Shape
<1>3. /\ Emptied(h) \in Boxes /\ Emptied(h)[h] = <<>>
      /\ \A k \in Handles \ {h} : Emptied(h)[k] = box[k]
  BY <1>1, <1>2 DEF Emptied, Boxes
<1> QED
  BY <1>3, RangeEmpty DEF Shrunk

\* What the end of an actor changes: drain_queue answers what needs an answer.
LEMMA DestroyedIs ==
  ASSUME Shape, NEW h \in Handles, actor[h].state \in {"failed", "releasing"}, Destroyed(h)
  PROVE  /\ actor' \in [Handles -> Actors] /\ Kept(h) /\ Local(actor'[h])
         /\ actor'[h].state = "dead" /\ actor'[h].pending = <<>> /\ actor'[h].waits = {}
         /\ actor'[h].debts = <<>> /\ actor'[h].sessions = 0
         /\ Flow /\ Grown(Emptied(h), box') /\ box'[h] = <<>>
         /\ \A m \in Range(box[h]) : NeedsAnswer(m) /\ Accepting(m.source) =>
              HasError(box'[m.source], m.session)
         /\ heap' \in Heaps /\ Len(heap') = Len(heap)
         /\ \A b \in 1 .. Len(heap) :
              /\ heap'[b].frees = heap[b].frees + Count(box[h], b)
              /\ heap'[b].dropped = IF Count(actor[h].pending, b) > 0 THEN "pending" ELSE heap[b].dropped
              /\ heap'[b].got = heap[b].got
              /\ heap'[b].args = heap[b].args
         /\ abandoned' = abandoned \cup Requests(actor[h].pending)
                                   \cup {d \in Range(actor[h].debts) : d[2] # 0}
         /\ abandoned' \subseteq (0 .. MaxHandle) \X (0 .. MaxOps)
<1>1. actor[h] \in Actors /\ box[h] \in Seq(Messages) /\ heap \in Heaps /\ ActorFine(h) /\ BoxFine(h)
  BY DEF Shape, Boxes, Globals
<1>2. PICK q \in Seq(Messages), p \in Seq(Messages), kind \in {"lua", "logger"} :
        q = box[h] /\ p = actor[h].pending /\ kind = actor[h].kind
  <2>1. actor[h].pending \in Seq(Messages) /\ actor[h].kind \in {"lua", "logger"}
    BY <1>1 DEF Actors
  <2> QED
    BY <1>1, <2>1
<1>3. /\ actor' \in [Handles -> Actors] /\ Kept(h) /\ Local(actor'[h])
      /\ actor'[h].state = "dead" /\ actor'[h].pending = <<>> /\ actor'[h].waits = {}
      /\ actor'[h].debts = <<>> /\ actor'[h].sessions = 0
  <2>1. PICK a \in Actors :
          /\ a = NewActor(kind, "dead") /\ a.state = "dead" /\ a.pending = <<>> /\ a.waits = {}
          /\ a.sessions = 0 /\ a.debts = <<>> /\ Local(a)
    BY NewActorType
  <2>2. actor' = [actor EXCEPT ![h] = a]
    BY <1>2, <2>1 DEF Destroyed, Shape
  <2>3. actor' \in [Handles -> Actors] /\ Kept(h) /\ actor'[h] = a
    BY <2>1, <2>2, ActorSet DEF Shape
  <2> QED
    BY <2>1, <2>3
<1>4. /\ box' = Bounced(Emptied(h), q)
      /\ heap' = Freed(Dropped(heap, p, "pending"), q)
  BY <1>2, Zenon DEF Destroyed, drain_queue, Emptied
<1>5. /\ Shrunk(Emptied(h)) /\ Emptied(h) \in Boxes /\ Emptied(h)[h] = <<>>
  BY EmptiedIs
<1>6. /\ Grown(Emptied(h), box')
      /\ \A m \in Range(q) : NeedsAnswer(m) /\ Accepting(m.source) =>
           HasError(box'[m.source], m.session)
  <2>1. /\ Grown(Emptied(h), Bounced(Emptied(h), q))
        /\ \A m \in Range(q) : NeedsAnswer(m) /\ Accepting(m.source) =>
              HasError(Bounced(Emptied(h), q)[m.source], m.session)
    BY <1>5, BouncedGrows
  <2> QED
    BY <1>4, <2>1
<1>7. Flow
  BY <1>5, <1>6, FlowGrown
<1>8. box'[h] = <<>>
  <2>1. CASE actor[h].state = "releasing"
    <3>1. ~Accepting(h)
      BY <2>1 DEF Accepting
    <3> QED
      BY <1>5, <1>6, <3>1 DEF Grown
  <2>2. CASE actor[h].state = "failed"
    <3>1. Young(h)
      BY <2>2 DEF Young
    <3>2. \A m \in Range(q) : ~(NeedsAnswer(m) /\ m.source = h)
      BY <1>1, <1>2, <3>1 DEF BoxFine, Fine
    <3>3. Bounced(Emptied(h), q)[h] = <<>>
      BY <1>5, <3>2, BouncedNone
    <3> QED
      BY <1>4, <3>3
  <2> QED
    BY <2>1, <2>2
<1>9. /\ heap' \in Heaps /\ Len(heap') = Len(heap)
      /\ \A b \in 1 .. Len(heap) :
           /\ heap'[b].frees = heap[b].frees + Count(q, b)
           /\ heap'[b].dropped = IF Count(p, b) > 0 THEN "pending" ELSE heap[b].dropped
           /\ heap'[b].got = heap[b].got
           /\ heap'[b].args = heap[b].args
  <2>0. PICK hq \in Heaps : hq = heap
    BY <1>1
  <2>1. PICK hp : hp = Dropped(hq, p, "pending")
    OBVIOUS
  <2>2. /\ hp \in Heaps /\ Len(hp) = Len(heap)
        /\ \A b \in 1 .. Len(heap) :
             /\ hp[b].frees = heap[b].frees
             /\ hp[b].dropped = IF Count(p, b) > 0 THEN "pending" ELSE heap[b].dropped
             /\ hp[b].got = heap[b].got
             /\ hp[b].args = heap[b].args
    <3>1. /\ Dropped(hq, p, "pending") \in Heaps /\ Len(Dropped(hq, p, "pending")) = Len(hq)
          /\ \A b \in 1 .. Len(hq) :
               /\ Dropped(hq, p, "pending")[b].frees = hq[b].frees
               /\ Dropped(hq, p, "pending")[b].dropped = IF Count(p, b) > 0 THEN "pending" ELSE hq[b].dropped
               /\ Dropped(hq, p, "pending")[b].got = hq[b].got
               /\ Dropped(hq, p, "pending")[b].args = hq[b].args
      BY DroppedIs
    <3> QED
      BY <2>0, <2>1, <3>1
  <2>3. heap' = Freed(hp, q)
    BY <1>4, <2>0, <2>1
  <2>4. /\ heap' \in Heaps /\ Len(heap') = Len(hp)
        /\ \A b \in 1 .. Len(hp) :
             /\ heap'[b].frees = hp[b].frees + Count(q, b)
             /\ heap'[b].dropped = hp[b].dropped
             /\ heap'[b].got = hp[b].got
             /\ heap'[b].args = hp[b].args
    BY <2>2, <2>3, FreedIs
  <2> QED
    BY <2>2, <2>4
<1>10. abandoned' = abandoned \cup Requests(actor[h].pending)
                                   \cup {d \in Range(actor[h].debts) : d[2] # 0}
  BY DEF Destroyed
<1>11. abandoned' \subseteq (0 .. MaxHandle) \X (0 .. MaxOps)
  <2>1. Requests(actor[h].pending) \subseteq (0 .. MaxHandle) \X (0 .. MaxOps)
    BY <1>2, RequestsType
  <2>2. \A d \in Range(actor[h].debts) : d \in (0 .. MaxHandle) \X (0 .. MaxOps)
    <3>1. PICK r \in Seq((0 .. MaxHandle) \X (0 .. MaxOps)) : r = actor[h].debts
      BY <1>1, ActorTypes
    <3> QED
      BY <3>1, RangeType
  <2>3. abandoned \subseteq (0 .. MaxHandle) \X (0 .. MaxOps)
    BY DEF Shape, Globals
  <2> QED
    BY <1>10, <2>1, <2>2, <2>3
<1> QED
  BY <1>2, <1>3, <1>6, <1>7, <1>8, <1>9, <1>10, <1>11

\* The end of an actor keeps the shape.
LEMMA ShapeDestroys ==
  ASSUME Shape, NEW h \in Handles, SpawnFails(h) \/ Destroy(h)
  PROVE  Shape'
<1>1. actor[h].state \in {"failed", "releasing"} /\ Destroyed(h)
  BY DEF SpawnFails, Destroy
<1>2. /\ actor' \in [Handles -> Actors] /\ Kept(h) /\ Local(actor'[h])
      /\ actor'[h].state = "dead" /\ actor'[h].pending = <<>> /\ actor'[h].waits = {}
      /\ actor'[h].debts = <<>> /\ actor'[h].sessions = 0
      /\ Flow /\ box'[h] = <<>>
      /\ heap' \in Heaps /\ Len(heap') = Len(heap)
      /\ abandoned' \subseteq (0 .. MaxHandle) \X (0 .. MaxOps)
  BY <1>1, DestroyedIs
<1>3. Globals'
  BY <1>2 DEF SpawnFails, Destroy, Globals, Shape
<1>4. Older
  BY <1>2, LengthType DEF Older, Young, Kept
<1>5. Range(actor'[h].pending) = {} /\ Range(actor'[h].debts) = {}
  BY <1>2, RangeEmpty
<1>6. actor'[h].sessions <= Len(heap')
  BY <1>2, LengthType
<1> QED
  BY <1>2, <1>3, <1>4, <1>5, <1>6, ShapeStep

-------------------------------------------------------------------------------
(* Steps that dispatch.                                                    *)

\* What LuaActor::on_message shows of a message differs from it at most in the buffer.
LEMMA VisibleIs ==
  ASSUME NEW m \in Messages
  PROVE  /\ Visible(m) \in Messages
         /\ Visible(m).source = m.source /\ Visible(m).session = m.session
         /\ Visible(m).type = m.type
         /\ Visible(m).data = IF m.type \in {"LUA", "RESPONSE"} THEN m.data ELSE 0
         /\ m # Visible(m) => Visible(m).data = 0
         /\ NeedsAnswer(Visible(m)) <=> NeedsAnswer(m)
<1>1. PICK z \in 0 .. MaxOps : z = 0
  BY Numbers
<1>2. /\ [m EXCEPT !.data = z] \in Messages
      /\ [m EXCEPT !.data = z].source = m.source /\ [m EXCEPT !.data = z].session = m.session
      /\ [m EXCEPT !.data = z].type = m.type /\ [m EXCEPT !.data = z].data = z
  BY DEF Messages
<1>3. PICK v : v = [m EXCEPT !.data = z]
  OBVIOUS
<1>4. Visible(m) = IF m.type \in {"LUA", "RESPONSE"} THEN m ELSE v
  BY <1>1, <1>3 DEF Visible
<1>5. /\ Visible(m) \in Messages
      /\ Visible(m).source = m.source /\ Visible(m).session = m.session
      /\ Visible(m).type = m.type
      /\ Visible(m).data = IF m.type \in {"LUA", "RESPONSE"} THEN m.data ELSE 0
      /\ m # Visible(m) => Visible(m).data = 0
  BY <1>1, <1>2, <1>3, <1>4
<1> QED
  BY <1>5 DEF NeedsAnswer

\* One message as a sequence.
LEMMA OneMessage ==
  ASSUME NEW m \in Messages
  PROVE  <<m>> \in Seq(Messages) /\ Range(<<m>>) = {m}
<1>1. <<m>> \in Seq(Messages)
  OBVIOUS
<1> QED
  BY <1>1, RangeOne

\* The requests of one message.
LEMMA OneRequest ==
  ASSUME NEW m \in Messages
  PROVE  /\ Requests(<<m>>) \subseteq (0 .. MaxHandle) \X (0 .. MaxOps)
         /\ NeedsAnswer(m) => <<m.source, m.session>> \in Requests(<<m>>)
<1>1. PICK q \in Seq(Messages) : q = <<m>> /\ Range(q) = {m}
  BY OneMessage
<1>2. Requests(q) \subseteq (0 .. MaxHandle) \X (0 .. MaxOps)
  BY RequestsType
<1>3. NeedsAnswer(m) => <<m.source, m.session>> \in Requests(q)
  BY <1>1 DEF Requests
<1> QED
  BY <1>1, <1>2, <1>3

\* Payloads that a receiver lets go of.
LEMMA DroppedOne ==
  ASSUME NEW hp \in Heaps, NEW m \in Messages, NEW why \in {"pending", "logger", "type", "session"}
  PROVE  /\ Dropped(hp, <<m>>, why) \in Heaps /\ Len(Dropped(hp, <<m>>, why)) = Len(hp)
         /\ \A b \in 1 .. Len(hp) :
              /\ Dropped(hp, <<m>>, why)[b].frees = hp[b].frees
              /\ Dropped(hp, <<m>>, why)[b].dropped = IF Count(<<m>>, b) > 0 THEN why ELSE hp[b].dropped
              /\ Dropped(hp, <<m>>, why)[b].got = hp[b].got
              /\ Dropped(hp, <<m>>, why)[b].args = hp[b].args
BY OneMessage, DroppedIs

\* ServiceLogger::on_message keeps the shape.
LEMMA ShapeDispatchLogger ==
  ASSUME Shape, NEW h \in Handles, DispatchLogger(h)
  PROVE  Shape'
<1>1. CanDispatch(h) /\ UNCHANGED actor /\ box' = Popped(h)
  BY DEF DispatchLogger
<1>2. PICK m \in Messages : m = Head(box[h])
  BY <1>1, PoppedIs
<1>3. heap' = Dropped(heap, <<m>>, "logger") /\ abandoned' = abandoned \cup Requests(<<m>>)
  BY <1>2 DEF DispatchLogger
<1>4. heap' \in Heaps /\ Len(heap') = Len(heap)
  BY <1>3, LengthType, DroppedOne
<1>5. abandoned' \subseteq (0 .. MaxHandle) \X (0 .. MaxOps)
  BY <1>3, OneRequest DEF Shape, Globals
<1>6. Globals'
  BY <1>4, <1>5 DEF DispatchLogger, Globals, Shape
<1>7. Popped(h) \in Boxes /\ Shrunk(Popped(h))
  BY <1>1, PoppedIs
<1>8. Flow
  BY <1>1, <1>7 DEF Flow, Shrunk
<1> QED
  BY <1>1, <1>4, <1>6, <1>8, LengthType, ShapeMail

\* on_message without a callback keeps the shape.
LEMMA ShapeDispatchNoCallback ==
  ASSUME Shape, NEW h \in Handles, DispatchNoCallback(h)
  PROVE  Shape'
<1>1. CanDispatch(h) /\ UNCHANGED actor /\ box' = Popped(h)
  BY DEF DispatchNoCallback
<1>2. PICK m \in Messages : m = Head(box[h])
  BY <1>1, PoppedIs
<1>3. heap' = Freed(heap, <<m>>) /\ abandoned' = abandoned \cup Requests(<<m>>)
  BY <1>2 DEF DispatchNoCallback
<1>4. heap' \in Heaps /\ Len(heap') = Len(heap)
  BY <1>3, LengthType, OneMessage, FreedIs
<1>5. abandoned' \subseteq (0 .. MaxHandle) \X (0 .. MaxOps)
  BY <1>3, OneRequest DEF Shape, Globals
<1>6. Globals'
  BY <1>4, <1>5 DEF DispatchNoCallback, Globals, Shape
<1>7. Popped(h) \in Boxes /\ Shrunk(Popped(h))
  BY <1>1, PoppedIs
<1>8. Flow
  BY <1>1, <1>7 DEF Flow, Shrunk
<1> QED
  BY <1>1, <1>4, <1>6, <1>8, LengthType, ShapeMail

\* What a request that is kept for later changes.
LEMMA EarlyIs ==
  ASSUME Shape, NEW h \in Handles, DispatchEarly(h)
  PROVE  \E m \in Messages :
           /\ m = Head(box[h]) /\ CanDispatch(h) /\ box' = Popped(h)
           /\ m.type \in {"LUA", "CLIENT"}
           /\ heap' = IF m = Visible(m) THEN heap ELSE Dropped(heap, <<m>>, "type")
           /\ heap' \in Heaps /\ Len(heap') = Len(heap)
           /\ actor' \in [Handles -> Actors] /\ Kept(h)
           /\ actor'[h].kind = actor[h].kind /\ actor'[h].state = actor[h].state
           /\ actor'[h].callback = actor[h].callback /\ actor'[h].waits = actor[h].waits
           /\ actor'[h].sessions = actor[h].sessions /\ actor'[h].debts = actor[h].debts
           /\ \A x : x \in Range(actor'[h].pending) <=> x \in Range(actor[h].pending) \/ x = Visible(m)
           /\ \A b : Count(actor'[h].pending, b)
                       = Count(actor[h].pending, b) + (IF Visible(m).data = b THEN 1 ELSE 0)
<1>1. CanDispatch(h) /\ box' = Popped(h)
  BY DEF DispatchEarly
<1>2. PICK m \in Messages : m = Head(box[h])
  BY <1>1, PoppedIs
<1>3. /\ m.type \in {"LUA", "CLIENT"}
      /\ heap' = IF m = Visible(m) THEN heap ELSE Dropped(heap, <<m>>, "type")
      /\ actor' = [actor EXCEPT ![h].pending = Append(@, Visible(m))]
  BY <1>2 DEF DispatchEarly
<1>4. heap' \in Heaps /\ Len(heap') = Len(heap)
  <2>1. Dropped(heap, <<m>>, "type") \in Heaps /\ Len(Dropped(heap, <<m>>, "type")) = Len(heap)
    BY LengthType, DroppedOne
  <2> QED
    BY <1>3, <2>1, LengthType
<1>5. actor[h] \in Actors /\ actor \in [Handles -> Actors]
  BY DEF Shape
<1>6. PICK p \in Seq(Messages), v \in Messages : p = actor[h].pending /\ v = Visible(m)
  BY <1>5, ActorTypes, VisibleIs
<1>7. PICK r : r = Append(p, v)
  OBVIOUS
<1>8. r \in Seq(Messages) /\ (\A x : x \in Range(r) <=> x \in Range(p) \/ x = v)
  BY <1>7, RangeAppend, Zenon
<1>9. \A b : Count(r, b) = Count(p, b) + (IF v.data = b THEN 1 ELSE 0)
  BY <1>7, CountAppend, Zenon
<1>10. PICK a : a = [actor[h] EXCEPT !.pending = r]
  OBVIOUS
<1>11. /\ a \in Actors /\ a.kind = actor[h].kind /\ a.state = actor[h].state
       /\ a.callback = actor[h].callback /\ a.waits = actor[h].waits
       /\ a.sessions = actor[h].sessions /\ a.debts = actor[h].debts /\ a.pending = r
  BY <1>5, <1>8, <1>10 DEF Actors
<1>12. actor' = [actor EXCEPT ![h].pending = r]
  BY <1>3, <1>5, <1>6, <1>7
<1>13. actor' = [actor EXCEPT ![h] = a]
  BY <1>5, <1>10, <1>12
<1>14. actor' \in [Handles -> Actors] /\ Kept(h) /\ actor'[h] = a
  BY <1>5, <1>11, <1>13, ActorSet
<1>15. /\ actor'[h].kind = actor[h].kind /\ actor'[h].state = actor[h].state
       /\ actor'[h].callback = actor[h].callback /\ actor'[h].waits = actor[h].waits
       /\ actor'[h].sessions = actor[h].sessions /\ actor'[h].debts = actor[h].debts
       /\ \A x : x \in Range(actor'[h].pending) <=> x \in Range(actor[h].pending) \/ x = Visible(m)
       /\ \A b : Count(actor'[h].pending, b)
                   = Count(actor[h].pending, b) + (IF Visible(m).data = b THEN 1 ELSE 0)
  BY <1>6, <1>8, <1>9, <1>11, <1>14
<1> QED
  BY <1>1, <1>2, <1>3, <1>4, <1>14, <1>15, Zenon

\* A request before the start keeps the shape.
LEMMA ShapeDispatchEarly ==
  ASSUME Shape, NEW h \in Handles, DispatchEarly(h)
  PROVE  Shape'
<1>1. PICK m \in Messages :
           /\ m = Head(box[h]) /\ CanDispatch(h) /\ box' = Popped(h)
           /\ m.type \in {"LUA", "CLIENT"}
           /\ heap' \in Heaps /\ Len(heap') = Len(heap)
           /\ actor' \in [Handles -> Actors] /\ Kept(h)
           /\ actor'[h].kind = actor[h].kind /\ actor'[h].state = actor[h].state
           /\ actor'[h].callback = actor[h].callback /\ actor'[h].waits = actor[h].waits
           /\ actor'[h].sessions = actor[h].sessions /\ actor'[h].debts = actor[h].debts
           /\ \A x : x \in Range(actor'[h].pending) <=> x \in Range(actor[h].pending) \/ x = Visible(m)
  BY EarlyIs
<1>2. Fine(m) /\ Popped(h) \in Boxes /\ Shrunk(Popped(h))
  BY <1>1, PoppedIs
<1>3. Flow
  BY <1>1, <1>2 DEF Flow, Shrunk
<1>4. PICK v \in Messages :
        /\ v = Visible(m) /\ v.source = m.source /\ v.session = m.session /\ v.type = m.type
        /\ v.data = (IF m.type \in {"LUA", "RESPONSE"} THEN m.data ELSE 0)
        /\ (NeedsAnswer(v) <=> NeedsAnswer(m))
  BY VisibleIs
<1>5. Fine(v)
  BY <1>2, <1>4, LengthType DEF Fine
<1>6. v.type # "LUA" => v.data = 0
  BY <1>1, <1>4
<1>7. ActorFine(h) /\ BoxFine(h) /\ actor[h].state \notin {"none", "dead"}
  BY <1>1 DEF Shape, CanDispatch
<1>8. Local(actor'[h])
  BY <1>1, <1>4, <1>6, <1>7 DEF ActorFine, Local
<1>9. Older
  BY <1>1, LengthType DEF Older, Young, Kept
<1>10. Globals'
  BY <1>1 DEF DispatchEarly, Globals, Shape
<1>11. actor'[h].sessions <= Len(heap')
  BY <1>1, <1>7 DEF ActorFine
<1>12. actor'[h].state \in {"none", "dead"} => box'[h] = <<>>
  BY <1>1 DEF CanDispatch
<1> QED
  BY <1>1, <1>3, <1>4, <1>5, <1>8, <1>9, <1>10, <1>11, <1>12, ShapeStep

Debts == (0 .. MaxHandle) \X (0 .. MaxOps)

\* What the handlers of known requests owe.
LEMMA OwedIs ==
  ASSUME NEW q \in Seq(Messages)
  PROVE  /\ [k \in 1 .. Len(q) |-> <<q[k].source, q[k].session>>] \in Seq(Debts)
         /\ \A d \in Range([k \in 1 .. Len(q) |-> <<q[k].source, q[k].session>>]) :
              \E m \in Range(q) : d = <<m.source, m.session>>
         /\ \A m \in Range(q) :
              <<m.source, m.session>> \in Range([k \in 1 .. Len(q) |-> <<q[k].source, q[k].session>>])
<1> DEFINE Owed(m) == <<m.source, m.session>>
<1>1. \A m \in Messages : Owed(m) \in Debts
  BY DEF Messages, Debts
<1> HIDE DEF Owed
<1>2. PICK z : z = [k \in 1 .. Len(q) |-> Owed(q[k])]
  OBVIOUS
<1>3. Len(q) \in Nat /\ \A k \in 1 .. Len(q) : q[k] \in Messages
  OBVIOUS
<1>4. z \in [1 .. Len(q) -> Debts]
  BY <1>1, <1>2, <1>3
<1>5. z \in Seq(Debts) /\ Len(z) = Len(q)
  BY <1>3, <1>4
<1>6. \A k \in 1 .. Len(q) : z[k] = Owed(q[k])
  BY <1>2
<1>7. ASSUME NEW d \in Range(z) PROVE \E m \in Range(q) : d = Owed(m)
  <2>1. PICK k \in 1 .. Len(z) : z[k] = d
    BY <1>5, RangeIs
  <2>2. q[k] \in Range(q)
    BY <1>5, <2>1, RangeIs
  <2> QED
    BY <1>5, <1>6, <2>1, <2>2
<1>8. ASSUME NEW m \in Range(q) PROVE Owed(m) \in Range(z)
  <2>1. PICK k \in 1 .. Len(q) : q[k] = m
    BY RangeIs
  <2>2. z[k] \in Range(z)
    BY <1>5, RangeIs
  <2> QED
    BY <1>6, <2>1, <2>2
<1>9. z = [k \in 1 .. Len(q) |-> <<q[k].source, q[k].session>>]
  BY <1>2 DEF Owed
<1>10. \A m : Owed(m) = <<m.source, m.session>>
  BY DEF Owed
<1> QED
  BY <1>5, <1>7, <1>8, <1>9, <1>10, Zenon

\* unpacktrash of messages, the buffers of which are all of the type, buffer by buffer.
LEMMA ManyTrashed ==
  ASSUME NEW hp \in Heaps, NEW msgs \in Seq(Messages), NEW type,
         \A m \in Range(msgs) : m.type # type => m.data = 0,
         heap' = unpacktrash(hp, msgs, type)
  PROVE  /\ heap' \in Heaps /\ Len(heap') = Len(hp)
         /\ \A b \in 1 .. Len(hp) :
              /\ heap'[b].frees = hp[b].frees + Count(msgs, b)
              /\ heap'[b].dropped = hp[b].dropped
              /\ heap'[b].args = hp[b].args
              /\ heap'[b].got = IF Count(msgs, b) > 0 THEN Contents(hp[b]) ELSE hp[b].got
<1>1. PICK g : g = unpacktrash(hp, msgs, type)
  OBVIOUS
<1>2. /\ g \in Heaps /\ Len(g) = Len(hp)
      /\ \A b \in 1 .. Len(hp) :
              /\ g[b].frees = hp[b].frees + Count(msgs, b)
              /\ g[b].dropped = hp[b].dropped
              /\ g[b].args = hp[b].args
              /\ g[b].got = IF Count(msgs, b) > 0 THEN Contents(hp[b]) ELSE hp[b].got
  BY <1>1, TrashedIs, ZenonT(60)
<1> QED
  BY <1>1, <1>2

\* raw_dispatch_message, for a sequence of requests.
LEMMA HandleIs ==
  ASSUME Shape, NEW h \in Handles, NEW bx, Shrunk(bx), NEW hp, NEW msgs \in Seq(Messages),
         NEW self \in Actors, Handle(h, bx, hp, msgs, self)
  PROVE  /\ actor' \in [Handles -> Actors] /\ Kept(h) /\ Alike(actor'[h], self)
         /\ \A d \in Range(actor'[h].debts) :
              d \in Range(self.debts) \/ \E m \in Range(msgs) : m.type = "LUA" /\ d = <<m.source, m.session>>
         /\ \A d \in Range(self.debts) : d \in Range(actor'[h].debts)
         /\ \A m \in Range(msgs) : m.type = "LUA" => <<m.source, m.session>> \in Range(actor'[h].debts)
         /\ Flow /\ Grown(bx, box')
         /\ \A m \in Range(msgs) : m.type # "LUA" /\ NeedsAnswer(m) /\ Accepting(m.source) =>
              HasError(box'[m.source], m.session)
         /\ logger_handle' \in 0 .. MaxHandle
<1>1. /\ Known(msgs) \in Seq(Messages)
      /\ \A m : m \in Range(Known(msgs)) <=> m \in Range(msgs) /\ m.type = "LUA"
  BY ThoseAre DEF Known
<1>2. /\ Unknown(msgs) \in Seq(Messages)
      /\ \A m : m \in Range(Unknown(msgs)) <=> m \in Range(msgs) /\ m.type # "LUA"
  BY ThoseAre DEF Unknown
<1>3. Unasked(msgs) \in Seq(Messages)
  BY ThoseAre DEF Unasked
<1>4. PICK q \in Seq(Messages), r \in Seq(Messages), n \in Nat :
        q = Known(msgs) /\ r = Unknown(msgs) /\ n = Len(Unasked(msgs))
  <2>1. Len(Unasked(msgs)) \in Nat
    BY <1>3
  <2> QED
    BY <1>1, <1>2, <2>1, Zenon
<1>5. /\ \A m : m \in Range(q) <=> m \in Range(msgs) /\ m.type = "LUA"
      /\ \A m : m \in Range(r) <=> m \in Range(msgs) /\ m.type # "LUA"
  BY <1>1, <1>2, <1>4, Zenon
<1>6. PICK z : z = [k \in 1 .. Len(q) |-> <<q[k].source, q[k].session>>]
  OBVIOUS
<1>7. /\ z \in Seq(Debts)
      /\ \A d \in Range(z) : \E m \in Range(q) : d = <<m.source, m.session>>
      /\ \A m \in Range(q) : <<m.source, m.session>> \in Range(z)
  BY <1>6, OwedIs, Zenon
<1>8. PICK s \in Seq(Debts) : s = self.debts
  BY ActorTypes DEF Debts
<1>9. PICK t : t = s \o z
  OBVIOUS
<1>10. t \in Seq(Debts) /\ \A d : d \in Range(t) <=> d \in Range(s) \/ d \in Range(z)
  BY <1>7, <1>9, RangeConcat, Zenon
<1>11. PICK a : a = [self EXCEPT !.debts = t]
  OBVIOUS
<1>12. a \in Actors /\ a.debts = t /\ Alike(a, self)
  BY <1>10, <1>11 DEF Actors, Alike, Debts
<1>13. actor' = [actor EXCEPT ![h] = a]
  <2>1. actor' = [actor EXCEPT ![h] = [self EXCEPT
          !.debts = @ \o [k \in 1 .. Len(Known(msgs)) |-> <<Known(msgs)[k].source, Known(msgs)[k].session>>]]]
    BY Zenon DEF Handle
  <2>2. t = self.debts \o [k \in 1 .. Len(Known(msgs)) |-> <<Known(msgs)[k].source, Known(msgs)[k].session>>]
    BY <1>4, <1>6, <1>8, <1>9, Zenon
  <2>3. PICK u : u = self.debts \o [k \in 1 .. Len(Known(msgs)) |-> <<Known(msgs)[k].source, Known(msgs)[k].session>>]
    OBVIOUS
  <2>4. actor' = [actor EXCEPT ![h] = [self EXCEPT !.debts = u]]
    BY <2>1, <2>3, Zenon
  <2>5. u = t
    BY <2>2, <2>3, Zenon
  <2> QED
    BY <1>11, <2>4, <2>5
<1>14. actor' \in [Handles -> Actors] /\ Kept(h) /\ actor'[h] = a
  BY <1>12, <1>13, ActorSet DEF Shape
<1>15. /\ \A d \in Range(t) : d \in Range(s) \/ \E m \in Range(msgs) : m.type = "LUA" /\ d = <<m.source, m.session>>
       /\ \A d \in Range(s) : d \in Range(t)
       /\ \A m \in Range(msgs) : m.type = "LUA" => <<m.source, m.session>> \in Range(t)
  BY <1>5, <1>7, <1>10, Zenon
<1>16. /\ box' = Reported(Bounced(bx, r), h, n)
       /\ Report(n)
  BY <1>4, Zenon DEF Handle
<1>17. PICK by : by = Bounced(bx, r)
  OBVIOUS
<1>18. bx \in Boxes
  BY DEF Shrunk
<1>19. /\ Grown(bx, by)
       /\ \A m \in Range(r) : NeedsAnswer(m) /\ Accepting(m.source) => HasError(by[m.source], m.session)
  BY <1>17, <1>18, BouncedGrows
<1>20. box' = Reported(by, h, n) /\ h \in 0 .. MaxHandle
  BY <1>16, <1>17, Numbers
<1>21. Grown(by, box')
  <2>1. by \in Boxes
    BY <1>19 DEF Grown
  <2> QED
    BY <1>20, <2>1, ReportedGrows
<1>22. Grown(bx, box')
  BY <1>19, <1>21, GrownTwice
<1>23. Flow
  BY <1>22, FlowGrown
<1>24. ASSUME NEW m \in Range(msgs), m.type # "LUA", NeedsAnswer(m), Accepting(m.source)
       PROVE  HasError(box'[m.source], m.session)
  <2>1. HasError(by[m.source], m.session) /\ m.source \in Handles
    BY <1>5, <1>19, <1>24 DEF Accepting
  <2> QED
    BY <1>21, <2>1 DEF HasError, Grown
<1>25. logger_handle' \in 0 .. MaxHandle
  BY <1>16, TargetType DEF Report, Shape, Globals
<1> QED
  BY <1>8, <1>12, <1>14, <1>15, <1>22, <1>23, <1>24, <1>25

\* What the dispatch of a request changes.
LEMMA RequestIs ==
  ASSUME Shape, NEW h \in Handles, DispatchRequest(h)
  PROVE  \E m \in Messages, v \in Messages, hp \in Heaps :
           /\ m = Head(box[h]) /\ v = Visible(m) /\ CanDispatch(h)
           /\ m.type \in {"LUA", "CLIENT"}
           /\ hp = (IF m = v THEN heap ELSE Dropped(heap, <<m>>, "type"))
           /\ Len(hp) = Len(heap)
           /\ heap' = unpacktrash(hp, <<v>>, "LUA")
           /\ heap' \in Heaps /\ Len(heap') = Len(heap)
           /\ actor' \in [Handles -> Actors] /\ Kept(h) /\ Alike(actor'[h], actor[h])
           /\ \A d \in Range(actor'[h].debts) :
                d \in Range(actor[h].debts) \/ (m.type = "LUA" /\ d = <<m.source, m.session>>)
           /\ \A d \in Range(actor[h].debts) : d \in Range(actor'[h].debts)
           /\ m.type = "LUA" => <<m.source, m.session>> \in Range(actor'[h].debts)
           /\ Flow /\ Grown(Popped(h), box')
           /\ m.type # "LUA" /\ NeedsAnswer(m) /\ Accepting(m.source) =>
                HasError(box'[m.source], m.session)
           /\ logger_handle' \in 0 .. MaxHandle
<1>1. CanDispatch(h)
  BY DEF DispatchRequest
<1>2. PICK m \in Messages : m = Head(box[h])
  BY <1>1, PoppedIs
<1>3. PICK v \in Messages :
        /\ v = Visible(m) /\ v.source = m.source /\ v.session = m.session /\ v.type = m.type
        /\ v.data = (IF m.type \in {"LUA", "RESPONSE"} THEN m.data ELSE 0)
        /\ (NeedsAnswer(v) <=> NeedsAnswer(m))
  BY VisibleIs
<1>4. PICK hp : hp = IF m = v THEN heap ELSE Dropped(heap, <<m>>, "type")
  OBVIOUS
<1>5. hp \in Heaps /\ Len(hp) = Len(heap)
  <2>1. Dropped(heap, <<m>>, "type") \in Heaps /\ Len(Dropped(heap, <<m>>, "type")) = Len(heap)
    BY LengthType, DroppedOne
  <2> QED
    BY <1>4, <2>1, LengthType
<1>6. PICK self : self = [actor[h] EXCEPT !.early = actor[h].start # "ok"]
  OBVIOUS
<1>7. self \in Actors /\ Alike(self, actor[h]) /\ self.debts = actor[h].debts
  <2>1. actor[h] \in Actors
    BY DEF Shape
  <2>2. PICK e \in BOOLEAN : e = (actor[h].start # "ok")
    OBVIOUS
  <2>3. self = [actor[h] EXCEPT !.early = e]
    BY <1>6, <2>2
  <2> QED
    BY <2>1, <2>3 DEF Actors, Alike
<1>8. m.type \in {"LUA", "CLIENT"} /\ Handle(h, Popped(h), hp, <<v>>, self)
  <2>1. /\ Head(box[h]).type = "LUA" \/ (Head(box[h]).type = "CLIENT" /\ actor[h].start = "ok")
        /\ Handle(h, Popped(h),
             IF Head(box[h]) = Visible(Head(box[h])) THEN heap ELSE Dropped(heap, <<Head(box[h])>>, "type"),
             <<Visible(Head(box[h]))>>, [actor[h] EXCEPT !.early = actor[h].start # "ok"])
    BY Zenon DEF DispatchRequest
  <2> QED
    BY <1>2, <1>3, <1>4, <1>6, <2>1, Zenon
<1>9. PICK q \in Seq(Messages) : q = <<v>> /\ Range(q) = {v}
  BY OneMessage
<1>10. Handle(h, Popped(h), hp, q, self)
  BY <1>8, <1>9, Zenon
<1>11. Shrunk(Popped(h))
  BY <1>1, PoppedIs
<1>12. /\ actor' \in [Handles -> Actors] /\ Kept(h) /\ Alike(actor'[h], self)
       /\ \A d \in Range(actor'[h].debts) :
              d \in Range(self.debts) \/ \E x \in Range(q) : x.type = "LUA" /\ d = <<x.source, x.session>>
       /\ \A d \in Range(self.debts) : d \in Range(actor'[h].debts)
       /\ \A x \in Range(q) : x.type = "LUA" => <<x.source, x.session>> \in Range(actor'[h].debts)
       /\ Flow /\ Grown(Popped(h), box')
       /\ \A x \in Range(q) : x.type # "LUA" /\ NeedsAnswer(x) /\ Accepting(x.source) =>
              HasError(box'[x.source], x.session)
       /\ logger_handle' \in 0 .. MaxHandle
  BY <1>7, <1>10, <1>11, HandleIs
<1>13. /\ Alike(actor'[h], actor[h])
       /\ \A d \in Range(actor'[h].debts) :
            d \in Range(actor[h].debts) \/ (m.type = "LUA" /\ d = <<m.source, m.session>>)
       /\ \A d \in Range(actor[h].debts) : d \in Range(actor'[h].debts)
       /\ m.type = "LUA" => <<m.source, m.session>> \in Range(actor'[h].debts)
       /\ m.type # "LUA" /\ NeedsAnswer(m) /\ Accepting(m.source) =>
                HasError(box'[m.source], m.session)
  <2>1. v \in Range(q)
    BY <1>9
  <2> QED
    BY <1>3, <1>7, <1>9, <1>12, <2>1 DEF Alike
<1>14. heap' = unpacktrash(hp, q, "LUA")
  BY <1>10, Zenon DEF Handle
<1>15. heap' \in Heaps /\ Len(heap') = Len(hp)
  <2>1. \A x \in Range(q) : x.type # "LUA" => x.data = 0
    BY <1>3, <1>8, <1>9
  <2> QED
    BY <1>5, <1>14, <2>1, ManyTrashed
<1>16. heap' = unpacktrash(hp, <<v>>, "LUA")
  BY <1>9, <1>14, Zenon
<1>17. heap' \in Heaps /\ Len(heap') = Len(heap) /\ m.type \in {"LUA", "CLIENT"}
  BY <1>5, <1>8, <1>15
<1>18. hp \in Heaps
  BY <1>5
<1> USE <1>18
<1> WITNESS m \in Messages, v \in Messages, hp \in Heaps
<1> QED
  BY <1>1, <1>2, <1>3, <1>4, <1>5, <1>12, <1>13, <1>16, <1>17, Zenon

\* A request that is handled keeps the shape.
LEMMA ShapeDispatchRequest ==
  ASSUME Shape, NEW h \in Handles, DispatchRequest(h)
  PROVE  Shape'
<1>1. PICK m \in Messages, v \in Messages, hp \in Heaps :
           /\ m = Head(box[h]) /\ v = Visible(m) /\ CanDispatch(h)
           /\ m.type \in {"LUA", "CLIENT"}
           /\ hp = (IF m = v THEN heap ELSE Dropped(heap, <<m>>, "type"))
           /\ Len(hp) = Len(heap)
           /\ heap' = unpacktrash(hp, <<v>>, "LUA")
           /\ heap' \in Heaps /\ Len(heap') = Len(heap)
           /\ actor' \in [Handles -> Actors] /\ Kept(h) /\ Alike(actor'[h], actor[h])
           /\ \A d \in Range(actor'[h].debts) :
                d \in Range(actor[h].debts) \/ (m.type = "LUA" /\ d = <<m.source, m.session>>)
           /\ \A d \in Range(actor[h].debts) : d \in Range(actor'[h].debts)
           /\ m.type = "LUA" => <<m.source, m.session>> \in Range(actor'[h].debts)
           /\ Flow /\ Grown(Popped(h), box')
           /\ m.type # "LUA" /\ NeedsAnswer(m) /\ Accepting(m.source) =>
                HasError(box'[m.source], m.session)
           /\ logger_handle' \in 0 .. MaxHandle
  BY RequestIs
<1>2. Fine(m)
  BY <1>1, PoppedIs
<1>3. m.type = "LUA" => FineDebt(<<m.source, m.session>>)
  BY <1>2 DEF Fine, FineDebt, NeedsAnswer
<1>4. \A d \in Range(actor'[h].debts) : d \in Range(actor[h].debts) \/ FineDebt(d)
  BY <1>1, <1>3
<1>5. Globals'
  BY <1>1 DEF DispatchRequest, Globals, Shape
<1> QED
  BY <1>1, <1>4, <1>5, LengthType, ShapePays

\* What the dispatch of a response changes.
LEMMA ResponseIs ==
  ASSUME Shape, NEW h \in Handles, DispatchResponse(h)
  PROVE  \E m \in Messages :
           /\ m = Head(box[h]) /\ CanDispatch(h) /\ m.type = "RESPONSE"
           /\ heap' = (IF m.session \in actor[h].waits THEN unpacktrash(heap, <<m>>, "RESPONSE")
                       ELSE Dropped(heap, <<m>>, "session"))
           /\ heap' \in Heaps /\ Len(heap') = Len(heap)
           /\ actor' = [actor EXCEPT ![h].waits = @ \ {m.session}]
           /\ Flow /\ Grown(Popped(h), box')
           /\ logger_handle' \in 0 .. MaxHandle
<1>1. CanDispatch(h)
  BY DEF DispatchResponse
<1>2. PICK m \in Messages : m = Head(box[h])
  BY <1>1, PoppedIs
<1>3. PICK n \in Nat : n = IF m.session \in actor[h].waits THEN 0 ELSE 1
  OBVIOUS
<1>4. /\ m.type = "RESPONSE"
      /\ heap' = (IF m.session \in actor[h].waits THEN unpacktrash(heap, <<m>>, "RESPONSE")
                       ELSE Dropped(heap, <<m>>, "session"))
      /\ actor' = [actor EXCEPT ![h].waits = @ \ {m.session}]
      /\ box' = Reported(Popped(h), h, n) /\ Report(n)
  BY <1>2, <1>3, Zenon DEF DispatchResponse
<1>5. Shrunk(Popped(h)) /\ h \in 0 .. MaxHandle
  BY <1>1, PoppedIs, Numbers
<1>6. Flow /\ Grown(Popped(h), box') /\ logger_handle' \in 0 .. MaxHandle
  BY <1>4, <1>5, ReportedFlow
<1>7. heap' \in Heaps /\ Len(heap') = Len(heap)
  <2>1. CASE m.session \in actor[h].waits
    <3>1. PICK q \in Seq(Messages) : q = <<m>> /\ Range(q) = {m}
      BY OneMessage
    <3>2. heap' = unpacktrash(heap, q, "RESPONSE")
      BY <1>4, <2>1, <3>1, Zenon
    <3>3. \A x \in Range(q) : x.type # "RESPONSE" => x.data = 0
      BY <1>4, <3>1
    <3> QED
      BY <3>2, <3>3, LengthType, ManyTrashed
  <2>2. CASE m.session \notin actor[h].waits
    <3>1. heap' = Dropped(heap, <<m>>, "session")
      BY <1>4, <2>2, Zenon
    <3> QED
      BY <3>1, LengthType, DroppedOne
  <2> QED
    BY <2>1, <2>2
<1> QED
  BY <1>1, <1>2, <1>4, <1>6, <1>7, Zenon

\* The end of a wait changes nothing else of the actor.
LEMMA WaitEnds ==
  ASSUME Shape, NEW h \in Handles, NEW s, actor' = [actor EXCEPT ![h].waits = @ \ {s}]
  PROVE  /\ actor' \in [Handles -> Actors] /\ Kept(h)
         /\ actor'[h].kind = actor[h].kind /\ actor'[h].state = actor[h].state
         /\ actor'[h].callback = actor[h].callback /\ actor'[h].pending = actor[h].pending
         /\ actor'[h].sessions = actor[h].sessions /\ actor'[h].debts = actor[h].debts
         /\ actor'[h].waits = actor[h].waits \ {s}
<1>1. actor[h] \in Actors /\ actor \in [Handles -> Actors]
  BY DEF Shape
<1>2. PICK w \in SUBSET (1 .. MaxOps) : w = actor[h].waits \ {s}
  BY <1>1, ActorTypes
<1>3. PICK a : a = [actor[h] EXCEPT !.waits = w]
  OBVIOUS
<1>4. /\ a \in Actors /\ a.kind = actor[h].kind /\ a.state = actor[h].state
      /\ a.callback = actor[h].callback /\ a.pending = actor[h].pending
      /\ a.sessions = actor[h].sessions /\ a.debts = actor[h].debts /\ a.waits = w
  BY <1>1, <1>3 DEF Actors
<1>5. actor' = [actor EXCEPT ![h] = a]
  BY <1>1, <1>2, <1>3
<1>6. actor' \in [Handles -> Actors] /\ Kept(h) /\ actor'[h] = a
  BY <1>1, <1>4, <1>5, ActorSet
<1> QED
  BY <1>2, <1>4, <1>6

\* A step that ends a wait keeps the shape.
LEMMA ShapeWaitEnds ==
  ASSUME Shape, Globals', Len(heap') >= Len(heap), Flow, NEW h \in Handles, NEW s,
         actor[h].state \notin {"none", "dead"},
         actor' = [actor EXCEPT ![h].waits = @ \ {s}]
  PROVE  Shape'
<1>1. /\ actor' \in [Handles -> Actors] /\ Kept(h)
      /\ actor'[h].kind = actor[h].kind /\ actor'[h].state = actor[h].state
      /\ actor'[h].callback = actor[h].callback /\ actor'[h].pending = actor[h].pending
      /\ actor'[h].sessions = actor[h].sessions /\ actor'[h].debts = actor[h].debts
      /\ actor'[h].waits = actor[h].waits \ {s}
  BY WaitEnds
<1>2. ActorFine(h) /\ actor[h].sessions \in Nat /\ Len(heap) \in Nat /\ Len(heap') \in Nat
  BY ActorTypes DEF Shape, Globals, Heaps
<1>3. Local(actor'[h])
  BY <1>1, <1>2 DEF ActorFine, Local
<1>4. Older
  BY <1>1 DEF Older, Young, Kept
<1>5. actor'[h].sessions <= Len(heap')
  BY <1>1, <1>2 DEF ActorFine
<1> QED
  BY <1>1, <1>3, <1>4, <1>5, ShapeStep

\* A response keeps the shape.
LEMMA ShapeDispatchResponse ==
  ASSUME Shape, NEW h \in Handles, DispatchResponse(h)
  PROVE  Shape'
<1>1. PICK m \in Messages :
           /\ CanDispatch(h)
           /\ heap' \in Heaps /\ Len(heap') = Len(heap)
           /\ actor' = [actor EXCEPT ![h].waits = @ \ {m.session}]
           /\ Flow
           /\ logger_handle' \in 0 .. MaxHandle
  BY ResponseIs, Zenon
<1>2. Globals'
  BY <1>1 DEF DispatchResponse, Globals, Shape
<1>3. actor[h].state \notin {"none", "dead"}
  BY <1>1 DEF CanDispatch
<1>4. PICK s : s = m.session
  OBVIOUS
<1>5. actor' = [actor EXCEPT ![h].waits = @ \ {s}]
  BY <1>1, <1>4
<1>6. Len(heap') >= Len(heap)
  BY <1>1, LengthType
<1> QED
  BY <1>1, <1>2, <1>3, <1>5, <1>6, ShapeWaitEnds

\* An error answer keeps the shape.
LEMMA ShapeDispatchError ==
  ASSUME Shape, NEW h \in Handles, DispatchError(h)
  PROVE  Shape'
<1>1. /\ CanDispatch(h) /\ box' = Popped(h)
      /\ actor' = [actor EXCEPT ![h].waits = @ \ {Head(box[h]).session}]
  BY DEF DispatchError
<1>2. Globals'
  BY DEF DispatchError, Globals, Shape
<1>3. actor[h].state \notin {"none", "dead"}
  BY <1>1 DEF CanDispatch
<1>4. Popped(h) \in Boxes /\ Shrunk(Popped(h))
  BY <1>1, PoppedIs
<1>5. Flow
  BY <1>1, <1>4 DEF Flow, Shrunk
<1>6. PICK s : s = Head(box[h]).session
  OBVIOUS
<1>7. actor' = [actor EXCEPT ![h].waits = @ \ {s}]
  BY <1>1, <1>6
<1>8. Len(heap') >= Len(heap)
  BY LengthType DEF DispatchError
<1> QED
  BY <1>2, <1>3, <1>5, <1>7, <1>8, ShapeWaitEnds

\* What the end of skynet.start's function changes.
LEMMA StartIs ==
  ASSUME Shape, NEW h \in Handles, Start(h)
  PROVE  /\ actor' \in [Handles -> Actors] /\ Kept(h)
         /\ actor'[h].kind = actor[h].kind /\ actor'[h].state = actor[h].state
         /\ actor'[h].callback = actor[h].callback /\ actor'[h].waits = actor[h].waits
         /\ actor'[h].sessions = actor[h].sessions /\ actor'[h].pending = <<>>
         /\ \A d \in Range(actor'[h].debts) :
              d \in Range(actor[h].debts)
                \/ \E m \in Range(actor[h].pending) : m.type = "LUA" /\ d = <<m.source, m.session>>
         /\ \A d \in Range(actor[h].debts) : d \in Range(actor'[h].debts)
         /\ \A m \in Range(actor[h].pending) : m.type = "LUA" => <<m.source, m.session>> \in Range(actor'[h].debts)
         /\ Flow /\ Grown(box, box')
         /\ \A m \in Range(actor[h].pending) : m.type # "LUA" /\ NeedsAnswer(m) /\ Accepting(m.source) =>
              HasError(box'[m.source], m.session)
         /\ logger_handle' \in 0 .. MaxHandle
         /\ heap' \in Heaps /\ Len(heap') = Len(heap)
         /\ \A b \in 1 .. Len(heap) :
              /\ heap'[b].frees = heap[b].frees + Count(actor[h].pending, b)
              /\ heap'[b].dropped = heap[b].dropped
              /\ heap'[b].args = heap[b].args
              /\ heap'[b].got = IF Count(actor[h].pending, b) > 0 THEN Contents(heap[b]) ELSE heap[b].got
<1>1. actor[h] \in Actors /\ ActorFine(h)
  BY DEF Shape
<1>2. PICK p \in Seq(Messages) : p = actor[h].pending
  BY <1>1, ActorTypes
<1>3. PICK self : self = [actor[h] EXCEPT !.start = "ok", !.early = FALSE, !.pending = <<>>]
  OBVIOUS
<1>4. PICK e \in Seq(Messages) : e = <<>>
  <2>1. <<>> \in Seq(Messages)
    OBVIOUS
  <2> QED
    BY <2>1, Zenon
<1>5. /\ self \in Actors /\ self.kind = actor[h].kind /\ self.state = actor[h].state
      /\ self.callback = actor[h].callback /\ self.waits = actor[h].waits
      /\ self.sessions = actor[h].sessions /\ self.pending = <<>> /\ self.debts = actor[h].debts
  <2>1. self = [actor[h] EXCEPT !.start = "ok", !.early = FALSE, !.pending = e]
    BY <1>3, <1>4
  <2> QED
    BY <1>1, <1>4, <2>1 DEF Actors
<1>c. self \in Actors /\ self.debts = actor[h].debts
  BY <1>5, Zenon
<1>a. PICK hp \in Heaps : hp = heap
  BY LengthType
<1>b. PICK bx : bx = box
  OBVIOUS
<1>6. Handle(h, bx, hp, p, self)
  BY <1>2, <1>3, <1>a, <1>b, Zenon DEF Start
<1>7. /\ actor' \in [Handles -> Actors] /\ Kept(h) /\ Alike(actor'[h], self)
      /\ \A d \in Range(actor'[h].debts) :
           d \in Range(self.debts) \/ \E m \in Range(p) : m.type = "LUA" /\ d = <<m.source, m.session>>
      /\ \A d \in Range(self.debts) : d \in Range(actor'[h].debts)
      /\ \A m \in Range(p) : m.type = "LUA" => <<m.source, m.session>> \in Range(actor'[h].debts)
      /\ Flow /\ Grown(bx, box')
      /\ \A m \in Range(p) : m.type # "LUA" /\ NeedsAnswer(m) /\ Accepting(m.source) =>
           HasError(box'[m.source], m.session)
      /\ logger_handle' \in 0 .. MaxHandle
  <2>1. Shrunk(bx)
    BY <1>b, ShrunkSame
  <2> QED
    BY <1>c, <1>6, <2>1, HandleIs
<1>8. heap' = unpacktrash(hp, p, "LUA")
  BY <1>6, Zenon DEF Handle
<1>9. \A m \in Range(p) : m.type # "LUA" => m.data = 0
  BY <1>1, <1>2 DEF ActorFine, Local
<1>10. /\ heap' \in Heaps /\ Len(heap') = Len(hp)
       /\ \A b \in 1 .. Len(hp) :
              /\ heap'[b].frees = hp[b].frees + Count(p, b)
              /\ heap'[b].dropped = hp[b].dropped
              /\ heap'[b].args = hp[b].args
              /\ heap'[b].got = IF Count(p, b) > 0 THEN Contents(hp[b]) ELSE hp[b].got
  BY <1>8, <1>9, ManyTrashed
<1>11. /\ actor'[h].kind = actor[h].kind /\ actor'[h].state = actor[h].state
       /\ actor'[h].callback = actor[h].callback /\ actor'[h].waits = actor[h].waits
       /\ actor'[h].sessions = actor[h].sessions /\ actor'[h].pending = <<>>
  BY <1>5, <1>7 DEF Alike
<1>12. /\ \A d \in Range(actor'[h].debts) :
              d \in Range(actor[h].debts)
                \/ \E m \in Range(actor[h].pending) : m.type = "LUA" /\ d = <<m.source, m.session>>
       /\ \A d \in Range(actor[h].debts) : d \in Range(actor'[h].debts)
       /\ \A m \in Range(actor[h].pending) : m.type = "LUA" => <<m.source, m.session>> \in Range(actor'[h].debts)
  BY <1>2, <1>c, <1>7
<1>13. /\ heap' \in Heaps /\ Len(heap') = Len(heap)
       /\ \A b \in 1 .. Len(heap) :
              /\ heap'[b].frees = heap[b].frees + Count(actor[h].pending, b)
              /\ heap'[b].dropped = heap[b].dropped
              /\ heap'[b].args = heap[b].args
              /\ heap'[b].got = IF Count(actor[h].pending, b) > 0 THEN Contents(heap[b]) ELSE heap[b].got
  BY <1>2, <1>10, <1>a
<1>14. /\ Flow /\ Grown(box, box')
       /\ \A m \in Range(actor[h].pending) : m.type # "LUA" /\ NeedsAnswer(m) /\ Accepting(m.source) =>
              HasError(box'[m.source], m.session)
       /\ logger_handle' \in 0 .. MaxHandle
  <2>1. Grown(box, box')
    BY <1>7, <1>b
  <2>2. \A m \in Range(actor[h].pending) : m.type # "LUA" /\ NeedsAnswer(m) /\ Accepting(m.source) =>
              HasError(box'[m.source], m.session)
    BY <1>2, <1>7
  <2> QED
    BY <1>7, <2>1, <2>2
<1> QED
  BY <1>7, <1>11, <1>12, <1>13, <1>14

\* What the failure of skynet.start's function changes.
LEMMA StartFailsIs ==
  ASSUME Shape, NEW h \in Handles, StartFails(h)
  PROVE  /\ actor' \in [Handles -> Actors] /\ Kept(h)
         /\ actor'[h].kind = actor[h].kind /\ actor'[h].state = actor[h].state
         /\ actor'[h].callback = actor[h].callback /\ actor'[h].waits = actor[h].waits
         /\ actor'[h].sessions = actor[h].sessions /\ actor'[h].pending = <<>>
         /\ actor'[h].debts = actor[h].debts
         /\ Flow /\ Grown(box, box')
         /\ logger_handle' \in 0 .. MaxHandle
         /\ abandoned' = abandoned \cup Requests(actor[h].pending)
         /\ abandoned' \subseteq (0 .. MaxHandle) \X (0 .. MaxOps)
         /\ heap' \in Heaps /\ Len(heap') = Len(heap)
         /\ \A b \in 1 .. Len(heap) :
              /\ heap'[b].frees = heap[b].frees + Count(actor[h].pending, b)
              /\ heap'[b].dropped = heap[b].dropped
              /\ heap'[b].args = heap[b].args
              /\ heap'[b].got = heap[b].got
<1>1. actor[h] \in Actors /\ actor \in [Handles -> Actors]
  BY DEF Shape
<1>2. PICK p \in Seq(Messages) : p = actor[h].pending
  BY <1>1, ActorTypes
<1>3. PICK e \in Seq(Messages) : e = <<>>
  <2>1. <<>> \in Seq(Messages)
    OBVIOUS
  <2> QED
    BY <2>1, Zenon
<1>4. PICK a : a = [actor[h] EXCEPT !.start = "failed", !.pending = e]
  OBVIOUS
<1>5. /\ a \in Actors /\ a.kind = actor[h].kind /\ a.state = actor[h].state
      /\ a.callback = actor[h].callback /\ a.waits = actor[h].waits
      /\ a.sessions = actor[h].sessions /\ a.pending = <<>> /\ a.debts = actor[h].debts
  BY <1>1, <1>3, <1>4 DEF Actors
<1>6. actor' = [actor EXCEPT ![h].start = "failed", ![h].pending = e]
  BY <1>3 DEF StartFails
<1>7. actor' = [actor EXCEPT ![h] = a]
  BY <1>1, <1>4, <1>6
<1>8. actor' \in [Handles -> Actors] /\ Kept(h) /\ actor'[h] = a
  BY <1>1, <1>5, <1>7, ActorSet
<1>9. Flow /\ Grown(box, box') /\ logger_handle' \in 0 .. MaxHandle
  BY ShrunkSame, ReportedFlow, Numbers DEF StartFails
<1>10. abandoned' = abandoned \cup Requests(p) /\ heap' = Freed(heap, p)
  BY <1>2 DEF StartFails
<1>11. abandoned' \subseteq (0 .. MaxHandle) \X (0 .. MaxOps)
  BY <1>10, RequestsType DEF Shape, Globals
<1>12. /\ heap' \in Heaps /\ Len(heap') = Len(heap)
       /\ \A b \in 1 .. Len(heap) :
              /\ heap'[b].frees = heap[b].frees + Count(p, b)
              /\ heap'[b].dropped = heap[b].dropped
              /\ heap'[b].args = heap[b].args
              /\ heap'[b].got = heap[b].got
  BY <1>10, LengthType, FreedIs
<1> QED
  BY <1>2, <1>5, <1>8, <1>9, <1>10, <1>11, <1>12

\* The end of skynet.start's function keeps the shape.
LEMMA ShapeStarts ==
  ASSUME Shape, NEW h \in Handles, Start(h) \/ StartFails(h)
  PROVE  Shape'
<1>1. /\ actor' \in [Handles -> Actors] /\ Kept(h)
      /\ actor'[h].kind = actor[h].kind /\ actor'[h].state = actor[h].state
      /\ actor'[h].callback = actor[h].callback /\ actor'[h].waits = actor[h].waits
      /\ actor'[h].sessions = actor[h].sessions /\ actor'[h].pending = <<>>
      /\ Flow
      /\ logger_handle' \in 0 .. MaxHandle
      /\ heap' \in Heaps /\ Len(heap') = Len(heap)
  <2>1. CASE Start(h)
    BY <2>1, StartIs
  <2>2. CASE StartFails(h)
    BY <2>2, StartFailsIs
  <2> QED
    BY <2>1, <2>2
<1>2. ActorFine(h) /\ actor[h] \in Actors /\ Len(heap) \in Nat
  BY LengthType DEF Shape
<1>3. \A d \in Range(actor'[h].debts) : d \in Range(actor[h].debts) \/ FineDebt(d)
  <2>1. CASE Start(h)
    <3> SUFFICES ASSUME NEW d \in Range(actor'[h].debts), d \notin Range(actor[h].debts) PROVE FineDebt(d)
      OBVIOUS
    <3>1. PICK m \in Range(actor[h].pending) : m.type = "LUA" /\ d = <<m.source, m.session>>
      BY <2>1, StartIs
    <3>2. Fine(m)
      BY <1>2 DEF ActorFine
    <3> QED
      BY <3>1, <3>2 DEF Fine, FineDebt, NeedsAnswer
  <2>2. CASE StartFails(h)
    BY <2>2, StartFailsIs
  <2> QED
    BY <2>1, <2>2
<1>4. Globals'
  <2>1. CASE Start(h)
    BY <1>1, <2>1 DEF Start, Globals, Shape
  <2>2. CASE StartFails(h)
    <3>1. abandoned' \subseteq (0 .. MaxHandle) \X (0 .. MaxOps)
      BY <2>2, StartFailsIs
    <3> QED
      BY <1>1, <2>2, <3>1, SpendIs DEF StartFails, Globals, Shape
  <2> QED
    BY <2>1, <2>2
<1>5. Range(actor'[h].pending) = {}
  BY <1>1, RangeEmpty
<1>6. Local(actor'[h])
  BY <1>1, <1>2, <1>5 DEF ActorFine, Local
<1>7. Older
  BY <1>1, <1>2 DEF Older, Young, Kept
<1>8. actor'[h].sessions <= Len(heap')
  BY <1>1, <1>2 DEF ActorFine
<1>9. actor'[h].state \in {"none", "dead"} => box'[h] = <<>>
  BY <1>1 DEF Flow, Shape, BoxFine
<1> QED
  BY <1>1, <1>3, <1>4, <1>5, <1>6, <1>7, <1>8, <1>9, ShapeStep

\* A step that changes nothing keeps the shape.
LEMMA ShapeStutters ==
  ASSUME Shape, UNCHANGED vars
  PROVE  Shape'
<1>1. Flow
  BY FlowSame DEF vars
<1>2. Globals'
  BY DEF Globals, Shape, vars
<1> QED
  BY <1>1, <1>2, LengthType, ShapeMail DEF vars

\* Every step keeps the shape.
LEMMA ShapeNext ==
  ASSUME Shape, [Next]_vars
  PROVE  Shape'
<1>1. CASE UNCHANGED vars
  BY <1>1, ShapeStutters
<1>2. ASSUME NEW h \in 0 .. MaxHandle, Error(h) \/ ErrorLoad(h) \/ ErrorFind(h) \/ ErrorStore(h)
      PROVE  Shape'
  BY <1>2, ShapeError
<1>3. ASSUME NEW h \in Handles,
             \/ Send(h) \/ Call(h) \/ PackRaises(h) \/ Redirect(h)
             \/ Ret(h) \/ RespondError(h) \/ Forget(h) \/ Register(h)
      PROVE  Shape'
  BY <1>3, ShapeSend, ShapeCall, ShapePackRaises, ShapeRedirect, ShapeRet, ShapeRespondError,
     ShapeForget, ShapeRegister
<1>4. ASSUME NEW h \in Handles,
             \/ Spawn(h) \/ InitDone(h) \/ InitFails(h) \/ SpawnFails(h)
             \/ Kill(h) \/ KillResets(h) \/ Destroy(h)
      PROVE  Shape'
  BY <1>4, ShapeSpawn, ShapeInit, ShapeDestroys
<1>5. ASSUME NEW h \in Handles,
             \/ DispatchLogger(h) \/ DispatchNoCallback(h) \/ DispatchEarly(h)
             \/ DispatchRequest(h) \/ DispatchResponse(h) \/ DispatchError(h)
             \/ Start(h) \/ StartFails(h)
      PROVE  Shape'
  BY <1>5, ShapeDispatchLogger, ShapeDispatchNoCallback, ShapeDispatchEarly, ShapeDispatchRequest,
     ShapeDispatchResponse, ShapeDispatchError, ShapeStarts
<1> QED
  BY <1>1, <1>2, <1>3, <1>4, <1>5 DEF Next

\* The state after bootstrap() has the shape.
LEMMA ShapeInitially ==
  ASSUME Init
  PROVE  Shape
<1>1. heap \in Heaps /\ Len(heap) = 0
  BY DEF Init, Heaps
<1>2. NoCall \in ErrorCalls
  BY Numbers DEF NoCall, ErrorCalls
<1>3. errcall \in [0 .. MaxHandle -> ErrorCalls]
  BY <1>2 DEF Init
<1>4. Globals
  BY <1>1, <1>3, Numbers, MessagingAssumption, SMTT(30) DEF Init, Globals, Handles
<1>5. /\ NewActor("logger", "live") \in Actors /\ NewActor("lua", "none") \in Actors
      /\ NewActor("lua", "live") \in Actors
  BY NewActorType
<1>6. ASSUME NEW h \in Handles
      PROVE  /\ actor[h] \in Actors /\ actor[h].pending = <<>> /\ actor[h].debts = <<>>
             /\ actor[h].waits = {} /\ actor[h].sessions = 0
  <2>1. CASE h = 1
    BY <1>5, <2>1 DEF Init, NewActor
  <2>2. CASE h = 2
    <3>1. PICK a : a = NewActor("lua", "live")
      OBVIOUS
    <3>2. a \in Actors /\ a.pending = <<>> /\ a.debts = <<>> /\ a.waits = {} /\ a.sessions = 0
      BY <1>5, <3>1 DEF NewActor
    <3>3. PICK c : c = [a EXCEPT !.callback = TRUE]
      OBVIOUS
    <3>4. c \in Actors /\ c.pending = <<>> /\ c.debts = <<>> /\ c.waits = {} /\ c.sessions = 0
      BY <3>2, <3>3 DEF Actors
    <3>5. actor[h] = c
      BY <2>2, <3>1, <3>3 DEF Init
    <3> QED
      BY <3>4, <3>5
  <2>3. CASE h # 1 /\ h # 2
    BY <1>5, <2>3 DEF Init, NewActor
  <2> QED
    BY <2>1, <2>2, <2>3
<1>7. actor \in [Handles -> Actors]
  BY <1>6 DEF Init
<1>8. box \in Boxes /\ \A h \in Handles : box[h] = <<>>
  BY DEF Init, Boxes
<1>9. ASSUME NEW h \in Handles PROVE ActorFine(h) /\ BoxFine(h)
  <2>1. Range(actor[h].pending) = {} /\ Range(actor[h].debts) = {} /\ Range(box[h]) = {}
    BY <1>6, <1>8, RangeEmpty
  <2> QED
    BY <1>1, <1>6, <1>8, <2>1 DEF ActorFine, BoxFine, Local
<1> QED
  BY <1>4, <1>7, <1>8, <1>9 DEF Shape

\* The shape is an invariant.
LEMMA ShapeHolds == Spec => []Shape
<1>1. Init => Shape
  BY ShapeInitially
<1>2. Shape /\ [Next]_vars => Shape'
  BY ShapeNext
<1> QED
  BY <1>1, <1>2, PTL DEF Spec

\* The state has its shape: every message in a mailbox or in pending_messages names a
\* buffer that luaseri_pack made, sessions that are waited for were taken by lgenid, and the
\* mailbox of an actor that drain_queue has emptied stays empty.
THEOREM MessagesTypeCorrect == Spec => []TypeOK
<1>1. Shape => TypeOK
  BY ShapeTypes
<1> QED
  BY <1>1, ShapeHolds, PTL

-------------------------------------------------------------------------------
(* The owner of a buffer.                                                  *)

\* How many messages of h carry buffer b.
Load(h, b) == Count(box[h], b) + Count(actor[h].pending, b)

\* One message of one actor carries the buffer, or none does and it was freed or dropped;
\* what unpacking it gave is what was packed, when that can be had at all.
Owned(b) ==
  /\ \/ /\ heap[b].frees = 0 /\ heap[b].dropped = "no"
        /\ \E h \in Handles : Load(h, b) = 1 /\ \A k \in Handles \ {h} : Load(k, b) = 0
     \/ /\ \A h \in Handles : Load(h, b) = 0
        /\ \/ heap[b].frees = 1 /\ heap[b].dropped = "no"
           \/ heap[b].frees = 0 /\ heap[b].dropped # "no"
  /\ heap[b].got \in {"nothing", "packed"} \/ heap[b].args \notin Intact

AllOwned == \A b \in 1 .. Len(heap) : Owned(b)

\* Loads are numbers.
LEMMA LoadType ==
  ASSUME Shape, NEW h \in Handles, NEW b
  PROVE  /\ Load(h, b) \in Nat /\ Count(box[h], b) \in Nat /\ Count(actor[h].pending, b) \in Nat
         /\ Load(h, b) = Count(box[h], b) + Count(actor[h].pending, b)
<1>1. PICK q \in Seq(Messages), p \in Seq(Messages) : q = box[h] /\ p = actor[h].pending
  BY ActorTypes DEF Shape, Boxes
<1>2. Count(q, b) \in Nat /\ Count(p, b) \in Nat
  BY CarryingFinite
<1> QED
  BY <1>1, <1>2 DEF Load

\* An entry of the heap is a buffer.
LEMMA HeapEntry ==
  ASSUME Shape, NEW b \in 1 .. Len(heap)
  PROVE  heap[b] \in Buffers /\ heap[b].frees \in Nat /\ b \in Nat \ {0}
<1>1. heap[b] \in Buffers
  BY DEF Shape, Globals, Heaps
<1> QED
  BY <1>1, LengthType DEF Buffers

\* n1 of the messages of h that carry the buffer have it freed, and n2 have it dropped.
LEMMA OwnMoves ==
  ASSUME Shape, Shape', AllOwned, NEW b \in 1 .. Len(heap), NEW h \in Handles,
         NEW n1 \in Nat, NEW n2 \in Nat,
         Load(h, b) = Load(h, b)' + n1 + n2,
         \A k \in Handles \ {h} : Load(k, b)' = Load(k, b),
         heap'[b].frees = heap[b].frees + n1,
         n2 = 0 => heap'[b].dropped = heap[b].dropped,
         n2 # 0 => heap'[b].dropped # "no",
         heap'[b].args = heap[b].args,
         \/ heap'[b].got = heap[b].got
         \/ n1 # 0 /\ heap'[b].got = Contents(heap[b])
  PROVE  Owned(b)'
<1>1. Owned(b)
  BY DEF AllOwned
<1>2. \A k \in Handles : Load(k, b) \in Nat
  BY LoadType
<1>3. \A k \in Handles : Load(k, b)' \in Nat
  <2>1. ASSUME NEW k \in Handles PROVE Load(k, b)' \in Nat
    <3>1. PICK q \in Seq(Messages), p \in Seq(Messages) : q = box'[k] /\ p = actor'[k].pending
      BY ActorTypes DEF Shape, Boxes
    <3>2. Count(q, b) \in Nat /\ Count(p, b) \in Nat
      BY CarryingFinite
    <3> QED
      BY <3>1, <3>2 DEF Load
  <2> QED
    BY <2>1
<1>4. PICK f \in [Handles -> Nat], g \in [Handles -> Nat] :
        \A k \in Handles : f[k] = Load(k, b) /\ g[k] = Load(k, b)'
  <2>1. [k \in Handles |-> Load(k, b)] \in [Handles -> Nat]
    BY <1>2
  <2>2. [k \in Handles |-> Load(k, b)'] \in [Handles -> Nat]
    BY <1>3
  <2> QED
    BY <2>1, <2>2
<1>5. f[h] = g[h] + n1 + n2 /\ \A k \in Handles \ {h} : g[k] = f[k]
  BY <1>4
<1>6. heap[b].frees \in Nat
  BY HeapEntry
<1>7. /\ \/ /\ heap'[b].frees = 0 /\ heap'[b].dropped = "no"
            /\ \E x \in Handles : g[x] = 1 /\ \A k \in Handles \ {x} : g[k] = 0
         \/ /\ \A x \in Handles : g[x] = 0
            /\ \/ heap'[b].frees = 1 /\ heap'[b].dropped = "no"
               \/ heap'[b].frees = 0 /\ heap'[b].dropped # "no"
  <2>1. CASE heap[b].frees = 0 /\ heap[b].dropped = "no"
             /\ \E x \in Handles : f[x] = 1 /\ \A k \in Handles \ {x} : f[k] = 0
    <3>1. PICK x \in Handles : f[x] = 1 /\ \A k \in Handles \ {x} : f[k] = 0
      BY <2>1
    <3>2. CASE n1 = 0 /\ n2 = 0
      <4>1. \A k \in Handles : g[k] = f[k]
        BY <1>5, <3>2
      <4> QED
        BY <2>1, <3>1, <3>2, <4>1
    <3>3. CASE n1 + n2 > 0
      <4>1. x = h
        BY <1>5, <3>1, <3>3
      <4>2. n1 + n2 = 1 /\ g[h] = 0
        BY <1>5, <3>1, <3>3, <4>1
      <4>3. \A k \in Handles : g[k] = 0
        BY <1>5, <3>1, <4>1, <4>2
      <4>4. (n1 = 1 /\ n2 = 0) \/ (n1 = 0 /\ n2 = 1)
        BY <4>2
      <4> QED
        BY <2>1, <4>3, <4>4
    <3> QED
      BY <3>2, <3>3
  <2>2. CASE /\ \A x \in Handles : f[x] = 0
             /\ \/ heap[b].frees = 1 /\ heap[b].dropped = "no"
                \/ heap[b].frees = 0 /\ heap[b].dropped # "no"
    <3>1. n1 = 0 /\ n2 = 0 /\ g[h] = 0
      BY <1>5, <2>2
    <3>2. \A k \in Handles : g[k] = 0
      BY <1>5, <2>2, <3>1
    <3> QED
      BY <1>6, <2>2, <3>1, <3>2
  <2> QED
    BY <1>1, <1>4, <2>1, <2>2 DEF Owned
<1>8. heap'[b].got \in {"nothing", "packed"} \/ heap'[b].args \notin Intact
  <2>1. n1 # 0 => heap[b].frees = 0
    <3>1. n1 # 0 => f[h] # 0
      BY <1>5
    <3>2. f[h] # 0 => heap[b].frees = 0
      BY <1>1, <1>4 DEF Owned
    <3> QED
      BY <3>1, <3>2
  <2>2. n1 # 0 /\ heap[b].args \in Intact => Contents(heap[b]) = "packed"
    BY <2>1 DEF Contents
  <2>3. heap[b].got \in {"nothing", "packed"} \/ heap[b].args \notin Intact
    BY <1>1 DEF Owned
  <2> QED
    BY <2>2, <2>3
<1>9. Owned(b)' <=>
        /\ \/ /\ heap'[b].frees = 0 /\ heap'[b].dropped = "no"
              /\ \E x \in Handles : Load(x, b)' = 1 /\ \A k \in Handles \ {x} : Load(k, b)' = 0
           \/ /\ \A x \in Handles : Load(x, b)' = 0
              /\ \/ heap'[b].frees = 1 /\ heap'[b].dropped = "no"
                 \/ heap'[b].frees = 0 /\ heap'[b].dropped # "no"
        /\ heap'[b].got \in {"nothing", "packed"} \/ heap'[b].args \notin Intact
  BY Zenon DEF Owned
<1> QED
  BY <1>4, <1>7, <1>8, <1>9

\* Nothing happens to the buffers.
LEMMA OwnRests ==
  ASSUME Shape, Shape', AllOwned, heap' = heap,
         \A k \in Handles : actor'[k].pending = actor[k].pending,
         \A k \in Handles, b \in Nat \ {0} : Count(box'[k], b) = Count(box[k], b)
  PROVE  AllOwned'
<1>1. ASSUME NEW b \in 1 .. Len(heap) PROVE Owned(b)'
  <2>1. 1 \in Handles
    BY Numbers
  <2>2. b \in Nat \ {0} /\ heap[b].frees \in Nat
    BY HeapEntry
  <2>3. \A k \in Handles : Load(k, b)' = Load(k, b) /\ Load(k, b) \in Nat
    BY <2>2, LoadType DEF Load
  <2>4. PICK z \in Nat : z = 0
    OBVIOUS
  <2>5. Load(1, b) = Load(1, b)' + z + z /\ heap'[b].frees = heap[b].frees + z
    BY <2>1, <2>2, <2>3, <2>4
  <2> QED
    BY <2>1, <2>3, <2>4, <2>5, OwnMoves
<1> QED
  BY <1>1 DEF AllOwned

\* Notes change no load.
LEMMA OwnGrown ==
  ASSUME Shape, Shape', AllOwned, heap' = heap, Grown(box, box'),
         \A k \in Handles : actor'[k].pending = actor[k].pending
  PROVE  AllOwned'
BY OwnRests DEF Grown

\* No message carries a buffer that is not packed.
LEMMA CountNone ==
  ASSUME NEW q \in Seq(Messages), NEW b, \A m \in Range(q) : m.data # b
  PROVE  Count(q, b) = 0
<1>1. \A k \in 1 .. Len(q) : q[k].data # b
  BY RangeIs
<1>2. Carrying(q, b) = {}
  BY <1>1 DEF Carrying
<1> QED
  BY <1>2, CarryingFinite

\* Nobody carries a buffer that is not packed yet.
LEMMA NewIsFree ==
  ASSUME Shape, NEW h \in Handles
  PROVE  Count(box[h], Len(heap) + 1) = 0 /\ Count(actor[h].pending, Len(heap) + 1) = 0
<1>1. PICK q \in Seq(Messages), p \in Seq(Messages) : q = box[h] /\ p = actor[h].pending
  BY ActorTypes DEF Shape, Boxes
<1>2. /\ \A m \in Range(q) : m.data \in 0 .. Len(heap)
      /\ \A m \in Range(p) : m.data \in 0 .. Len(heap)
  BY <1>1 DEF Shape, ActorFine, BoxFine, Fine
<1>3. PICK b \in Nat : b = Len(heap) + 1 /\ \A d \in 0 .. Len(heap) : d # b
  BY LengthType
<1>4. (\A m \in Range(q) : m.data # b) /\ (\A m \in Range(p) : m.data # b)
  BY <1>2, <1>3
<1>5. Count(q, b) = 0 /\ Count(p, b) = 0
  BY <1>4, CountNone
<1> QED
  BY <1>1, <1>3, <1>5

\* The buffers that are there are as they were.
LEMMA OwnStays ==
  ASSUME Shape, Shape', AllOwned, NEW b \in 1 .. Len(heap),
         heap'[b].frees = heap[b].frees, heap'[b].dropped = heap[b].dropped,
         heap'[b].args = heap[b].args, heap'[b].got = heap[b].got,
         \A k \in Handles : actor'[k].pending = actor[k].pending,
         \A k \in Handles : Count(box'[k], b) = Count(box[k], b)
  PROVE  Owned(b)'
<1>1. 1 \in Handles
  BY Numbers
<1>2. heap[b].frees \in Nat
  BY HeapEntry
<1>3. \A k \in Handles : Load(k, b)' = Load(k, b) /\ Load(k, b) \in Nat
  BY LoadType DEF Load
<1>4. PICK z \in Nat : z = 0
  OBVIOUS
<1>5. Load(1, b) = Load(1, b)' + z + z /\ heap'[b].frees = heap[b].frees + z
  BY <1>1, <1>2, <1>3, <1>4
<1> QED
  BY <1>1, <1>3, <1>4, <1>5, OwnMoves

\* A new buffer is pushed with its message, or freed at once.
LEMMA OwnSent ==
  ASSUME Shape, Shape', AllOwned, NEW args \in CanPack, NEW m \in Messages, m.data = Len(heap) + 1,
         \A k \in Handles : actor'[k].pending = actor[k].pending,
         \/ \E dest : push_message(box, Append(heap, Packed(args)), dest, m)
         \/ heap' = Freed(Append(heap, Packed(args)), <<m>>) /\ UNCHANGED box
  PROVE  AllOwned'
<1>1. PICK hp \in Heaps :
        /\ hp = Append(heap, Packed(args)) /\ Len(hp) = Len(heap) + 1
        /\ \A b \in 1 .. Len(heap) : hp[b] = heap[b]
        /\ hp[Len(heap) + 1] = Packed(args)
  BY PackedIs, LengthType, Zenon
<1>2. Len(heap) \in Nat
  BY LengthType
<1>3. PICK n \in Nat : n = Len(heap) + 1 /\ Len(hp) = n /\ m.data = n /\ hp[n] = Packed(args) /\ n # 0
  BY <1>1, <1>2
<1>4. hp[n].frees = 0 /\ hp[n].dropped = "no" /\ hp[n].got = "nothing"
  BY <1>3 DEF Packed
<1>5. \A k \in Handles : Count(box[k], n) = 0 /\ Count(actor'[k].pending, n) = 0
  BY <1>3, NewIsFree
<1>6. \A b \in 1 .. Len(heap) : b \in Nat \ {0} /\ b # n /\ b \in 1 .. n
  BY <1>2, <1>3
<1>7. n \in 1 .. n
  BY <1>3
<1>f. ASSUME heap' = Freed(hp, <<m>>)
      PROVE  /\ Len(heap') = n
             /\ heap'[n].frees = 1 /\ heap'[n].dropped = "no" /\ heap'[n].got = "nothing"
             /\ \A b \in 1 .. Len(heap) :
                  /\ heap'[b].frees = heap[b].frees /\ heap'[b].dropped = heap[b].dropped
                  /\ heap'[b].args = heap[b].args /\ heap'[b].got = heap[b].got
  <2>1. PICK q \in Seq(Messages) : q = <<m>>
    BY OneMessage
  <2>2. /\ Len(heap') = n
        /\ \A b \in 1 .. n :
             /\ heap'[b].frees = hp[b].frees + Count(q, b)
             /\ heap'[b].dropped = hp[b].dropped
             /\ heap'[b].got = hp[b].got
             /\ heap'[b].args = hp[b].args
    <3>1. heap' = Freed(hp, q)
      BY <1>f, <2>1
    <3>2. n = Len(hp)
      BY <1>3
    <3> QED
      BY <3>1, <3>2, FreedIs
  <2>3. \A b : Count(q, b) = IF b = n THEN 1 ELSE 0
    BY <1>3, <2>1, CountOne
  <2>4. heap'[n].frees = 1 /\ heap'[n].dropped = "no" /\ heap'[n].got = "nothing"
    BY <1>4, <1>7, <2>2, <2>3
  <2>5. ASSUME NEW b \in 1 .. Len(heap)
        PROVE  /\ heap'[b].frees = heap[b].frees /\ heap'[b].dropped = heap[b].dropped
               /\ heap'[b].args = heap[b].args /\ heap'[b].got = heap[b].got
    <3>1. hp[b] = heap[b] /\ Count(q, b) = 0 /\ heap[b].frees \in Nat /\ b \in 1 .. n
      BY <1>1, <1>6, <2>3, HeapEntry
    <3> QED
      BY <2>2, <3>1
  <2> QED
    BY <2>2, <2>4, <2>5
<1>g. ASSUME heap' = Freed(hp, <<m>>), \A k \in Handles, b \in Nat \ {0} : Count(box'[k], b) = Count(box[k], b)
      PROVE  AllOwned'
  <2>1. ASSUME NEW b \in 1 .. Len(heap) PROVE Owned(b)'
    <3>1. /\ heap'[b].frees = heap[b].frees /\ heap'[b].dropped = heap[b].dropped
          /\ heap'[b].args = heap[b].args /\ heap'[b].got = heap[b].got
      BY <1>f, <1>g
    <3>2. \A k \in Handles : Count(box'[k], b) = Count(box[k], b)
      BY <1>6, <1>g
    <3> QED
      BY <3>1, <3>2, OwnStays
  <2>2. Owned(n)'
    <3>1. \A k \in Handles : Load(k, n)' = 0
      BY <1>3, <1>5, <1>g DEF Load
    <3> QED
      BY <1>f, <1>g, <3>1 DEF Owned
  <2>3. Len(heap') = n
    BY <1>f, <1>g
  <2>4. \A b \in 1 .. n : b = n \/ b \in 1 .. Len(heap)
    BY <1>2, <1>3
  <2> QED
    BY <2>1, <2>2, <2>3, <2>4 DEF AllOwned
<1>8. ASSUME NEW dest, push_message(box, Append(heap, Packed(args)), dest, m)
      PROVE  AllOwned'
  <2>1. push_message(box, hp, dest, m)
    BY <1>1, <1>8, Zenon
  <2>2. PICK bx \in Boxes : bx = box
    BY DEF Shape
  <2>3. push_message(bx, hp, dest, m)
    BY <2>1, <2>2, Zenon
  <2>4. CASE /\ dest \in Handles /\ Accepting(dest) /\ heap' = hp
             /\ box' \in Boxes /\ \A k \in Handles \ {dest} : box'[k] = bx[k]
             /\ \A b : Count(box'[dest], b) = Count(bx[dest], b) + (IF m.data = b THEN 1 ELSE 0)
    <3>1. ASSUME NEW b \in 1 .. Len(heap) PROVE Owned(b)'
      <4>1. m.data # b /\ heap'[b] = heap[b]
        BY <1>1, <1>3, <1>6, <2>4
      <4>2. \A k \in Handles : Count(box[k], b) \in Nat
        BY LoadType
      <4>3. \A k \in Handles : Count(box'[k], b) = Count(box[k], b)
        BY <2>2, <2>4, <4>1, <4>2
      <4> QED
        BY <4>1, <4>3, OwnStays
    <3>2. Owned(n)'
      <4>1. Count(box'[dest], n) = 1 /\ \A k \in Handles \ {dest} : Count(box'[k], n) = 0
        BY <1>3, <1>5, <2>2, <2>4
      <4>2. Load(dest, n)' = 1 /\ \A k \in Handles \ {dest} : Load(k, n)' = 0
        BY <1>5, <2>4, <4>1 DEF Load
      <4>3. heap'[n].frees = 0 /\ heap'[n].dropped = "no" /\ heap'[n].got = "nothing"
        BY <1>4, <2>4
      <4> QED
        BY <2>4, <4>2, <4>3 DEF Owned
    <3>3. Len(heap') = n
      BY <1>3, <2>4
    <3>4. \A b \in 1 .. n : b = n \/ b \in 1 .. Len(heap)
      BY <1>2, <1>3
    <3> QED
      BY <3>1, <3>2, <3>3, <3>4 DEF AllOwned
  <2>5. CASE heap' = Freed(hp, <<m>>) /\ Grown(bx, box')
    <3>1. \A k \in Handles, b \in Nat \ {0} : Count(box'[k], b) = Count(box[k], b)
      BY <2>2, <2>5 DEF Grown
    <3> QED
      BY <1>g, <2>5, <3>1
  <2> QED
    BY <2>3, <2>4, <2>5, Pushed
<1>9. ASSUME heap' = Freed(Append(heap, Packed(args)), <<m>>), UNCHANGED box
      PROVE  AllOwned'
  <2>1. heap' = Freed(hp, <<m>>)
    BY <1>1, <1>9, Zenon
  <2> QED
    BY <1>9, <1>g, <2>1
<1> QED
  BY <1>8, <1>9

\* A push of a message without a buffer.
LEMMA OwnNoted ==
  ASSUME Shape, Shape', AllOwned, NEW dest, NEW m \in Messages, Note(m),
         push_message(box, heap, dest, m),
         \A k \in Handles : actor'[k].pending = actor[k].pending
  PROVE  AllOwned'
<1>1. PICK bx \in Boxes, hp \in Heaps : bx = box /\ hp = heap
  BY LengthType DEF Shape
<1>2. push_message(bx, hp, dest, m)
  BY <1>1, Zenon
<1>3. /\ \A k \in Handles, b \in Nat \ {0} : Count(box'[k], b) = Count(box[k], b)
      /\ heap' = hp \/ heap' = Freed(hp, <<m>>)
  <2>1. CASE /\ dest \in Handles /\ heap' = hp
             /\ \A k \in Handles \ {dest} : box'[k] = bx[k]
             /\ \A b : Count(box'[dest], b) = Count(bx[dest], b) + (IF m.data = b THEN 1 ELSE 0)
    <3>1. ASSUME NEW k \in Handles, NEW b \in Nat \ {0} PROVE Count(box'[k], b) = Count(box[k], b)
      <4>1. Count(box[k], b) \in Nat /\ m.data # b
        BY LoadType DEF Note
      <4> QED
        BY <1>1, <2>1, <4>1
    <3> QED
      BY <2>1, <3>1
  <2>2. CASE heap' = Freed(hp, <<m>>) /\ Grown(bx, box')
    BY <1>1, <2>2 DEF Grown
  <2> QED
    BY <1>2, <2>1, <2>2, Pushed
<1>4. \A b \in 1 .. Len(heap) :
         /\ heap'[b].frees = heap[b].frees /\ heap'[b].dropped = heap[b].dropped
         /\ heap'[b].args = heap[b].args /\ heap'[b].got = heap[b].got
  <2>1. CASE heap' = hp
    BY <1>1, <2>1
  <2>2. CASE heap' = Freed(hp, <<m>>)
    <3>1. PICK q \in Seq(Messages) : q = <<m>>
      BY OneMessage
    <3>2. \A b \in 1 .. Len(hp) :
            /\ heap'[b].frees = hp[b].frees + Count(q, b)
            /\ heap'[b].dropped = hp[b].dropped
            /\ heap'[b].got = hp[b].got
            /\ heap'[b].args = hp[b].args
      BY <2>2, <3>1, FreedIs
    <3>3. \A b \in 1 .. Len(hp) : Count(q, b) = 0 /\ hp[b].frees \in Nat
      <4>1. \A b \in 1 .. Len(hp) : b # 0 /\ hp[b].frees \in Nat
        BY <1>1, HeapEntry
      <4>2. \A b : Count(q, b) = IF m.data = b THEN 1 ELSE 0
        BY <3>1, CountOne
      <4> QED
        BY <4>1, <4>2 DEF Note
    <3> QED
      BY <1>1, <3>2, <3>3
  <2> QED
    BY <1>3, <2>1, <2>2
<1>5. Len(heap') = Len(heap)
  BY <1>1, <1>2, PushedHeap
<1>6. ASSUME NEW b \in 1 .. Len(heap) PROVE Owned(b)'
  <2>1. b \in Nat \ {0}
    BY HeapEntry
  <2> QED
    BY <1>3, <1>4, <2>1, OwnStays
<1> QED
  BY <1>5, <1>6 DEF AllOwned

\* What packs and sends.
LEMMA OwnSend ==
  ASSUME Shape, Shape', AllOwned, NEW h \in Handles, Send(h)
  PROVE  AllOwned'
<1>1. PICK dest \in Handles, type \in {"LUA", "CLIENT"}, args \in CanPack :
        /\ MaySend(type)
        /\ push_message(box, Append(heap, Packed(args)), dest, Message(h, 0, type, Next_buffer))
  BY DEF Send
<1>2. Len(heap) \in Nat /\ ops \in Nat /\ MaxOps \in Nat
  BY Numbers DEF Shape, Globals, Heaps
<1>3. ops + Len(heap) < MaxOps
  BY <1>1, <1>2 DEF MaySend
<1>a. Next_buffer \in 0 .. MaxOps /\ Next_buffer = Len(heap) + 1 /\ h \in 0 .. MaxHandle /\ 0 \in 0 .. MaxOps
  BY <1>3, NextBufferIs, Numbers
<1>4. PICK m \in Messages : m = Message(h, 0, type, Next_buffer) /\ m.data = Len(heap) + 1
  BY <1>a, MessageType
<1>5. push_message(box, Append(heap, Packed(args)), dest, m)
  BY <1>1, <1>4, Zenon
<1>6. \A k \in Handles : actor'[k].pending = actor[k].pending
  BY DEF Send
<1> QED
  BY <1>4, <1>5, <1>6, OwnSent

\* skynet.call leaves each buffer its one owner.
LEMMA OwnCall ==
  ASSUME Shape, Shape', AllOwned, NEW h \in Handles, Call(h)
  PROVE  AllOwned'
<1>1. PICK s : s = actor[h].sessions + 1
  OBVIOUS
<1>2. PICK dest \in Handles, type \in {"LUA", "CLIENT"}, args \in CanPack :
        /\ MaySend(type)
        /\ push_message(box, Append(heap, Packed(args)), dest, Message(h, s, type, Next_buffer))
  BY <1>1 DEF Call
<1>3. Len(heap) \in Nat /\ ops \in Nat /\ MaxOps \in Nat
  BY Numbers DEF Shape, Globals, Heaps
<1>4. ops + Len(heap) < MaxOps
  BY <1>2, <1>3 DEF MaySend
<1>5. Kept(h) /\ actor'[h].pending = actor[h].pending /\ s \in 1 .. MaxOps
  BY <1>1, CallSets
<1>6. s \in 0 .. MaxOps /\ Next_buffer \in 0 .. MaxOps /\ Next_buffer = Len(heap) + 1 /\ h \in 0 .. MaxHandle
  BY <1>4, <1>5, NextBufferIs, Numbers
<1>7. PICK m \in Messages : m = Message(h, s, type, Next_buffer) /\ m.data = Len(heap) + 1
  BY <1>6, MessageType
<1>8. push_message(box, Append(heap, Packed(args)), dest, m)
  BY <1>2, <1>7, Zenon
<1>9. \A k \in Handles : actor'[k].pending = actor[k].pending
  BY <1>5 DEF Kept
<1> QED
  BY <1>7, <1>8, <1>9, OwnSent

\* lredirect leaves each buffer its one owner.
LEMMA OwnRedirect ==
  ASSUME Shape, Shape', AllOwned, NEW h \in Handles, Redirect(h)
  PROVE  AllOwned'
<1>1. PICK k \in DOMAIN actor[h].debts, dest \in Handles, args \in CanPack, ignore \in BOOLEAN,
            m \in Messages :
           /\ push_message(box, Append(heap, Packed(args)), dest, m)
           /\ m.data = Len(heap) + 1
           /\ actor' = IF ignore THEN [actor EXCEPT ![h].debts = RemoveAt(@, k)] ELSE actor
  BY RedirectOf
<1>2. Kept(h) /\ actor'[h].pending = actor[h].pending
  <2>1. CASE ignore
    BY <1>1, <2>1, DebtPaid DEF Alike
  <2>2. CASE ~ignore
    BY <1>1, <2>2 DEF Kept
  <2> QED
    BY <2>1, <2>2
<1>3. \A x \in Handles : actor'[x].pending = actor[x].pending
  BY <1>2 DEF Kept
<1> QED
  BY <1>1, <1>3, OwnSent

\* skynet.ret leaves each buffer its one owner.
LEMMA OwnRet ==
  ASSUME Shape, Shape', AllOwned, NEW h \in Handles, Ret(h)
  PROVE  AllOwned'
<1>1. PICK k \in DOMAIN actor[h].debts, args \in CanPack, m \in Messages :
           /\ m.source = h /\ m.session = actor[h].debts[k][2]
           /\ m.type = "RESPONSE" /\ m.data = Len(heap) + 1
           /\ \/ /\ actor[h].debts[k][2] # 0
                 /\ push_message(box, Append(heap, Packed(args)), actor[h].debts[k][1], m)
              \/ /\ actor[h].debts[k][2] = 0
                 /\ heap' = Freed(Append(heap, Packed(args)), <<m>>) /\ UNCHANGED box
           /\ actor' = [actor EXCEPT ![h].debts = RemoveAt(@, k)]
  BY RetOf
<1>2. Kept(h) /\ actor'[h].pending = actor[h].pending
  BY <1>1, DebtPaid DEF Alike
<1>3. \A x \in Handles : actor'[x].pending = actor[x].pending
  BY <1>2 DEF Kept
<1>4. PICK dest : dest = actor[h].debts[k][1]
  OBVIOUS
<1>5. CASE push_message(box, Append(heap, Packed(args)), actor[h].debts[k][1], m)
  <2>1. push_message(box, Append(heap, Packed(args)), dest, m)
    BY <1>4, <1>5, Zenon
  <2> QED
    BY <1>1, <1>3, <2>1, OwnSent
<1>6. CASE heap' = Freed(Append(heap, Packed(args)), <<m>>) /\ UNCHANGED box
  BY <1>1, <1>3, <1>6, OwnSent
<1> QED
  BY <1>1, <1>5, <1>6

\* An error response leaves each buffer its one owner.
LEMMA OwnRespondError ==
  ASSUME Shape, Shape', AllOwned, NEW h \in Handles, RespondError(h)
  PROVE  AllOwned'
<1>1. PICK k \in DOMAIN actor[h].debts, m \in Messages :
           /\ Note(m)
           /\ push_message(box, heap, actor[h].debts[k][1], m)
           /\ actor' = [actor EXCEPT ![h].debts = RemoveAt(@, k)]
  BY RespondErrorOf
<1>2. Kept(h) /\ actor'[h].pending = actor[h].pending
  BY <1>1, DebtPaid DEF Alike
<1>3. \A x \in Handles : actor'[x].pending = actor[x].pending
  BY <1>2 DEF Kept
<1>4. PICK dest : dest = actor[h].debts[k][1]
  OBVIOUS
<1>5. push_message(box, heap, dest, m)
  BY <1>1, <1>4, Zenon
<1> QED
  BY <1>1, <1>3, <1>5, OwnNoted

\* What reports.
LEMMA OwnReports ==
  ASSUME Shape, Shape', AllOwned, NEW h \in Handles, PackRaises(h) \/ Forget(h)
  PROVE  AllOwned'
<1>1. CASE PackRaises(h)
  <2>1. Grown(box, box')
    BY <1>1, ShrunkSame, ReportedFlow, Numbers DEF PackRaises
  <2> QED
    BY <1>1, <2>1, OwnGrown DEF PackRaises
<1>2. CASE Forget(h)
  <2>1. PICK k \in DOMAIN actor[h].debts, n \in Nat :
           /\ actor' = [actor EXCEPT ![h].debts = RemoveAt(@, k)]
           /\ box' = Reported(box, h, n) /\ Report(n)
    BY <1>2, ForgetOf
  <2>2. Kept(h) /\ actor'[h].pending = actor[h].pending
    BY <2>1, DebtPaid DEF Alike
  <2>3. \A x \in Handles : actor'[x].pending = actor[x].pending
    BY <2>2 DEF Kept
  <2>4. Grown(box, box')
    BY <2>1, ShrunkSame, ReportedFlow, Numbers
  <2>5. heap' = heap
    BY <1>2 DEF Forget
  <2> QED
    BY <2>3, <2>4, <2>5, OwnGrown
<1> QED
  BY <1>1, <1>2

\* Each step of error() leaves each buffer its one owner.
LEMMA OwnErrors ==
  ASSUME Shape, Shape', AllOwned, NEW h \in 0 .. MaxHandle,
         Error(h) \/ ErrorLoad(h) \/ ErrorFind(h) \/ ErrorStore(h)
  PROVE  AllOwned'
<1>1. PICK text \in Messages : text = Text(h) /\ Note(text)
  <2>1. Text(h) \in Messages /\ Note(Text(h))
    BY TextType DEF Note
  <2> QED
    BY <2>1, Zenon
<1>2. \A k \in Handles : actor'[k].pending = actor[k].pending
  BY DEF Error, ErrorLoad, ErrorFind, ErrorStore
<1>3. ASSUME NEW dest, push_message(box, heap, dest, Text(h)) PROVE AllOwned'
  <2>1. push_message(box, heap, dest, text)
    BY <1>1, <1>3, Zenon
  <2> QED
    BY <1>1, <1>2, <2>1, OwnNoted
<1>4. ASSUME UNCHANGED <<box, heap>> PROVE AllOwned'
  BY <1>2, <1>4, OwnRests
<1>5. CASE Error(h)
  BY <1>4, <1>5 DEF Error
<1>6. CASE ErrorFind(h)
  BY <1>4, <1>6 DEF ErrorFind
<1>7. CASE ErrorLoad(h)
  BY <1>3, <1>4, <1>7 DEF ErrorLoad
<1>8. CASE ErrorStore(h)
  BY <1>3, <1>8 DEF ErrorStore
<1> QED
  BY <1>5, <1>6, <1>7, <1>8

\* What changes no buffer and no mailbox.
LEMMA OwnQuiet ==
  ASSUME Shape, Shape', AllOwned, NEW h \in Handles,
         \/ Register(h) \/ Spawn(h) \/ InitDone(h) \/ InitFails(h) \/ Kill(h) \/ KillResets(h)
         \/ UNCHANGED vars
  PROVE  AllOwned'
<1>1. UNCHANGED <<box, heap>>
  BY DEF Register, Spawn, InitDone, InitFails, Kill, KillResets, vars
<1>2. \A k \in Handles : actor'[k].pending = actor[k].pending
  <2>1. CASE Spawn(h)
    <3>1. Kept(h) /\ actor'[h].pending = <<>> /\ actor[h].state = "none"
      BY <2>1, SpawnSets
    <3>2. actor[h].pending = <<>>
      BY <3>1 DEF Shape, ActorFine, Local
    <3> QED
      BY <3>1, <3>2 DEF Kept
  <2>2. CASE InitDone(h)
    <3>1. Kept(h) /\ Moved(actor'[h], actor[h])
      BY <2>2, InitDoneSets
    <3> QED
      BY <3>1 DEF Kept, Moved
  <2>3. CASE InitFails(h) \/ Kill(h) \/ KillResets(h)
    <3>1. PICK s \in {"failed", "erased", "releasing"} : actor' = [actor EXCEPT ![h].state = s]
      BY <2>3 DEF InitFails, Kill, KillResets
    <3>2. Kept(h) /\ Moved(actor'[h], actor[h])
      BY <3>1, StateSet
    <3> QED
      BY <3>2 DEF Kept, Moved
  <2>4. CASE Register(h) \/ UNCHANGED vars
    BY <2>4 DEF Register, vars
  <2> QED
    BY <2>1, <2>2, <2>3, <2>4
<1> QED
  BY <1>1, <1>2, OwnRests

\* A step that changes the messages and the buffers of one actor.
LEMMA OwnStep ==
  ASSUME Shape, Shape', AllOwned, Len(heap') = Len(heap), NEW h \in Handles, Kept(h),
         \A k \in Handles \ {h}, b \in Nat \ {0} : Count(box'[k], b) = Count(box[k], b),
         \A b \in 1 .. Len(heap) : \E n1 \in Nat, n2 \in Nat :
           /\ Load(h, b) = Load(h, b)' + n1 + n2
           /\ heap'[b].frees = heap[b].frees + n1
           /\ n2 = 0 => heap'[b].dropped = heap[b].dropped
           /\ n2 # 0 => heap'[b].dropped # "no"
           /\ heap'[b].args = heap[b].args
           /\ heap'[b].got = heap[b].got \/ (n1 # 0 /\ heap'[b].got = Contents(heap[b]))
  PROVE  AllOwned'
<1>1. ASSUME NEW b \in 1 .. Len(heap) PROVE Owned(b)'
  <2>1. PICK n1 \in Nat, n2 \in Nat :
           /\ Load(h, b) = Load(h, b)' + n1 + n2
           /\ heap'[b].frees = heap[b].frees + n1
           /\ n2 = 0 => heap'[b].dropped = heap[b].dropped
           /\ n2 # 0 => heap'[b].dropped # "no"
           /\ heap'[b].args = heap[b].args
           /\ heap'[b].got = heap[b].got \/ (n1 # 0 /\ heap'[b].got = Contents(heap[b]))
    OBVIOUS
  <2>2. b \in Nat \ {0}
    BY HeapEntry
  <2>3. \A k \in Handles \ {h} : Load(k, b)' = Load(k, b)
    BY <2>2 DEF Load, Kept
  <2> QED
    BY <2>1, <2>3, OwnMoves
<1> QED
  BY <1>1 DEF AllOwned

\* The buffers of an actor that ends are freed, or dropped with pending_messages.
LEMMA OwnDestroys ==
  ASSUME Shape, Shape', AllOwned, NEW h \in Handles, SpawnFails(h) \/ Destroy(h)
  PROVE  AllOwned'
<1>1. actor[h].state \in {"failed", "releasing"} /\ Destroyed(h)
  BY DEF SpawnFails, Destroy
<1>2. /\ Kept(h) /\ actor'[h].pending = <<>>
      /\ Grown(Emptied(h), box') /\ box'[h] = <<>>
      /\ heap' \in Heaps /\ Len(heap') = Len(heap)
      /\ \A b \in 1 .. Len(heap) :
           /\ heap'[b].frees = heap[b].frees + Count(box[h], b)
           /\ heap'[b].dropped = IF Count(actor[h].pending, b) > 0 THEN "pending" ELSE heap[b].dropped
           /\ heap'[b].got = heap[b].got
           /\ heap'[b].args = heap[b].args
  BY <1>1, DestroyedIs
<1>3. \A k \in Handles \ {h} : Emptied(h)[k] = box[k]
  BY <1>1, EmptiedIs
<1>4. \A k \in Handles \ {h}, b \in Nat \ {0} : Count(box'[k], b) = Count(box[k], b)
  BY <1>2, <1>3 DEF Grown
<1>5. ASSUME NEW b \in 1 .. Len(heap)
      PROVE  \E n1 \in Nat, n2 \in Nat :
           /\ Load(h, b) = Load(h, b)' + n1 + n2
           /\ heap'[b].frees = heap[b].frees + n1
           /\ n2 = 0 => heap'[b].dropped = heap[b].dropped
           /\ n2 # 0 => heap'[b].dropped # "no"
           /\ heap'[b].args = heap[b].args
           /\ heap'[b].got = heap[b].got \/ (n1 # 0 /\ heap'[b].got = Contents(heap[b]))
  <2>1. PICK n1 \in Nat, n2 \in Nat : n1 = Count(box[h], b) /\ n2 = Count(actor[h].pending, b)
    BY LoadType
  <2>2. Load(h, b)' = 0
    BY <1>2, CountEmpty DEF Load
  <2>3. Load(h, b) = Load(h, b)' + n1 + n2
    BY <2>1, <2>2 DEF Load
  <2> QED
    BY <1>2, <2>1, <2>3
<1> QED
  BY <1>2, <1>4, <1>5, OwnStep

\* What a mailbox, or the messages kept for later, lose is n1 that are freed and n2 that are
\* dropped.
LEMMA LoadSum ==
  ASSUME NEW c1 \in Nat, NEW c2 \in Nat, NEW c3 \in Nat, NEW c4 \in Nat, NEW c5 \in Nat,
         NEW n1 \in Nat, NEW n2 \in Nat, c3 + c2 = c4 + n1 + n2, c5 = c1 + c2
  PROVE  c5 + c3 = (c1 + c4) + n1 + n2
OBVIOUS

\* A step that takes the first message out of a mailbox, with what becomes of its payload:
\* n1 of it is freed and n2 dropped, or it stays with the actor.
LEMMA OwnPops ==
  ASSUME Shape, Shape', AllOwned, Len(heap') = Len(heap), NEW h \in Handles, Kept(h),
         CanDispatch(h), Grown(Popped(h), box') \/ box' = Popped(h),
         NEW m \in Messages, m = Head(box[h]),
         \A b \in 1 .. Len(heap) : \E n1 \in Nat, n2 \in Nat :
           /\ Count(actor[h].pending, b) + Count(<<m>>, b) = Count(actor'[h].pending, b) + n1 + n2
           /\ heap'[b].frees = heap[b].frees + n1
           /\ n2 = 0 => heap'[b].dropped = heap[b].dropped
           /\ n2 # 0 => heap'[b].dropped # "no"
           /\ heap'[b].args = heap[b].args
           /\ heap'[b].got = heap[b].got \/ (n1 # 0 /\ heap'[b].got = Contents(heap[b]))
  PROVE  AllOwned'
<1>1. /\ Popped(h) \in Boxes
      /\ \A k \in Handles \ {h} : Popped(h)[k] = box[k]
      /\ \A b : Count(box[h], b) = Count(Popped(h)[h], b) + Count(<<m>>, b)
  BY PoppedIs
<1>2. \A k \in Handles, b \in Nat \ {0} : Count(box'[k], b) = Count(Popped(h)[k], b)
  BY DEF Grown
<1>3. \A k \in Handles \ {h}, b \in Nat \ {0} : Count(box'[k], b) = Count(box[k], b)
  BY <1>1, <1>2
<1>4. ASSUME NEW b \in 1 .. Len(heap)
      PROVE  \E n1 \in Nat, n2 \in Nat :
           /\ Load(h, b) = Load(h, b)' + n1 + n2
           /\ heap'[b].frees = heap[b].frees + n1
           /\ n2 = 0 => heap'[b].dropped = heap[b].dropped
           /\ n2 # 0 => heap'[b].dropped # "no"
           /\ heap'[b].args = heap[b].args
           /\ heap'[b].got = heap[b].got \/ (n1 # 0 /\ heap'[b].got = Contents(heap[b]))
  <2>1. PICK n1 \in Nat, n2 \in Nat :
           /\ Count(actor[h].pending, b) + Count(<<m>>, b) = Count(actor'[h].pending, b) + n1 + n2
           /\ heap'[b].frees = heap[b].frees + n1
           /\ n2 = 0 => heap'[b].dropped = heap[b].dropped
           /\ n2 # 0 => heap'[b].dropped # "no"
           /\ heap'[b].args = heap[b].args
           /\ heap'[b].got = heap[b].got \/ (n1 # 0 /\ heap'[b].got = Contents(heap[b]))
    OBVIOUS
  <2>2. b \in Nat \ {0}
    BY HeapEntry
  <2>3. /\ Count(box[h], b) = Count(Popped(h)[h], b) + Count(<<m>>, b)
        /\ Count(box'[h], b) = Count(Popped(h)[h], b)
    BY <1>1, <1>2, <2>2
  <2>4. PICK c1 \in Nat, c2 \in Nat, c3 \in Nat, c4 \in Nat, c5 \in Nat :
          /\ c1 = Count(Popped(h)[h], b) /\ c2 = Count(<<m>>, b) /\ c3 = Count(actor[h].pending, b)
          /\ c4 = Count(actor'[h].pending, b) /\ c5 = Count(box[h], b)
    <3>1. Popped(h)[h] \in Seq(Messages) /\ <<m>> \in Seq(Messages)
      BY <1>1, OneMessage DEF Boxes
    <3>2. Count(Popped(h)[h], b) \in Nat /\ Count(<<m>>, b) \in Nat
      BY <3>1, CarryingFinite
    <3>3. Count(actor[h].pending, b) \in Nat /\ Count(box[h], b) \in Nat
      BY LoadType
    <3>4. Count(actor'[h].pending, b) \in Nat
      <4>1. actor'[h].pending \in Seq(Messages)
        BY ActorTypes DEF Shape
      <4> QED
        BY <4>1, CarryingFinite
    <3> QED
      BY <3>2, <3>3, <3>4
  <2>5. Load(h, b) = c5 + c3 /\ Load(h, b)' = c1 + c4
    BY <2>3, <2>4 DEF Load
  <2>a. c3 + c2 = c4 + n1 + n2
    BY <2>1, <2>4, Zenon
  <2>b. c5 = c1 + c2
    BY <2>3, <2>4, Zenon
  <2>c. c5 + c3 = (c1 + c4) + n1 + n2
    BY <2>a, <2>b, LoadSum
  <2>6. Load(h, b) = Load(h, b)' + n1 + n2
    BY <2>5, <2>c, Zenon
  <2> QED
    BY <2>1, <2>6
<1> QED
  BY <1>3, <1>4, OwnStep

\* Messages that are dropped or freed when they are taken out.
LEMMA OwnDispatchSimple ==
  ASSUME Shape, Shape', AllOwned, NEW h \in Handles,
         DispatchLogger(h) \/ DispatchNoCallback(h) \/ DispatchError(h)
  PROVE  AllOwned'
<1>1. CanDispatch(h) /\ box' = Popped(h)
  BY DEF DispatchLogger, DispatchNoCallback, DispatchError
<1>2. PICK m \in Messages : m = Head(box[h])
  BY <1>1, PoppedIs
<1>3. PICK q \in Seq(Messages) : q = <<m>>
  BY OneMessage
<1>4. Kept(h) /\ actor'[h].pending = actor[h].pending
  <2>1. CASE DispatchError(h)
    BY <2>1, WaitEnds DEF DispatchError
  <2>2. CASE UNCHANGED actor
    BY <2>2 DEF Kept
  <2> QED
    BY <2>1, <2>2 DEF DispatchLogger, DispatchNoCallback
<1>5. Len(heap') = Len(heap) /\ \A b \in 1 .. Len(heap) : \E n1 \in Nat, n2 \in Nat :
        /\ Count(q, b) = n1 + n2
        /\ heap'[b].frees = heap[b].frees + n1
        /\ n2 = 0 => heap'[b].dropped = heap[b].dropped
        /\ n2 # 0 => heap'[b].dropped # "no"
        /\ heap'[b].args = heap[b].args
        /\ heap'[b].got = heap[b].got
  <2>0. PICK z \in Nat : z = 0
    OBVIOUS
  <2>n. \A b \in 1 .. Len(heap) : Count(q, b) \in Nat /\ heap[b].frees \in Nat /\ b # 0
    BY CarryingFinite, HeapEntry
  <2>1. CASE DispatchLogger(h)
    <3>1. heap' = Dropped(heap, q, "logger")
      BY <1>2, <1>3, <2>1 DEF DispatchLogger
    <3>2. /\ Len(heap') = Len(heap)
          /\ \A b \in 1 .. Len(heap) :
              /\ heap'[b].frees = heap[b].frees
              /\ heap'[b].dropped = IF Count(q, b) > 0 THEN "logger" ELSE heap[b].dropped
              /\ heap'[b].got = heap[b].got
              /\ heap'[b].args = heap[b].args
      <4>1. LetGo(heap', heap, q, "logger")
        BY <3>1, LengthType, ManyDropped
      <4> QED
        BY <4>1 DEF LetGo
    <3>3. ASSUME NEW b \in 1 .. Len(heap)
          PROVE  \E n1 \in Nat, n2 \in Nat :
                    /\ Count(q, b) = n1 + n2
                    /\ heap'[b].frees = heap[b].frees + n1
                    /\ n2 = 0 => heap'[b].dropped = heap[b].dropped
                    /\ n2 # 0 => heap'[b].dropped # "no"
                    /\ heap'[b].args = heap[b].args
                    /\ heap'[b].got = heap[b].got
      <4>1. PICK n2 \in Nat : n2 = Count(q, b)
        BY <2>n
      <4>2. /\ Count(q, b) = z + n2
            /\ heap'[b].frees = heap[b].frees + z
            /\ n2 = 0 => heap'[b].dropped = heap[b].dropped
            /\ n2 # 0 => heap'[b].dropped # "no"
            /\ heap'[b].args = heap[b].args
            /\ heap'[b].got = heap[b].got
        BY <2>0, <2>n, <3>2, <4>1
      <4> QED
        BY <4>2
    <3> QED
      BY <3>2, <3>3
  <2>2. CASE DispatchNoCallback(h)
    <3>1. heap' = Freed(heap, q)
      BY <1>2, <1>3, <2>2 DEF DispatchNoCallback
    <3>2. /\ Len(heap') = Len(heap)
          /\ \A b \in 1 .. Len(heap) :
              /\ heap'[b].frees = heap[b].frees + Count(q, b)
              /\ heap'[b].dropped = heap[b].dropped
              /\ heap'[b].got = heap[b].got
              /\ heap'[b].args = heap[b].args
      BY <3>1, LengthType, FreedIs
    <3>3. ASSUME NEW b \in 1 .. Len(heap)
          PROVE  \E n1 \in Nat, n2 \in Nat :
                    /\ Count(q, b) = n1 + n2
                    /\ heap'[b].frees = heap[b].frees + n1
                    /\ n2 = 0 => heap'[b].dropped = heap[b].dropped
                    /\ n2 # 0 => heap'[b].dropped # "no"
                    /\ heap'[b].args = heap[b].args
                    /\ heap'[b].got = heap[b].got
      <4>1. PICK n1 \in Nat : n1 = Count(q, b)
        BY <2>n
      <4>2. /\ Count(q, b) = n1 + z
            /\ heap'[b].frees = heap[b].frees + n1
            /\ z = 0 => heap'[b].dropped = heap[b].dropped
            /\ z # 0 => heap'[b].dropped # "no"
            /\ heap'[b].args = heap[b].args
            /\ heap'[b].got = heap[b].got
        BY <2>0, <2>n, <3>2, <4>1
      <4> QED
        BY <4>2
    <3> QED
      BY <3>2, <3>3
  <2>3. CASE DispatchError(h)
    <3>1. heap' = heap /\ m.type = "ERROR"
      BY <1>2, <2>3 DEF DispatchError
    <3>2. m.data = 0
      BY <1>1, <1>2, <3>1, PoppedIs DEF Fine
    <3>3. \A b \in 1 .. Len(heap) : Count(q, b) = 0
      BY <1>3, <2>n, <3>2, CountOne
    <3>4. ASSUME NEW b \in 1 .. Len(heap)
          PROVE  /\ Count(q, b) = z + z
                 /\ heap'[b].frees = heap[b].frees + z
                 /\ z = 0 => heap'[b].dropped = heap[b].dropped
                 /\ z # 0 => heap'[b].dropped # "no"
                 /\ heap'[b].args = heap[b].args
                 /\ heap'[b].got = heap[b].got
      BY <2>0, <2>n, <3>1, <3>3
    <3> QED
      BY <3>1, <3>4
  <2> QED
    BY <2>1, <2>2, <2>3
<1>6. ASSUME NEW b \in 1 .. Len(heap)
      PROVE  \E n1 \in Nat, n2 \in Nat :
           /\ Count(actor[h].pending, b) + Count(<<m>>, b) = Count(actor'[h].pending, b) + n1 + n2
           /\ heap'[b].frees = heap[b].frees + n1
           /\ n2 = 0 => heap'[b].dropped = heap[b].dropped
           /\ n2 # 0 => heap'[b].dropped # "no"
           /\ heap'[b].args = heap[b].args
           /\ heap'[b].got = heap[b].got \/ (n1 # 0 /\ heap'[b].got = Contents(heap[b]))
  <2>1. PICK n1 \in Nat, n2 \in Nat :
        /\ Count(q, b) = n1 + n2
        /\ heap'[b].frees = heap[b].frees + n1
        /\ n2 = 0 => heap'[b].dropped = heap[b].dropped
        /\ n2 # 0 => heap'[b].dropped # "no"
        /\ heap'[b].args = heap[b].args
        /\ heap'[b].got = heap[b].got
    BY <1>5
  <2>2. PICK c \in Nat : c = Count(actor[h].pending, b)
    BY LoadType
  <2>3. Count(actor'[h].pending, b) = c
    BY <1>4, <2>2
  <2>4. c + (n1 + n2) = c + n1 + n2
    OBVIOUS
  <2>5. Count(actor[h].pending, b) + Count(<<m>>, b) = Count(actor'[h].pending, b) + n1 + n2
    BY <1>3, <2>1, <2>2, <2>3, <2>4, Zenon
  <2> QED
    BY <2>1, <2>5
<1> QED
  BY <1>1, <1>2, <1>4, <1>5, <1>6, OwnPops

\* A request before the start leaves each buffer its one owner.
LEMMA OwnDispatchEarly ==
  ASSUME Shape, Shape', AllOwned, NEW h \in Handles, DispatchEarly(h)
  PROVE  AllOwned'
<1>1. PICK m \in Messages :
           /\ m = Head(box[h]) /\ CanDispatch(h) /\ box' = Popped(h)
           /\ m.type \in {"LUA", "CLIENT"}
           /\ heap' = IF m = Visible(m) THEN heap ELSE Dropped(heap, <<m>>, "type")
           /\ heap' \in Heaps /\ Len(heap') = Len(heap)
           /\ Kept(h)
           /\ \A b : Count(actor'[h].pending, b)
                       = Count(actor[h].pending, b) + (IF Visible(m).data = b THEN 1 ELSE 0)
  BY EarlyIs
<1>2. PICK v \in Messages : v = Visible(m) /\ (m # v => v.data = 0)
  BY VisibleIs
<1>3. PICK q \in Seq(Messages) : q = <<m>>
  BY OneMessage
<1>4. \A b : Count(q, b) = IF m.data = b THEN 1 ELSE 0
  BY <1>3, CountOne
<1>5. ASSUME NEW b \in 1 .. Len(heap)
      PROVE  \E n1 \in Nat, n2 \in Nat :
           /\ Count(actor[h].pending, b) + Count(<<m>>, b) = Count(actor'[h].pending, b) + n1 + n2
           /\ heap'[b].frees = heap[b].frees + n1
           /\ n2 = 0 => heap'[b].dropped = heap[b].dropped
           /\ n2 # 0 => heap'[b].dropped # "no"
           /\ heap'[b].args = heap[b].args
           /\ heap'[b].got = heap[b].got \/ (n1 # 0 /\ heap'[b].got = Contents(heap[b]))
  <2>1. PICK c \in Nat, z \in Nat : c = Count(actor[h].pending, b) /\ z = 0
    BY LoadType
  <2>2. heap[b].frees \in Nat /\ b # 0
    BY HeapEntry
  <2>3. CASE m = v
    <3>1. heap' = heap
      BY <1>1, <1>2, <2>3
    <3>2. Count(actor'[h].pending, b) = c + (IF m.data = b THEN 1 ELSE 0)
      BY <1>1, <1>2, <2>1, <2>3
    <3>3. c + Count(q, b) = Count(actor'[h].pending, b) + z + z
      BY <1>4, <2>1, <3>2
    <3>4. Count(actor[h].pending, b) + Count(<<m>>, b) = Count(actor'[h].pending, b) + z + z
      BY <1>3, <2>1, <3>3, Zenon
    <3>5. heap'[b].frees = heap[b].frees + z
      BY <2>1, <2>2, <3>1
    <3> QED
      BY <2>1, <3>1, <3>4, <3>5
  <2>4. CASE m # v
    <3>1. heap' = Dropped(heap, q, "type")
      BY <1>1, <1>2, <1>3, <2>4
    <3>2. /\ heap'[b].frees = heap[b].frees
          /\ heap'[b].dropped = IF Count(q, b) > 0 THEN "type" ELSE heap[b].dropped
          /\ heap'[b].got = heap[b].got
          /\ heap'[b].args = heap[b].args
      BY <3>1, LengthType, DroppedIs
    <3>3. PICK n2 \in Nat : n2 = Count(q, b)
      BY CarryingFinite
    <3>4. Count(actor'[h].pending, b) = c
      BY <1>1, <1>2, <2>1, <2>2, <2>4
    <3>5. c + n2 = c + z + n2
      BY <2>1
    <3>6. Count(actor[h].pending, b) + Count(<<m>>, b) = Count(actor'[h].pending, b) + z + n2
      BY <1>3, <2>1, <3>3, <3>4, <3>5, Zenon
    <3>7. /\ heap'[b].frees = heap[b].frees + z
          /\ n2 = 0 => heap'[b].dropped = heap[b].dropped
          /\ n2 # 0 => heap'[b].dropped # "no"
      BY <2>1, <2>2, <3>2, <3>3
    <3> QED
      BY <3>2, <3>6, <3>7
  <2> QED
    BY <2>3, <2>4
<1> QED
  BY <1>1, <1>5, OwnPops

\* A request that is handled leaves each buffer its one owner.
LEMMA OwnDispatchRequest ==
  ASSUME Shape, Shape', AllOwned, NEW h \in Handles, DispatchRequest(h)
  PROVE  AllOwned'
<1>1. PICK m \in Messages, v \in Messages, hp \in Heaps :
           /\ m = Head(box[h]) /\ v = Visible(m) /\ CanDispatch(h)
           /\ m.type \in {"LUA", "CLIENT"}
           /\ hp = (IF m = v THEN heap ELSE Dropped(heap, <<m>>, "type"))
           /\ Len(hp) = Len(heap)
           /\ heap' = unpacktrash(hp, <<v>>, "LUA")
           /\ heap' \in Heaps /\ Len(heap') = Len(heap)
           /\ actor' \in [Handles -> Actors] /\ Kept(h) /\ Alike(actor'[h], actor[h])
           /\ \A d \in Range(actor'[h].debts) :
                d \in Range(actor[h].debts) \/ (m.type = "LUA" /\ d = <<m.source, m.session>>)
           /\ \A d \in Range(actor[h].debts) : d \in Range(actor'[h].debts)
           /\ m.type = "LUA" => <<m.source, m.session>> \in Range(actor'[h].debts)
           /\ Flow /\ Grown(Popped(h), box')
           /\ m.type # "LUA" /\ NeedsAnswer(m) /\ Accepting(m.source) =>
                HasError(box'[m.source], m.session)
           /\ logger_handle' \in 0 .. MaxHandle
  BY RequestIs
<1>2. /\ v.type = m.type /\ (m # v => v.data = 0)
      /\ v.data = (IF m.type \in {"LUA", "RESPONSE"} THEN m.data ELSE 0)
  BY <1>1, VisibleIs
<1>3. PICK q \in Seq(Messages) : q = <<m>>
  BY OneMessage
<1>4. PICK r \in Seq(Messages) : r = <<v>> /\ Range(r) = {v}
  BY OneMessage
<1>5. /\ \A b : Count(q, b) = IF m.data = b THEN 1 ELSE 0
      /\ \A b : Count(r, b) = IF v.data = b THEN 1 ELSE 0
  BY <1>3, <1>4, CountOne
<1>6. \A b \in 1 .. Len(hp) :
              /\ heap'[b].frees = hp[b].frees + Count(r, b)
              /\ heap'[b].dropped = hp[b].dropped
              /\ heap'[b].args = hp[b].args
              /\ heap'[b].got = IF Count(r, b) > 0 THEN Contents(hp[b]) ELSE hp[b].got
  <2>1. heap' = unpacktrash(hp, r, "LUA")
    BY <1>1, <1>4, Zenon
  <2>2. \A x \in Range(r) : x.type # "LUA" => x.data = 0
    BY <1>1, <1>2, <1>4
  <2> QED
    BY <2>1, <2>2, ManyTrashed
<1>7. actor'[h].pending = actor[h].pending
  BY <1>1 DEF Alike
<1>8. ASSUME NEW b \in 1 .. Len(heap)
      PROVE  \E n1 \in Nat, n2 \in Nat :
           /\ Count(actor[h].pending, b) + Count(<<m>>, b) = Count(actor'[h].pending, b) + n1 + n2
           /\ heap'[b].frees = heap[b].frees + n1
           /\ n2 = 0 => heap'[b].dropped = heap[b].dropped
           /\ n2 # 0 => heap'[b].dropped # "no"
           /\ heap'[b].args = heap[b].args
           /\ heap'[b].got = heap[b].got \/ (n1 # 0 /\ heap'[b].got = Contents(heap[b]))
  <2>1. PICK c \in Nat, z \in Nat, n \in Nat :
          c = Count(actor[h].pending, b) /\ z = 0 /\ n = Count(q, b)
    BY LoadType, CarryingFinite
  <2>2. heap[b].frees \in Nat /\ b # 0
    BY HeapEntry
  <2>a. Count(actor'[h].pending, b) = c
    BY <1>7, <2>1
  <2>b. c + n = c + n + z /\ c + n = c + z + n
    BY <2>1
  <2>c. /\ Count(actor[h].pending, b) + Count(<<m>>, b) = Count(actor'[h].pending, b) + n + z
        /\ Count(actor[h].pending, b) + Count(<<m>>, b) = Count(actor'[h].pending, b) + z + n
    BY <1>3, <2>1, <2>a, <2>b, Zenon
  <2>3. CASE m = v
    <3>a. hp = heap
      BY <1>1, <2>3, Zenon
    <3>b. q = r
      BY <1>3, <1>4, <2>3, Zenon
    <3>1. hp = heap /\ Count(r, b) = n
      BY <2>1, <3>a, <3>b
    <3>2. /\ heap'[b].frees = heap[b].frees + n
          /\ heap'[b].dropped = heap[b].dropped
          /\ heap'[b].args = heap[b].args
          /\ heap'[b].got = IF n > 0 THEN Contents(heap[b]) ELSE heap[b].got
      BY <1>6, <3>1
    <3>3. /\ z = 0 => heap'[b].dropped = heap[b].dropped
          /\ z # 0 => heap'[b].dropped # "no"
          /\ heap'[b].got = heap[b].got \/ (n # 0 /\ heap'[b].got = Contents(heap[b]))
      BY <2>1, <3>2
    <3> QED
      BY <2>c, <3>2, <3>3
  <2>4. CASE m # v
    <3>0. hp = Dropped(heap, q, "type") /\ Count(r, b) = 0 /\ b \in 1 .. Len(hp)
      BY <1>1, <1>2, <1>3, <1>5, <2>2, <2>4
    <3>1. /\ hp[b].frees = heap[b].frees
          /\ hp[b].dropped = IF Count(q, b) > 0 THEN "type" ELSE heap[b].dropped
          /\ hp[b].got = heap[b].got
          /\ hp[b].args = heap[b].args
      <4>1. hp = Dropped(heap, q, "type")
        BY <3>0
      <4>2. LetGo(hp, heap, q, "type")
        BY <4>1, LengthType, ManyDropped
      <4> QED
        BY <4>2 DEF LetGo
    <3>2. /\ heap'[b].frees = heap[b].frees + z
          /\ n = 0 => heap'[b].dropped = heap[b].dropped
          /\ n # 0 => heap'[b].dropped # "no"
          /\ heap'[b].got = heap[b].got
          /\ heap'[b].args = heap[b].args
      BY <1>6, <2>1, <2>2, <3>0, <3>1
    <3> QED
      BY <2>c, <3>2
  <2> QED
    BY <2>3, <2>4
<1> QED
  BY <1>1, <1>8, OwnPops

\* A response leaves each buffer its one owner.
LEMMA OwnDispatchResponse ==
  ASSUME Shape, Shape', AllOwned, NEW h \in Handles, DispatchResponse(h)
  PROVE  AllOwned'
<1>1. PICK m \in Messages :
           /\ m = Head(box[h]) /\ CanDispatch(h) /\ m.type = "RESPONSE"
           /\ heap' = (IF m.session \in actor[h].waits THEN unpacktrash(heap, <<m>>, "RESPONSE")
                       ELSE Dropped(heap, <<m>>, "session"))
           /\ heap' \in Heaps /\ Len(heap') = Len(heap)
           /\ actor' = [actor EXCEPT ![h].waits = @ \ {m.session}]
           /\ Grown(Popped(h), box')
  BY ResponseIs, Zenon
<1>2. PICK s : s = m.session
  OBVIOUS
<1>3. Kept(h) /\ actor'[h].pending = actor[h].pending
  <2>1. actor' = [actor EXCEPT ![h].waits = @ \ {s}]
    BY <1>1, <1>2
  <2> QED
    BY <2>1, WaitEnds
<1>4. PICK q \in Seq(Messages) : q = <<m>> /\ Range(q) = {m}
  BY OneMessage
<1>5. \/ \A b \in 1 .. Len(heap) :
              /\ heap'[b].frees = heap[b].frees + Count(q, b)
              /\ heap'[b].dropped = heap[b].dropped
              /\ heap'[b].args = heap[b].args
              /\ heap'[b].got = IF Count(q, b) > 0 THEN Contents(heap[b]) ELSE heap[b].got
      \/ \A b \in 1 .. Len(heap) :
              /\ heap'[b].frees = heap[b].frees
              /\ heap'[b].dropped = IF Count(q, b) > 0 THEN "session" ELSE heap[b].dropped
              /\ heap'[b].args = heap[b].args
              /\ heap'[b].got = heap[b].got
  <2>1. CASE m.session \in actor[h].waits
    <3>1. heap' = unpacktrash(heap, q, "RESPONSE")
      BY <1>1, <1>4, <2>1, Zenon
    <3>2. \A x \in Range(q) : x.type # "RESPONSE" => x.data = 0
      BY <1>1, <1>4
    <3> QED
      BY <3>1, <3>2, LengthType, ManyTrashed
  <2>2. CASE m.session \notin actor[h].waits
    <3>1. heap' = Dropped(heap, q, "session")
      BY <1>1, <1>4, <2>2, Zenon
    <3>2. LetGo(heap', heap, q, "session")
      BY <3>1, LengthType, ManyDropped
    <3> QED
      BY <3>2 DEF LetGo
  <2> QED
    BY <2>1, <2>2
<1>6. ASSUME NEW b \in 1 .. Len(heap)
      PROVE  \E n1 \in Nat, n2 \in Nat :
           /\ Count(actor[h].pending, b) + Count(<<m>>, b) = Count(actor'[h].pending, b) + n1 + n2
           /\ heap'[b].frees = heap[b].frees + n1
           /\ n2 = 0 => heap'[b].dropped = heap[b].dropped
           /\ n2 # 0 => heap'[b].dropped # "no"
           /\ heap'[b].args = heap[b].args
           /\ heap'[b].got = heap[b].got \/ (n1 # 0 /\ heap'[b].got = Contents(heap[b]))
  <2>1. PICK c \in Nat, z \in Nat, n \in Nat :
          c = Count(actor[h].pending, b) /\ z = 0 /\ n = Count(q, b)
    BY LoadType, CarryingFinite
  <2>2. heap[b].frees \in Nat
    BY HeapEntry
  <2>a. Count(actor'[h].pending, b) = c
    BY <1>3, <2>1
  <2>b. c + n = c + n + z /\ c + n = c + z + n
    BY <2>1
  <2>c. /\ Count(actor[h].pending, b) + Count(<<m>>, b) = Count(actor'[h].pending, b) + n + z
        /\ Count(actor[h].pending, b) + Count(<<m>>, b) = Count(actor'[h].pending, b) + z + n
    BY <1>4, <2>1, <2>a, <2>b, Zenon
  <2>3. CASE /\ heap'[b].frees = heap[b].frees + n
             /\ heap'[b].dropped = heap[b].dropped
             /\ heap'[b].args = heap[b].args
             /\ heap'[b].got = IF n > 0 THEN Contents(heap[b]) ELSE heap[b].got
    <3>1. /\ z = 0 => heap'[b].dropped = heap[b].dropped
          /\ z # 0 => heap'[b].dropped # "no"
          /\ heap'[b].got = heap[b].got \/ (n # 0 /\ heap'[b].got = Contents(heap[b]))
      BY <2>1, <2>3
    <3> QED
      BY <2>c, <2>3, <3>1
  <2>4. CASE /\ heap'[b].frees = heap[b].frees
             /\ heap'[b].dropped = IF n > 0 THEN "session" ELSE heap[b].dropped
             /\ heap'[b].args = heap[b].args
             /\ heap'[b].got = heap[b].got
    <3>1. /\ heap'[b].frees = heap[b].frees + z
          /\ n = 0 => heap'[b].dropped = heap[b].dropped
          /\ n # 0 => heap'[b].dropped # "no"
      BY <2>1, <2>2, <2>4
    <3> QED
      BY <2>c, <2>4, <3>1
  <2> QED
    BY <1>5, <2>1, <2>3, <2>4
<1> QED
  BY <1>1, <1>3, <1>6, OwnPops

\* The early requests are unpacked, or their buffers freed.
LEMMA OwnStarts ==
  ASSUME Shape, Shape', AllOwned, NEW h \in Handles, Start(h) \/ StartFails(h)
  PROVE  AllOwned'
<1>1. /\ Kept(h) /\ actor'[h].pending = <<>> /\ Grown(box, box') /\ Len(heap') = Len(heap)
      /\ \A b \in 1 .. Len(heap) :
           /\ heap'[b].frees = heap[b].frees + Count(actor[h].pending, b)
           /\ heap'[b].dropped = heap[b].dropped
           /\ heap'[b].args = heap[b].args
           /\ \/ heap'[b].got = heap[b].got
              \/ Count(actor[h].pending, b) > 0 /\ heap'[b].got = Contents(heap[b])
  <2>1. CASE Start(h)
    BY <2>1, StartIs
  <2>2. CASE StartFails(h)
    BY <2>2, StartFailsIs
  <2> QED
    BY <2>1, <2>2
<1>2. \A k \in Handles, b \in Nat \ {0} : Count(box'[k], b) = Count(box[k], b)
  BY <1>1 DEF Grown
<1>3. ASSUME NEW b \in 1 .. Len(heap)
      PROVE  \E n1 \in Nat, n2 \in Nat :
           /\ Load(h, b) = Load(h, b)' + n1 + n2
           /\ heap'[b].frees = heap[b].frees + n1
           /\ n2 = 0 => heap'[b].dropped = heap[b].dropped
           /\ n2 # 0 => heap'[b].dropped # "no"
           /\ heap'[b].args = heap[b].args
           /\ heap'[b].got = heap[b].got \/ (n1 # 0 /\ heap'[b].got = Contents(heap[b]))
  <2>1. PICK n \in Nat, c \in Nat, z \in Nat :
          n = Count(actor[h].pending, b) /\ c = Count(box[h], b) /\ z = 0
    BY LoadType
  <2>2. Count(box'[h], b) = c /\ Count(actor'[h].pending, b) = 0
    BY <1>1, <1>2, <2>1, HeapEntry, CountEmpty
  <2>3. Load(h, b) = Load(h, b)' + n + z
    BY <2>1, <2>2 DEF Load
  <2>4. /\ heap'[b].frees = heap[b].frees + n
        /\ z = 0 => heap'[b].dropped = heap[b].dropped
        /\ z # 0 => heap'[b].dropped # "no"
        /\ heap'[b].args = heap[b].args
        /\ heap'[b].got = heap[b].got \/ (n # 0 /\ heap'[b].got = Contents(heap[b]))
    BY <1>1, <2>1
  <2> QED
    BY <2>3, <2>4
<1> QED
  BY <1>1, <1>2, <1>3, OwnStep

\* Every step leaves each buffer its one owner.
LEMMA OwnNext ==
  ASSUME Shape, Shape', AllOwned, [Next]_vars
  PROVE  AllOwned'
<1>1. CASE UNCHANGED vars
  <2>1. 1 \in Handles
    BY Numbers
  <2> QED
    BY <1>1, <2>1, OwnQuiet
<1>2. ASSUME NEW h \in 0 .. MaxHandle, Error(h) \/ ErrorLoad(h) \/ ErrorFind(h) \/ ErrorStore(h)
      PROVE  AllOwned'
  BY <1>2, OwnErrors
<1>3. ASSUME NEW h \in Handles,
             \/ Send(h) \/ Call(h) \/ PackRaises(h) \/ Redirect(h)
             \/ Ret(h) \/ RespondError(h) \/ Forget(h) \/ Register(h)
      PROVE  AllOwned'
  BY <1>3, OwnSend, OwnCall, OwnReports, OwnRedirect, OwnRet, OwnRespondError, OwnQuiet
<1>4. ASSUME NEW h \in Handles,
             \/ Spawn(h) \/ InitDone(h) \/ InitFails(h) \/ SpawnFails(h)
             \/ Kill(h) \/ KillResets(h) \/ Destroy(h)
      PROVE  AllOwned'
  BY <1>4, OwnQuiet, OwnDestroys
<1>5. ASSUME NEW h \in Handles,
             \/ DispatchLogger(h) \/ DispatchNoCallback(h) \/ DispatchEarly(h)
             \/ DispatchRequest(h) \/ DispatchResponse(h) \/ DispatchError(h)
             \/ Start(h) \/ StartFails(h)
      PROVE  AllOwned'
  BY <1>5, OwnDispatchSimple, OwnDispatchEarly, OwnDispatchRequest, OwnDispatchResponse, OwnStarts
<1> QED
  BY <1>1, <1>2, <1>3, <1>4, <1>5 DEF Next

\* That buffers have one owner is an invariant.
LEMMA AllOwnedHolds == Spec => []AllOwned
<1>1. Init => AllOwned
  <2>1. Init => Len(heap) = 0
    BY DEF Init
  <2> QED
    BY <2>1 DEF AllOwned
<1>2. Shape /\ Shape' /\ AllOwned /\ [Next]_vars => AllOwned'
  BY OwnNext
<1> QED
  BY <1>1, <1>2, ShapeHolds, PTL DEF Spec

\* Carriers counts what the loads add up to.
LEMMA CarriersAre ==
  ASSUME Shape, NEW b \in 1 .. Len(heap), Owned(b)
  PROVE  Carriers(b) = IF \E h \in Handles : Load(h, b) = 1 THEN 1 ELSE 0
<1> DEFINE Of(h) == {<<h, "box", k>> : k \in Carrying(box[h], b)}
                    \cup {<<h, "pending", k>> : k \in Carrying(actor[h].pending, b)}
           Live == {x \in Handles : actor[x].state # "dead"}
           All == UNION {Of(h) : h \in Live}
<1>1. Carriers(b) = Cardinality(All)
  BY DEF Carriers
<1>2. ASSUME NEW h \in Handles
      PROVE  /\ Count(box[h], b) \in Nat /\ (Count(box[h], b) = 0 <=> Carrying(box[h], b) = {})
             /\ Count(actor[h].pending, b) \in Nat
             /\ Count(actor[h].pending, b) = 0 <=> Carrying(actor[h].pending, b) = {}
             /\ IsFiniteSet(Carrying(box[h], b)) /\ IsFiniteSet(Carrying(actor[h].pending, b))
  <2>1. box[h] \in Seq(Messages) /\ actor[h].pending \in Seq(Messages)
    BY ActorTypes DEF Shape, Boxes
  <2> QED
    BY <2>1, CarryingFinite
<1>3. ASSUME NEW h \in Handles, Load(h, b) = 0 PROVE Of(h) = {}
  <2>1. Count(box[h], b) = 0 /\ Count(actor[h].pending, b) = 0
    <3>1. Load(h, b) = Count(box[h], b) + Count(actor[h].pending, b)
      BY DEF Load
    <3> HIDE DEF Of
    <3> QED
      BY <1>2, <1>3, <3>1
  <2>2. Carrying(box[h], b) = {} /\ Carrying(actor[h].pending, b) = {}
    BY <1>2, <2>1, Zenon
  <2> QED
    BY <2>2
<1>4. CASE \A h \in Handles : Load(h, b) = 0
  <2>1. All = {}
    BY <1>3, <1>4
  <2>2. Cardinality(All) = 0
    BY <2>1, FS_EmptySet
  <2> QED
    BY <1>1, <1>4, <2>2
<1>5. CASE \E h \in Handles : Load(h, b) = 1 /\ \A k \in Handles \ {h} : Load(k, b) = 0
  <2>1. PICK h \in Handles : Load(h, b) = 1 /\ \A k \in Handles \ {h} : Load(k, b) = 0
    BY <1>5
  <2>2. actor[h].state # "dead"
    <3>1. SUFFICES ASSUME actor[h].state = "dead" PROVE FALSE
      OBVIOUS
    <3>2. box[h] = <<>> /\ actor[h].pending = <<>>
      BY <3>1 DEF Shape, ActorFine, BoxFine, Local
    <3>3. Load(h, b) = 0
      BY <3>2, CountEmpty DEF Load
    <3> QED
      BY <2>1, <3>3
  <2>3. All = Of(h)
    <3>1. \A k \in Handles \ {h} : Of(k) = {}
      BY <1>3, <2>1
    <3>2. h \in Live
      BY <2>2
    <3> HIDE DEF Of
    <3> QED
      BY <3>1, <3>2
  <2>4. \E x : Of(h) = {x}
    <3>1. CASE Count(box[h], b) = 1 /\ Count(actor[h].pending, b) = 0
      <4>1. PICK k : Carrying(box[h], b) = {k}
        BY <1>2, <3>1, FS_Singleton DEF Count
      <4>2. Carrying(actor[h].pending, b) = {}
        BY <1>2, <3>1
      <4>3. Of(h) = {<<h, "box", k>>}
        BY <4>1, <4>2
      <4> QED
        BY <4>3
    <3>2. CASE Count(box[h], b) = 0 /\ Count(actor[h].pending, b) = 1
      <4>1. PICK k : Carrying(actor[h].pending, b) = {k}
        BY <1>2, <3>2, FS_Singleton DEF Count
      <4>2. Carrying(box[h], b) = {}
        BY <1>2, <3>2
      <4>3. Of(h) = {<<h, "pending", k>>}
        BY <4>1, <4>2
      <4> QED
        BY <4>3
    <3>3. PICK c1 \in Nat, c2 \in Nat : c1 = Count(box[h], b) /\ c2 = Count(actor[h].pending, b)
      BY <1>2, Zenon
    <3>4. c1 + c2 = 1
      BY <2>1, <3>3, Zenon DEF Load
    <3>5. (c1 = 1 /\ c2 = 0) \/ (c1 = 0 /\ c2 = 1)
      BY <3>4
    <3> QED
      BY <3>1, <3>2, <3>3, <3>5, Zenon
  <2>5. PICK x : Of(h) = {x}
    BY <2>4
  <2>6. Cardinality({x}) = 1
    BY FS_Singleton
  <2> HIDE DEF All, Of
  <2>7. Cardinality(All) = 1
    BY <2>3, <2>5, <2>6
  <2> QED
    BY <1>1, <2>1, <2>7
<1> QED
  BY <1>4, <1>5 DEF Owned

\* Owners, counted as the property counts them.
LEMMA OwnedCounts ==
  ASSUME Shape, AllOwned
  PROVE  BuffersAreOwned
<1>1. ASSUME NEW b \in 1 .. Len(heap)
      PROVE  Carriers(b) + heap[b].frees + (IF heap[b].dropped = "no" THEN 0 ELSE 1) = 1
  <2>1. Owned(b)
    BY DEF AllOwned
  <2>2. Carriers(b) = IF \E h \in Handles : Load(h, b) = 1 THEN 1 ELSE 0
    BY <2>1, CarriersAre
  <2>3. CASE /\ heap[b].frees = 0 /\ heap[b].dropped = "no"
             /\ \E h \in Handles : Load(h, b) = 1
    BY <2>2, <2>3
  <2>4. CASE /\ \A h \in Handles : Load(h, b) = 0
             /\ \/ heap[b].frees = 1 /\ heap[b].dropped = "no"
                \/ heap[b].frees = 0 /\ heap[b].dropped # "no"
    <3>1. Carriers(b) = 0
      BY <2>2, <2>4
    <3> QED
      BY <2>4, <3>1
  <2> QED
    BY <2>1, <2>3, <2>4 DEF Owned
<1>2. DOMAIN heap = 1 .. Len(heap)
  BY DEF Shape, Globals, Heaps
<1> QED
  BY <1>1, <1>2 DEF BuffersAreOwned

\* Every buffer that luaseri_pack made is carried by exactly one message of an actor that
\* is not dead, or was freed exactly once, or was dropped by a receiver that cannot free it
\* (lsend's "Transfer ownership: receiver frees"), however many actors there are and
\* whichever of them is killed or fails in between.
THEOREM BuffersHaveOneOwner == Spec => []BuffersAreOwned
<1>1. Shape /\ AllOwned => BuffersAreOwned
  BY OwnedCounts
<1> QED
  BY <1>1, ShapeHolds, AllOwnedHolds, PTL

\* If luaseri_unpack gives back every argument list that luaseri_pack accepts, a handler or
\* a caller never sees other values than those that were packed: no buffer is read after
\* unpacktrash, trash or drain_queue has freed it.
THEOREM ReceivedIsPacked ==
  ASSUME \A args \in CanPack : Returns(args)
  PROVE  Spec => []ReceivedAsSent
<1>1. Shape /\ AllOwned => ReceivedAsSent
  <2> SUFFICES ASSUME Shape, AllOwned, NEW b \in DOMAIN heap PROVE heap[b].got \in {"nothing", "packed"}
    BY DEF ReceivedAsSent
  <2>1. b \in 1 .. Len(heap)
    BY DEF Shape, Globals, Heaps
  <2>2. heap[b].args \in Intact
    BY <2>1, HeapEntry DEF Buffers, Intact
  <2> QED
    BY <2>1, <2>2 DEF AllOwned, Owned
<1> QED
  BY <1>1, ShapeHolds, AllOwnedHolds, PTL

-------------------------------------------------------------------------------
(* The cached handle of the logger.                                        *)

\* Unless a registration came in between, error()s that are about to store have found
\* the name as it is.
LoggerInv ==
  raced \/ /\ logger_handle \in {0, logger_name}
           /\ \A k \in 0 .. MaxHandle : errcall[k].pc = "store" => errcall[k].to = logger_name

\* Reports leave the handle of the logger, or nothing.
LEMMA LoggerReports ==
  ASSUME LoggerInv, UNCHANGED <<logger_name, errcall, raced>>,
         logger_handle' = logger_handle \/ logger_handle' = Target
  PROVE  LoggerInv'
BY DEF LoggerInv, Target

\* What Report leaves.
LEMMA ReportIs ==
  ASSUME NEW n, Report(n)
  PROVE  logger_handle' = logger_handle \/ logger_handle' = Target
BY DEF Report

\* error() stores what it has looked up, and a registration in between is noted.
LEMMA LoggerErrors ==
  ASSUME Shape, LoggerInv, NEW h \in 0 .. MaxHandle,
         Error(h) \/ ErrorLoad(h) \/ ErrorFind(h) \/ ErrorStore(h)
  PROVE  LoggerInv'
<1>1. errcall \in [0 .. MaxHandle -> ErrorCalls]
  BY DEF Shape, Globals
<1>2. CASE Error(h)
  BY <1>1, <1>2 DEF Error, LoggerInv, ErrorCalls
<1>3. CASE ErrorLoad(h)
  <2>1. UNCHANGED <<logger_name, logger_handle, raced>>
    BY <1>3 DEF ErrorLoad
  <2>2. PICK pc \in {"find", "idle"}, to \in 0 .. MaxHandle :
          errcall' = [errcall EXCEPT ![h] = [pc |-> pc, to |-> to]]
    <3>1. CASE errcall' = [errcall EXCEPT ![h].pc = "find"]
      <4>1. errcall[h].to \in 0 .. MaxHandle /\ [errcall[h] EXCEPT !.pc = "find"] = [pc |-> "find", to |-> errcall[h].to]
        BY <1>1 DEF ErrorCalls
      <4> QED
        BY <3>1, <4>1
    <3>2. CASE errcall' = [errcall EXCEPT ![h] = NoCall]
      BY <3>2, Numbers DEF NoCall
    <3> QED
      BY <1>3, <3>1, <3>2 DEF ErrorLoad
  <2>3. \A k \in 0 .. MaxHandle : errcall'[k] = IF k = h THEN [pc |-> pc, to |-> to] ELSE errcall[k]
    BY <1>1, <2>2
  <2> QED
    BY <2>1, <2>3 DEF LoggerInv
<1>4. CASE ErrorFind(h)
  BY <1>1, <1>4 DEF ErrorFind, LoggerInv, ErrorCalls
<1>5. CASE ErrorStore(h)
  BY <1>1, <1>5 DEF ErrorStore, LoggerInv, ErrorCalls, NoCall
<1> QED
  BY <1>2, <1>3, <1>4, <1>5

\* Every step keeps the invariant of the cached handle.
LEMMA LoggerNext ==
  ASSUME Shape, LoggerInv, [Next]_vars
  PROVE  LoggerInv'
<1>1. ASSUME UNCHANGED <<logger_name, logger_handle, errcall, raced>> PROVE LoggerInv'
  BY <1>1 DEF LoggerInv
<1>2. ASSUME NEW n, Report(n), UNCHANGED <<logger_name, errcall, raced>> PROVE LoggerInv'
  BY <1>2, ReportIs, LoggerReports
<1>3. CASE UNCHANGED vars
  BY <1>1, <1>3 DEF vars
<1>4. ASSUME NEW h \in 0 .. MaxHandle, Error(h) \/ ErrorLoad(h) \/ ErrorFind(h) \/ ErrorStore(h)
      PROVE  LoggerInv'
  BY <1>4, LoggerErrors
<1>5. ASSUME NEW h \in Handles,
             \/ Send(h) \/ Call(h) \/ Redirect(h) \/ Ret(h) \/ RespondError(h)
             \/ Spawn(h) \/ InitDone(h) \/ SpawnFails(h) \/ Kill(h) \/ Destroy(h)
             \/ DispatchLogger(h) \/ DispatchNoCallback(h) \/ DispatchEarly(h) \/ DispatchError(h)
      PROVE  LoggerInv'
  BY <1>1, <1>5 DEF Send, Call, Redirect, Ret, RespondError, Spawn, InitDone, SpawnFails, Kill, Destroy,
     DispatchLogger, DispatchNoCallback, DispatchEarly, DispatchError
<1>6. ASSUME NEW h \in Handles, InitFails(h) PROVE LoggerInv'
  <2>1. errcall \in [0 .. MaxHandle -> ErrorCalls]
    BY DEF Shape, Globals
  <2> QED
    BY <1>6, <2>1 DEF InitFails, LoggerInv, ErrorCalls
<1>7. ASSUME NEW h \in Handles, KillResets(h) PROVE LoggerInv'
  BY <1>7 DEF KillResets, LoggerInv
<1>8. ASSUME NEW h \in Handles, Register(h) PROVE LoggerInv'
  <2>1. DOMAIN errcall = 0 .. MaxHandle
    BY DEF Shape, Globals
  <2>2. logger_handle' = logger_name' /\ errcall' = errcall
    BY <1>8 DEF Register, register_name
  <2>3. raced' \/ \A k \in 0 .. MaxHandle : errcall[k].pc # "store"
    BY <1>8, <2>1 DEF Register
  <2> QED
    BY <2>2, <2>3 DEF LoggerInv
<1>9. ASSUME NEW h \in Handles, PackRaises(h) PROVE LoggerInv'
  <2>1. Report(2) /\ UNCHANGED <<logger_name, errcall, raced>>
    BY <1>9 DEF PackRaises
  <2> QED
    BY <1>2, <2>1
<1>10. ASSUME NEW h \in Handles, Forget(h) PROVE LoggerInv'
  <2>1. PICK n \in Nat : Report(n)
    BY <1>10, ForgetOf
  <2> QED
    BY <1>2, <1>10, <2>1 DEF Forget
<1>11. ASSUME NEW h \in Handles, DispatchRequest(h) PROVE LoggerInv'
  <2>1. \E n : Report(n)
    BY <1>11, Zenon DEF DispatchRequest, Handle
  <2> QED
    BY <1>2, <1>11, <2>1 DEF DispatchRequest
<1>12. ASSUME NEW h \in Handles, DispatchResponse(h) PROVE LoggerInv'
  <2>1. \E n : Report(n)
    BY <1>12, Zenon DEF DispatchResponse
  <2> QED
    BY <1>2, <1>12, <2>1 DEF DispatchResponse
<1>13. ASSUME NEW h \in Handles, Start(h) PROVE LoggerInv'
  <2>1. \E n : Report(n)
    BY <1>13, Zenon DEF Start, Handle
  <2> QED
    BY <1>2, <1>13, <2>1 DEF Start
<1>14. ASSUME NEW h \in Handles, StartFails(h) PROVE LoggerInv'
  <2>1. Report(2) /\ UNCHANGED <<logger_name, errcall, raced>>
    BY <1>14 DEF StartFails
  <2> QED
    BY <1>2, <2>1
<1> QED
  BY <1>3, <1>4, <1>5, <1>6, <1>7, <1>8, <1>9, <1>10, <1>11, <1>12, <1>13, <1>14 DEF Next

\* The invariant of the cached handle holds.
LEMMA LoggerInvHolds == Spec => []LoggerInv
<1>1. Init => LoggerInv
  BY DEF Init, LoggerInv, NoCall
<1>2. Shape /\ LoggerInv /\ [Next]_vars => LoggerInv'
  BY LoggerNext
<1> QED
  BY <1>1, <1>2, ShapeHolds, PTL DEF Spec

\* error()'s cached logger_handle_ is nothing, or the actor that is registered as "logger",
\* whatever is killed or registered, unless a registration came between the find_name and
\* the store of an error().
THEOREM LoggerIsFresh == Spec => []LoggerHandleFresh
<1>1. LoggerInv => LoggerHandleFresh
  BY DEF LoggerInv, LoggerHandleFresh
<1> QED
  BY <1>1, LoggerInvHolds, PTL

-------------------------------------------------------------------------------
(* What carries a call.                                                    *)

There(k) == actor[k].state \notin {"none", "dead"}

Asks(m, h, s) == NeedsAnswer(m) /\ m.source = h /\ m.session = s
Answers(m, s) == m.type \in {"RESPONSE", "ERROR"} /\ m.session = s

\* The request of session s of h, or the debt, or an answer, is somewhere, or was given up.
Settled(h, s) ==
  \/ \E k \in Handles : There(k) /\ \E m \in Range(box[k]) : Asks(m, h, s)
  \/ \E k \in Handles : There(k) /\ \E m \in Range(actor[k].pending) : Asks(m, h, s)
  \/ \E k \in Handles : There(k) /\ <<h, s>> \in Range(actor[k].debts)
  \/ \E m \in Range(box[h]) : Answers(m, s)
  \/ <<h, s>> \in abandoned

Waiting(h, s) == h \in Handles /\ actor[h].state = "live" /\ s \in actor[h].waits

Carried == \A h \in Handles : \A s \in 1 .. MaxOps : Waiting(h, s) => Settled(h, s)

\* Who waits is live, so it accepts what is pushed to it.
LEMMA WaitingTypes ==
  ASSUME Shape, NEW h, NEW s, Waiting(h, s)
  PROVE  h \in Handles /\ s \in 1 .. MaxOps /\ s # 0 /\ h # 0 /\ Accepting(h)
<1>1. h \in Handles /\ s \in actor[h].waits /\ actor[h].state = "live"
  BY DEF Waiting
<1>2. s \in 1 .. MaxOps
  BY <1>1, ActorTypes DEF Shape
<1> QED
  BY <1>1, <1>2, Numbers DEF Accepting

\* What settles a call stays, or something else settles it.
LEMMA CarriedStep ==
  ASSUME Shape, Carried, abandoned \subseteq abandoned', NEW h \in Handles, NEW s \in 1 .. MaxOps,
         Waiting(h, s) \/ Settled(h, s)',
         \A k \in Handles : There(k) => \A m \in Range(box[k]) : Asks(m, h, s) =>
           (There(k)' /\ m \in Range(box'[k])) \/ Settled(h, s)',
         \A k \in Handles : There(k) => \A m \in Range(actor[k].pending) : Asks(m, h, s) =>
           (There(k)' /\ m \in Range(actor'[k].pending)) \/ Settled(h, s)',
         \A k \in Handles : There(k) /\ <<h, s>> \in Range(actor[k].debts) =>
           (There(k)' /\ <<h, s>> \in Range(actor'[k].debts)) \/ Settled(h, s)',
         \A m \in Range(box[h]) : Answers(m, s) => m \in Range(box'[h]) \/ Settled(h, s)'
  PROVE  Settled(h, s)'
<1>1. CASE Waiting(h, s)
  <2>0. Settled(h, s)
    BY <1>1 DEF Carried
  <2>a. \A m : Asks(m, h, s)' <=> Asks(m, h, s)
    BY DEF Asks, NeedsAnswer
  <2>b. \A m : Answers(m, s)' <=> Answers(m, s)
    BY DEF Answers
  <2>1. CASE \E k \in Handles : There(k) /\ \E m \in Range(box[k]) : Asks(m, h, s)
    BY <2>1, <2>a, Zenon DEF Settled
  <2>2. CASE \E k \in Handles : There(k) /\ \E m \in Range(actor[k].pending) : Asks(m, h, s)
    BY <2>2, <2>a, Zenon DEF Settled
  <2>3. CASE \E k \in Handles : There(k) /\ <<h, s>> \in Range(actor[k].debts)
    BY <2>3, Zenon DEF Settled
  <2>4. CASE \E m \in Range(box[h]) : Answers(m, s)
    BY <2>4, <2>b, Zenon DEF Settled
  <2>5. CASE <<h, s>> \in abandoned
    BY <2>5, Zenon DEF Settled
  <2> QED
    BY <2>0, <2>1, <2>2, <2>3, <2>4, <2>5 DEF Settled
<1> QED
  BY <1>1

BoxesKept == \A k \in Handles : \A m \in Range(box[k]) : m \in Range(box'[k])

\* Steps that take nothing out of a mailbox.
LEMMA CarriedOn ==
  ASSUME Shape, Carried, abandoned \subseteq abandoned', NEW h \in Handles, NEW s \in 1 .. MaxOps,
         Waiting(h, s) \/ Settled(h, s)',
         BoxesKept, NEW x \in Handles, Kept(x), There(x) => There(x)',
         \A m \in Range(actor[x].pending) : m \in Range(actor'[x].pending),
         <<h, s>> \in Range(actor[x].debts) => <<h, s>> \in Range(actor'[x].debts) \/ Settled(h, s)'
  PROVE  Settled(h, s)'
<1>1. \A k \in Handles : There(k) => There(k)'
  BY DEF Kept, There
<1>2. \A k \in Handles : \A m \in Range(actor[k].pending) : m \in Range(actor'[k].pending)
  BY DEF Kept
<1>3. \A k \in Handles : <<h, s>> \in Range(actor[k].debts) => <<h, s>> \in Range(actor'[k].debts) \/ Settled(h, s)'
  <2> HIDE DEF Settled
  <2>1. ASSUME NEW k \in Handles, k # x PROVE actor'[k] = actor[k]
    BY <2>1 DEF Kept
  <2> QED
    BY <2>1, Zenon
<1> QED
  BY <1>1, <1>2, <1>3, CarriedStep DEF BoxesKept

\* A push takes nothing out of a mailbox.
LEMMA PushedKeeps ==
  ASSUME Shape, NEW hp, NEW dest, NEW m \in Messages, push_message(box, hp, dest, m)
  PROVE  BoxesKept
<1>1. PICK bx \in Boxes : bx = box
  BY DEF Shape
<1>2. push_message(bx, hp, dest, m)
  BY <1>1, Zenon
<1>3. CASE /\ \A k \in Handles \ {dest} : box'[k] = bx[k]
           /\ \A x : x \in Range(box'[dest]) <=> x \in Range(bx[dest]) \/ x = m
  BY <1>1, <1>3 DEF BoxesKept
<1>4. CASE Grown(bx, box')
  BY <1>1, <1>4 DEF BoxesKept, Grown
<1> QED
  BY <1>2, <1>3, <1>4, Pushed

\* A request that is pushed is in a mailbox, or answered with an error.
LEMMA RequestPushed ==
  ASSUME Shape, NEW hp, NEW dest, NEW m \in Messages, push_message(box, hp, dest, m),
         NEW h, NEW s, Asks(m, h, s), Accepting(h), \A k \in Handles : There(k) => There(k)'
  PROVE  Settled(h, s)'
<1>1. PICK bx \in Boxes : bx = box
  BY DEF Shape
<1>2. push_message(bx, hp, dest, m)
  BY <1>1, Zenon
<1>3. CASE /\ dest \in Handles /\ Accepting(dest)
           /\ \A x : x \in Range(box'[dest]) <=> x \in Range(bx[dest]) \/ x = m
  <2>1. There(dest)'
    BY <1>3 DEF Accepting, There
  <2>2. m \in Range(box'[dest])
    BY <1>3
  <2>3. Asks(m, h, s)'
    BY DEF Asks, NeedsAnswer
  <2> QED
    BY <1>3, <2>1, <2>2, <2>3, Zenon DEF Settled
<1>4. CASE NeedsAnswer(m) /\ Accepting(m.source) => HasError(box'[m.source], m.session)
  <2>1. HasError(box'[h], s)
    BY <1>4 DEF Asks
  <2>2. PICK e \in Range(box'[h]) : e.type = "ERROR" /\ e.session = s
    BY <2>1 DEF HasError
  <2>3. Answers(e, s)'
    BY <2>2 DEF Answers
  <2> QED
    BY <2>3, Zenon DEF Settled
<1> QED
  BY <1>2, <1>3, <1>4, Pushed

\* An answer that is pushed to an actor that accepts is in its mailbox.
LEMMA AnswerPushed ==
  ASSUME Shape, NEW hp, NEW h \in Handles, NEW m \in Messages, push_message(box, hp, h, m),
         NEW s, Answers(m, s), Accepting(h)
  PROVE  Settled(h, s)'
<1>1. PICK bx \in Boxes : bx = box
  BY DEF Shape
<1>2. push_message(bx, hp, h, m)
  BY <1>1, Zenon
<1>3. \A x : x \in Range(box'[h]) <=> x \in Range(bx[h]) \/ x = m
  BY <1>2, Pushed
<1>4. m \in Range(box'[h]) /\ Answers(m, s)'
  BY <1>3 DEF Answers
<1> QED
  BY <1>4, Zenon DEF Settled

\* A wait after the step is a wait before it.
LEMMA WaitedBefore ==
  ASSUME NEW x \in Handles, Kept(x), NEW h, NEW s, Waiting(h, s)',
         h = x => actor'[x].state = actor[x].state /\ (s \in actor'[x].waits => s \in actor[x].waits)
  PROVE  Waiting(h, s)
BY DEF Waiting, Kept

\* Steps that change nothing of the actors.
LEMMA CarriedQuiet ==
  ASSUME Shape, Carried, UNCHANGED <<actor, abandoned>>, BoxesKept,
         NEW h \in Handles, NEW s \in 1 .. MaxOps, Waiting(h, s)'
  PROVE  Settled(h, s)'
<1>1. Kept(1) /\ 1 \in Handles
  BY Numbers DEF Kept
<1>2. Waiting(h, s)
  BY DEF Waiting
<1>3. There(1) => There(1)'
  BY DEF There
<1> QED
  BY <1>1, <1>2, <1>3, CarriedOn

\* A step that pays one debt.
LEMMA CarriedPays ==
  ASSUME Shape, Carried, abandoned \subseteq abandoned', BoxesKept, NEW x \in Handles,
         NEW k \in DOMAIN actor[x].debts, actor' = [actor EXCEPT ![x].debts = RemoveAt(@, k)],
         NEW h \in Handles, NEW s \in 1 .. MaxOps, Waiting(h, s)',
         <<h, s>> = actor[x].debts[k] => Settled(h, s)'
  PROVE  Settled(h, s)'
<1>1. /\ Kept(x) /\ Alike(actor'[x], actor[x])
      /\ \A d \in Range(actor[x].debts) : d = actor[x].debts[k] \/ d \in Range(actor'[x].debts)
  BY DebtPaid
<1>2. Waiting(h, s)
  BY <1>1, WaitedBefore DEF Alike
<1>3. There(x) => There(x)'
  BY <1>1 DEF There, Alike
<1>4. \A m \in Range(actor[x].pending) : m \in Range(actor'[x].pending)
  BY <1>1 DEF Alike
<1>5. <<h, s>> \in Range(actor[x].debts) => <<h, s>> \in Range(actor'[x].debts) \/ Settled(h, s)'
  <2> HIDE DEF Settled
  <2> QED
    BY <1>1, Zenon
<1> QED
  BY <1>1, <1>2, <1>3, <1>4, <1>5, CarriedOn

\* lsend leaves each call settled.
LEMMA CarriedSend ==
  ASSUME Shape, Shape', Carried, NEW x \in Handles, Send(x),
         NEW h \in Handles, NEW s \in 1 .. MaxOps, Waiting(h, s)'
  PROVE  Settled(h, s)'
<1>1. PICK dest \in Handles, type \in {"LUA", "CLIENT"}, args \in CanPack :
        /\ MaySend(type)
        /\ push_message(box, Append(heap, Packed(args)), dest, Message(x, 0, type, Next_buffer))
  BY DEF Send
<1>2. Len(heap) \in Nat /\ ops \in Nat /\ MaxOps \in Nat
  BY Numbers DEF Shape, Globals, Heaps
<1>3. ops + Len(heap) < MaxOps
  BY <1>1, <1>2 DEF MaySend
<1>a. Next_buffer \in 0 .. MaxOps /\ x \in 0 .. MaxHandle /\ 0 \in 0 .. MaxOps
  BY <1>3, NextBufferIs, Numbers
<1>4. PICK m \in Messages : m = Message(x, 0, type, Next_buffer)
  BY <1>a, MessageType
<1>5. PICK hp : hp = Append(heap, Packed(args))
  OBVIOUS
<1>6. push_message(box, hp, dest, m)
  BY <1>1, <1>4, <1>5, Zenon
<1>7. BoxesKept
  BY <1>6, PushedKeeps
<1> QED
  BY <1>7, CarriedQuiet DEF Send

\* skynet.call leaves each call settled.
LEMMA CarriedCall ==
  ASSUME Shape, Shape', Carried, NEW x \in Handles, Call(x),
         NEW h \in Handles, NEW s \in 1 .. MaxOps, Waiting(h, s)'
  PROVE  Settled(h, s)'
<1>1. PICK t : t = actor[x].sessions + 1
  OBVIOUS
<1>2. PICK dest \in Handles, type \in {"LUA", "CLIENT"}, args \in CanPack :
        /\ MaySend(type)
        /\ push_message(box, Append(heap, Packed(args)), dest, Message(x, t, type, Next_buffer))
  BY <1>1 DEF Call
<1>3. Len(heap) \in Nat /\ ops \in Nat /\ MaxOps \in Nat
  BY Numbers DEF Shape, Globals, Heaps
<1>4. ops + Len(heap) < MaxOps
  BY <1>2, <1>3 DEF MaySend
<1>5. /\ Kept(x) /\ actor'[x].pending = actor[x].pending /\ actor'[x].debts = actor[x].debts
      /\ actor'[x].state = actor[x].state /\ actor'[x].waits = actor[x].waits \cup {t}
      /\ t \in 1 .. MaxOps
  BY <1>1, CallSets
<1>6. t \in 0 .. MaxOps /\ t # 0 /\ Next_buffer \in 0 .. MaxOps /\ x \in 0 .. MaxHandle /\ x # 0
  BY <1>4, <1>5, NextBufferIs, Numbers
<1>7. PICK m \in Messages : m = Message(x, t, type, Next_buffer) /\ m.source = x /\ m.session = t /\ m.type = type
  BY <1>6, MessageType
<1>8. PICK hp : hp = Append(heap, Packed(args))
  OBVIOUS
<1>9. push_message(box, hp, dest, m)
  BY <1>2, <1>7, <1>8, Zenon
<1>10. BoxesKept
  BY <1>9, PushedKeeps
<1>11. \A k \in Handles : There(k) => There(k)'
  BY <1>5 DEF There, Kept
<1>12. Waiting(h, s) \/ Settled(h, s)'
  <2>1. CASE h = x /\ s = t
    <3>1. Asks(m, h, s)
      BY <1>6, <1>7, <2>1 DEF Asks, NeedsAnswer
    <3>2. Accepting(h)
      BY <1>5, <2>1 DEF Waiting, Accepting
    <3> QED
      BY <1>9, <1>11, <3>1, <3>2, RequestPushed
  <2>2. CASE ~(h = x /\ s = t)
    <3>1. Waiting(h, s)
      BY <1>5, <2>2, WaitedBefore
    <3> QED
      BY <3>1
  <2> QED
    BY <2>1, <2>2
<1>13. abandoned \subseteq abandoned'
  BY DEF Call
<1> QED
  BY <1>5, <1>10, <1>11, <1>12, <1>13, CarriedOn

\* lredirect leaves each call settled.
LEMMA CarriedRedirect ==
  ASSUME Shape, Shape', Carried, NEW x \in Handles, Redirect(x),
         NEW h \in Handles, NEW s \in 1 .. MaxOps, Waiting(h, s)'
  PROVE  Settled(h, s)'
<1>1. PICK k \in DOMAIN actor[x].debts, dest \in Handles, args \in CanPack, ignore \in BOOLEAN,
            m \in Messages :
           /\ push_message(box, Append(heap, Packed(args)), dest, m)
           /\ m.source = actor[x].debts[k][1] /\ m.session = actor[x].debts[k][2]
           /\ m.type = "LUA"
           /\ actor' = IF ignore THEN [actor EXCEPT ![x].debts = RemoveAt(@, k)] ELSE actor
  BY RedirectOf
<1>2. PICK hp : hp = Append(heap, Packed(args))
  OBVIOUS
<1>3. push_message(box, hp, dest, m)
  BY <1>1, <1>2, Zenon
<1>4. BoxesKept
  BY <1>3, PushedKeeps
<1>5. abandoned' = abandoned
  BY DEF Redirect
<1>6. CASE ~ignore
  BY <1>1, <1>4, <1>5, <1>6, CarriedQuiet
<1>7. CASE ignore
  <2>1. actor' = [actor EXCEPT ![x].debts = RemoveAt(@, k)]
    BY <1>1, <1>7
  <2>2. Kept(x) /\ Alike(actor'[x], actor[x])
    BY <2>1, DebtPaid
  <2>3. \A y \in Handles : There(y) => There(y)'
    BY <2>2 DEF There, Kept, Alike
  <2>4. Waiting(h, s)
    BY <2>2, WaitedBefore DEF Alike
  <2>5. Accepting(h) /\ h # 0 /\ s # 0
    BY <2>4, WaitingTypes
  <2>6. <<h, s>> = actor[x].debts[k] => Settled(h, s)'
    <3>1. <<h, s>> = actor[x].debts[k] => Asks(m, h, s)
      BY <1>1, <2>5 DEF Asks, NeedsAnswer
    <3>2. Asks(m, h, s) => Settled(h, s)'
      BY <1>3, <2>3, <2>5, RequestPushed
    <3> QED
      BY <3>1, <3>2
  <2> QED
    BY <1>4, <1>5, <2>1, <2>6, CarriedPays
<1> QED
  BY <1>6, <1>7

\* skynet.ret leaves each call settled.
LEMMA CarriedRet ==
  ASSUME Shape, Shape', Carried, NEW x \in Handles, Ret(x),
         NEW h \in Handles, NEW s \in 1 .. MaxOps, Waiting(h, s)'
  PROVE  Settled(h, s)'
<1>1. PICK k \in DOMAIN actor[x].debts, args \in CanPack, m \in Messages :
           /\ m.source = x /\ m.session = actor[x].debts[k][2]
           /\ m.type = "RESPONSE" /\ m.data = Len(heap) + 1
           /\ \/ /\ actor[x].debts[k][2] # 0
                 /\ push_message(box, Append(heap, Packed(args)), actor[x].debts[k][1], m)
              \/ /\ actor[x].debts[k][2] = 0
                 /\ heap' = Freed(Append(heap, Packed(args)), <<m>>) /\ UNCHANGED box
           /\ actor' = [actor EXCEPT ![x].debts = RemoveAt(@, k)]
  BY RetOf
<1>2. abandoned' = abandoned
  BY DEF Ret
<1>3. Kept(x) /\ Alike(actor'[x], actor[x])
  BY <1>1, DebtPaid
<1>4. Waiting(h, s)
  BY <1>3, WaitedBefore DEF Alike
<1>5. Accepting(h) /\ s # 0
  BY <1>4, WaitingTypes
<1>6. CASE actor[x].debts[k][2] = 0 /\ UNCHANGED box
  <2>1. BoxesKept
    BY <1>6 DEF BoxesKept
  <2>2. <<h, s>> # actor[x].debts[k]
    BY <1>5, <1>6
  <2> QED
    BY <1>1, <1>2, <2>1, <2>2, CarriedPays
<1>7. CASE push_message(box, Append(heap, Packed(args)), actor[x].debts[k][1], m)
  <2>1. PICK hp, dest : hp = Append(heap, Packed(args)) /\ dest = actor[x].debts[k][1]
    OBVIOUS
  <2>2. push_message(box, hp, dest, m)
    BY <1>7, <2>1, Zenon
  <2>3. BoxesKept
    BY <2>2, PushedKeeps
  <2>4. <<h, s>> = actor[x].debts[k] => Settled(h, s)'
    <3>1. SUFFICES ASSUME <<h, s>> = actor[x].debts[k] PROVE Settled(h, s)'
      OBVIOUS
    <3>2. dest = h /\ Answers(m, s)
      BY <1>1, <2>1, <3>1 DEF Answers
    <3> QED
      BY <1>5, <2>2, <3>2, AnswerPushed
  <2> QED
    BY <1>1, <1>2, <2>3, <2>4, CarriedPays
<1> QED
  BY <1>1, <1>6, <1>7

\* An error response leaves each call settled.
LEMMA CarriedRespondError ==
  ASSUME Shape, Shape', Carried, NEW x \in Handles, RespondError(x),
         NEW h \in Handles, NEW s \in 1 .. MaxOps, Waiting(h, s)'
  PROVE  Settled(h, s)'
<1>1. PICK k \in DOMAIN actor[x].debts, m \in Messages :
           /\ m.source = x /\ m.session = actor[x].debts[k][2] /\ Note(m)
           /\ push_message(box, heap, actor[x].debts[k][1], m)
           /\ actor' = [actor EXCEPT ![x].debts = RemoveAt(@, k)]
  BY RespondErrorOf
<1>2. abandoned' = abandoned
  BY DEF RespondError
<1>3. Kept(x) /\ Alike(actor'[x], actor[x])
  BY <1>1, DebtPaid
<1>4. Waiting(h, s)
  BY <1>3, WaitedBefore DEF Alike
<1>5. Accepting(h) /\ s # 0
  BY <1>4, WaitingTypes
<1>6. PICK hp, dest : hp = heap /\ dest = actor[x].debts[k][1]
  OBVIOUS
<1>7. push_message(box, hp, dest, m)
  BY <1>1, <1>6, Zenon
<1>8. BoxesKept
  BY <1>7, PushedKeeps
<1>9. <<h, s>> = actor[x].debts[k] => Settled(h, s)'
  <2>1. SUFFICES ASSUME <<h, s>> = actor[x].debts[k] PROVE Settled(h, s)'
    OBVIOUS
  <2>2. dest = h /\ Answers(m, s)
    BY <1>1, <1>6, <2>1 DEF Answers, Note
  <2> QED
    BY <1>5, <1>7, <2>2, AnswerPushed
<1> QED
  BY <1>1, <1>2, <1>8, <1>9, CarriedPays

\* Notes take nothing out of a mailbox.
LEMMA GrownKeeps ==
  ASSUME Grown(box, box')
  PROVE  BoxesKept
BY DEF Grown, BoxesKept

\* Each step that only reports leaves each call settled.
LEMMA CarriedReports ==
  ASSUME Shape, Shape', Carried, NEW x \in Handles, PackRaises(x) \/ Forget(x),
         NEW h \in Handles, NEW s \in 1 .. MaxOps, Waiting(h, s)'
  PROVE  Settled(h, s)'
<1>1. CASE PackRaises(x)
  <2>1. Grown(box, box')
    BY <1>1, ShrunkSame, ReportedFlow, Numbers DEF PackRaises
  <2> QED
    BY <1>1, <2>1, GrownKeeps, CarriedQuiet DEF PackRaises
<1>2. CASE Forget(x)
  <2>1. PICK k \in DOMAIN actor[x].debts, n \in Nat :
           /\ actor' = [actor EXCEPT ![x].debts = RemoveAt(@, k)]
           /\ abandoned' = IF actor[x].debts[k][2] # 0 THEN abandoned \cup {actor[x].debts[k]} ELSE abandoned
           /\ box' = Reported(box, x, n) /\ Report(n)
    BY <1>2, ForgetOf
  <2>2. BoxesKept
    <3>1. Grown(box, box')
      BY <2>1, ShrunkSame, ReportedFlow, Numbers
    <3> QED
      BY <3>1, GrownKeeps
  <2>3. <<h, s>> = actor[x].debts[k] => Settled(h, s)'
    <3>1. SUFFICES ASSUME <<h, s>> = actor[x].debts[k] PROVE Settled(h, s)'
      OBVIOUS
    <3>2. actor[x].debts[k][2] # 0
      BY <3>1
    <3>3. <<h, s>> \in abandoned'
      BY <2>1, <3>1, <3>2
    <3> QED
      BY <3>3, Zenon DEF Settled
  <2>4. abandoned \subseteq abandoned'
    BY <2>1
  <2> QED
    BY <2>1, <2>2, <2>3, <2>4, CarriedPays
<1> QED
  BY <1>1, <1>2

\* Each step of error() leaves each call settled.
LEMMA CarriedErrors ==
  ASSUME Shape, Shape', Carried, NEW x \in 0 .. MaxHandle,
         Error(x) \/ ErrorLoad(x) \/ ErrorFind(x) \/ ErrorStore(x),
         NEW h \in Handles, NEW s \in 1 .. MaxOps, Waiting(h, s)'
  PROVE  Settled(h, s)'
<1>1. PICK text \in Messages : text = Text(x)
  BY TextType, Zenon
<1>2. UNCHANGED <<actor, abandoned>>
  BY DEF Error, ErrorLoad, ErrorFind, ErrorStore
<1>3. ASSUME NEW dest, push_message(box, heap, dest, Text(x)) PROVE BoxesKept
  <2>1. PICK hp : hp = heap
    OBVIOUS
  <2>2. push_message(box, hp, dest, text)
    BY <1>1, <1>3, <2>1, Zenon
  <2> QED
    BY <2>2, PushedKeeps
<1>4. ASSUME UNCHANGED box PROVE BoxesKept
  BY <1>4 DEF BoxesKept
<1>5. CASE Error(x)
  BY <1>2, <1>4, <1>5, CarriedQuiet DEF Error
<1>6. CASE ErrorFind(x)
  BY <1>2, <1>4, <1>6, CarriedQuiet DEF ErrorFind
<1>7. CASE ErrorLoad(x)
  <2>1. BoxesKept
    BY <1>3, <1>4, <1>7 DEF ErrorLoad
  <2> QED
    BY <1>2, <2>1, CarriedQuiet
<1>8. CASE ErrorStore(x)
  <2>1. BoxesKept
    BY <1>3, <1>8 DEF ErrorStore
  <2> QED
    BY <1>2, <2>1, CarriedQuiet
<1> QED
  BY <1>5, <1>6, <1>7, <1>8

\* Each other step of an actor's life leaves each call settled.
LEMMA CarriedLives ==
  ASSUME Shape, Shape', Carried, NEW x \in Handles,
         \/ Register(x) \/ Spawn(x) \/ InitDone(x) \/ InitFails(x) \/ Kill(x) \/ KillResets(x)
         \/ UNCHANGED vars,
         NEW h \in Handles, NEW s \in 1 .. MaxOps, Waiting(h, s)'
  PROVE  Settled(h, s)'
<1>1. BoxesKept /\ abandoned' = abandoned
  BY DEF Register, Spawn, InitDone, InitFails, Kill, KillResets, vars, BoxesKept
<1>2. CASE Register(x) \/ UNCHANGED vars
  BY <1>1, <1>2, CarriedQuiet DEF Register, vars
<1>3. CASE Spawn(x)
  <2>1. Kept(x) /\ actor[x].state = "none" /\ actor'[x].state = "init"
    BY <1>3, SpawnSets
  <2>2. Waiting(h, s)
    BY <2>1 DEF Waiting, Kept
  <2>3. \A k \in Handles : There(k) => k # x /\ There(k)' /\ actor'[k] = actor[k]
    BY <2>1 DEF There, Kept
  <2> HIDE DEF Settled
  <2>4. /\ \A k \in Handles : There(k) => \A m \in Range(box[k]) : Asks(m, h, s) =>
             (There(k)' /\ m \in Range(box'[k])) \/ Settled(h, s)'
        /\ \A k \in Handles : There(k) => \A m \in Range(actor[k].pending) : Asks(m, h, s) =>
             (There(k)' /\ m \in Range(actor'[k].pending)) \/ Settled(h, s)'
        /\ \A k \in Handles : There(k) /\ <<h, s>> \in Range(actor[k].debts) =>
             (There(k)' /\ <<h, s>> \in Range(actor'[k].debts)) \/ Settled(h, s)'
        /\ \A m \in Range(box[h]) : Answers(m, s) => m \in Range(box'[h]) \/ Settled(h, s)'
    BY <1>1, <2>3 DEF BoxesKept
  <2> QED
    BY <1>1, <2>2, <2>4, CarriedStep
<1>4. ASSUME Kept(x), Moved(actor'[x], actor[x]), There(x)', Waiting(h, s)
      PROVE  Settled(h, s)'
  <2>1. /\ \A m \in Range(actor[x].pending) : m \in Range(actor'[x].pending)
        /\ <<h, s>> \in Range(actor[x].debts) => <<h, s>> \in Range(actor'[x].debts)
    BY <1>4 DEF Moved
  <2> QED
    BY <1>1, <1>4, <2>1, CarriedOn
<1>5. CASE InitDone(x)
  <2>1. Kept(x) /\ actor[x].state = "init" /\ actor'[x].state = "live" /\ Moved(actor'[x], actor[x])
    BY <1>5, InitDoneSets
  <2>2. actor[x].waits = {}
    <3>1. ActorFine(x)
      BY DEF Shape
    <3> QED
      BY <2>1, <3>1 DEF ActorFine, Local
  <2>3. Waiting(h, s)
    BY <2>1, <2>2 DEF Waiting, Kept, Moved
  <2> QED
    BY <1>4, <2>1, <2>3 DEF There
<1>6. CASE InitFails(x) \/ Kill(x) \/ KillResets(x)
  <2>1. PICK t \in {"failed", "erased", "releasing"} : actor' = [actor EXCEPT ![x].state = t]
    BY <1>6 DEF InitFails, Kill, KillResets
  <2>2. Kept(x) /\ Moved(actor'[x], actor[x]) /\ actor'[x].state = t
    BY <2>1, StateSet
  <2>3. Waiting(h, s)
    BY <2>2 DEF Waiting, Kept
  <2> QED
    BY <1>4, <2>2, <2>3 DEF There
<1> QED
  BY <1>2, <1>3, <1>5, <1>6

\* What a destroyed actor had is answered with errors, or given up.
LEMMA CarriedDestroys ==
  ASSUME Shape, Shape', Carried, NEW x \in Handles, SpawnFails(x) \/ Destroy(x),
         NEW h \in Handles, NEW s \in 1 .. MaxOps, Waiting(h, s)'
  PROVE  Settled(h, s)'
<1>1. actor[x].state \in {"failed", "releasing"} /\ Destroyed(x)
  BY DEF SpawnFails, Destroy
<1>2. /\ Kept(x) /\ actor'[x].state = "dead"
      /\ Grown(Emptied(x), box')
      /\ \A m \in Range(box[x]) : NeedsAnswer(m) /\ Accepting(m.source) =>
           HasError(box'[m.source], m.session)
      /\ abandoned' = abandoned \cup Requests(actor[x].pending)
                                \cup {d \in Range(actor[x].debts) : d[2] # 0}
  BY <1>1, DestroyedIs
<1>3. h # x /\ Waiting(h, s)
  BY <1>2 DEF Waiting, Kept
<1>4. Accepting(h) /\ s # 0
  BY <1>3, WaitingTypes
<1>5. \A k \in Handles \ {x} : \A m \in Range(box[k]) : m \in Range(box'[k])
  <2>1. \A k \in Handles \ {x} : Emptied(x)[k] = box[k]
    BY <1>1, EmptiedIs
  <2> QED
    BY <1>2, <2>1 DEF Grown
<1>6. \A k \in Handles \ {x} : (There(k) => There(k)') /\ actor'[k] = actor[k]
  BY <1>2 DEF There, Kept
<1>7. ASSUME NEW m \in Range(box[x]), Asks(m, h, s) PROVE Settled(h, s)'
  <2>1. HasError(box'[h], s)
    BY <1>2, <1>4, <1>7 DEF Asks
  <2>2. PICK e \in Range(box'[h]) : Answers(e, s)'
    BY <2>1 DEF HasError, Answers
  <2> QED
    BY <2>2, Zenon DEF Settled
<1>8. ASSUME NEW m \in Range(actor[x].pending), Asks(m, h, s) PROVE Settled(h, s)'
  <2>1. <<h, s>> \in Requests(actor[x].pending)
    BY <1>8 DEF Requests, Asks
  <2>2. <<h, s>> \in abandoned'
    BY <1>2, <2>1
  <2> QED
    BY <2>2, Zenon DEF Settled
<1>9. ASSUME <<h, s>> \in Range(actor[x].debts) PROVE Settled(h, s)'
  <2>1. <<h, s>> \in abandoned'
    BY <1>2, <1>4, <1>9
  <2> QED
    BY <2>1, Zenon DEF Settled
<1> HIDE DEF Settled
<1>10. /\ \A k \in Handles : There(k) => \A m \in Range(box[k]) : Asks(m, h, s) =>
            (There(k)' /\ m \in Range(box'[k])) \/ Settled(h, s)'
       /\ \A k \in Handles : There(k) => \A m \in Range(actor[k].pending) : Asks(m, h, s) =>
            (There(k)' /\ m \in Range(actor'[k].pending)) \/ Settled(h, s)'
       /\ \A k \in Handles : There(k) /\ <<h, s>> \in Range(actor[k].debts) =>
            (There(k)' /\ <<h, s>> \in Range(actor'[k].debts)) \/ Settled(h, s)'
       /\ \A m \in Range(box[h]) : Answers(m, s) => m \in Range(box'[h]) \/ Settled(h, s)'
  BY <1>3, <1>5, <1>6, <1>7, <1>8, <1>9
<1>11. abandoned \subseteq abandoned'
  BY <1>2
<1> QED
  BY <1>3, <1>10, <1>11, CarriedStep

\* Steps that take the first message out of a mailbox.
LEMMA CarriedPops ==
  ASSUME Shape, Carried, abandoned \subseteq abandoned', NEW x \in Handles, CanDispatch(x),
         NEW m, m = Head(box[x]), Grown(Popped(x), box'), Kept(x),
         actor'[x].state = actor[x].state,
         \A p \in Range(actor[x].pending) : p \in Range(actor'[x].pending),
         \A d \in Range(actor[x].debts) : d \in Range(actor'[x].debts),
         NEW h \in Handles, NEW s \in 1 .. MaxOps, Waiting(h, s),
         Asks(m, h, s) => Settled(h, s)',
         h = x /\ Answers(m, s) => Settled(h, s)'
  PROVE  Settled(h, s)'
<1>1. /\ \A k \in Handles \ {x} : Popped(x)[k] = box[k]
      /\ \A y : y \in Range(box[x]) <=> y = m \/ y \in Range(Popped(x)[x])
  BY PoppedIs
<1>2. /\ \A k \in Handles \ {x} : \A y \in Range(box[k]) : y \in Range(box'[k])
      /\ \A y \in Range(box[x]) : y = m \/ y \in Range(box'[x])
  BY <1>1 DEF Grown
<1>3. \A k \in Handles : There(k) => There(k)'
  BY DEF Kept, There
<1>4. \A k \in Handles : \A y \in Range(actor[k].pending) : y \in Range(actor'[k].pending)
  BY DEF Kept
<1>5. \A k \in Handles : \A d \in Range(actor[k].debts) : d \in Range(actor'[k].debts)
  BY DEF Kept
<1> HIDE DEF Settled
<1>6. /\ \A k \in Handles : There(k) => \A y \in Range(box[k]) : Asks(y, h, s) =>
           (There(k)' /\ y \in Range(box'[k])) \/ Settled(h, s)'
      /\ \A y \in Range(box[h]) : Answers(y, s) => y \in Range(box'[h]) \/ Settled(h, s)'
  BY <1>2, <1>3
<1>7. /\ \A k \in Handles : There(k) => \A y \in Range(actor[k].pending) : Asks(y, h, s) =>
           (There(k)' /\ y \in Range(actor'[k].pending)) \/ Settled(h, s)'
      /\ \A k \in Handles : There(k) /\ <<h, s>> \in Range(actor[k].debts) =>
           (There(k)' /\ <<h, s>> \in Range(actor'[k].debts)) \/ Settled(h, s)'
  BY <1>3, <1>4, <1>5
<1> QED
  BY <1>6, <1>7, CarriedStep

\* A message that its receiver cannot handle.
LEMMA CarriedDispatchSimple ==
  ASSUME Shape, Shape', Carried, NEW x \in Handles, DispatchLogger(x) \/ DispatchNoCallback(x),
         NEW h \in Handles, NEW s \in 1 .. MaxOps, Waiting(h, s)'
  PROVE  Settled(h, s)'
<1>1. /\ CanDispatch(x) /\ UNCHANGED actor /\ box' = Popped(x)
      /\ actor[x].kind = "logger" \/ ~actor[x].callback
  BY DEF DispatchLogger, DispatchNoCallback
<1>2. /\ Popped(x) \in Boxes /\ Head(box[x]) \in Messages
  BY <1>1, PoppedIs
<1>3. PICK m \in Messages : m = Head(box[x])
  BY <1>2
<1>4. abandoned' = abandoned \cup Requests(<<m>>)
  BY <1>3 DEF DispatchLogger, DispatchNoCallback
<1>5. NeedsAnswer(m) => <<m.source, m.session>> \in Requests(<<m>>)
  BY OneRequest
<1>6. Waiting(h, s)
  BY <1>1 DEF Waiting
<1>7. h # x
  <2>1. Local(actor[x])
    BY DEF Shape, ActorFine
  <2> QED
    BY <1>1, <1>6, <2>1 DEF Local, Waiting
<1>8. Asks(m, h, s) => Settled(h, s)'
  <2>1. Asks(m, h, s) => <<h, s>> \in abandoned'
    BY <1>4, <1>5 DEF Asks
  <2> QED
    BY <2>1, Zenon DEF Settled
<1>9. Grown(Popped(x), box')
  BY <1>1, <1>2, GrownSame
<1>10. Kept(x) /\ abandoned \subseteq abandoned'
  BY <1>1, <1>4 DEF Kept
<1> HIDE DEF Settled
<1> QED
  BY <1>1, <1>3, <1>6, <1>7, <1>8, <1>9, <1>10, CarriedPops

\* A request before the start leaves each call settled.
LEMMA CarriedDispatchEarly ==
  ASSUME Shape, Shape', Carried, NEW x \in Handles, DispatchEarly(x),
         NEW h \in Handles, NEW s \in 1 .. MaxOps, Waiting(h, s)'
  PROVE  Settled(h, s)'
<1>1. PICK m \in Messages :
           /\ m = Head(box[x]) /\ CanDispatch(x) /\ box' = Popped(x)
           /\ m.type \in {"LUA", "CLIENT"}
           /\ heap' = IF m = Visible(m) THEN heap ELSE Dropped(heap, <<m>>, "type")
           /\ heap' \in Heaps /\ Len(heap') = Len(heap)
           /\ actor' \in [Handles -> Actors] /\ Kept(x)
           /\ actor'[x].kind = actor[x].kind /\ actor'[x].state = actor[x].state
           /\ actor'[x].callback = actor[x].callback /\ actor'[x].waits = actor[x].waits
           /\ actor'[x].sessions = actor[x].sessions /\ actor'[x].debts = actor[x].debts
           /\ \A y : y \in Range(actor'[x].pending) <=> y \in Range(actor[x].pending) \/ y = Visible(m)
           /\ \A b : Count(actor'[x].pending, b)
                       = Count(actor[x].pending, b) + (IF Visible(m).data = b THEN 1 ELSE 0)
  BY EarlyIs
<1>2. Waiting(h, s)
  BY <1>1, WaitedBefore
<1>3. Grown(Popped(x), box')
  BY <1>1, PoppedIs, GrownSame
<1>4. Asks(m, h, s) => Settled(h, s)'
  <2>1. SUFFICES ASSUME Asks(m, h, s) PROVE Settled(h, s)'
    OBVIOUS
  <2>2. PICK v \in Messages : /\ v = Visible(m) /\ v.source = m.source /\ v.session = m.session
                              /\ NeedsAnswer(v) <=> NeedsAnswer(m)
    BY VisibleIs
  <2>3. Asks(v, h, s)'
    BY <2>1, <2>2 DEF Asks, NeedsAnswer
  <2>4. There(x)' /\ v \in Range(actor'[x].pending)
    BY <1>1, <2>2 DEF There, CanDispatch
  <2> QED
    BY <2>3, <2>4, Zenon DEF Settled
<1>5. ~Answers(m, s)
  BY <1>1 DEF Answers
<1>6. abandoned' = abandoned
  BY DEF DispatchEarly
<1> HIDE DEF Settled
<1> QED
  BY <1>1, <1>2, <1>3, <1>4, <1>5, <1>6, CarriedPops

\* A request that is handled leaves each call settled.
LEMMA CarriedDispatchRequest ==
  ASSUME Shape, Shape', Carried, NEW x \in Handles, DispatchRequest(x),
         NEW h \in Handles, NEW s \in 1 .. MaxOps, Waiting(h, s)'
  PROVE  Settled(h, s)'
<1>1. PICK m \in Messages, v \in Messages, hp \in Heaps :
           /\ m = Head(box[x]) /\ v = Visible(m) /\ CanDispatch(x)
           /\ m.type \in {"LUA", "CLIENT"}
           /\ hp = (IF m = v THEN heap ELSE Dropped(heap, <<m>>, "type"))
           /\ Len(hp) = Len(heap)
           /\ heap' = unpacktrash(hp, <<v>>, "LUA")
           /\ heap' \in Heaps /\ Len(heap') = Len(heap)
           /\ actor' \in [Handles -> Actors] /\ Kept(x) /\ Alike(actor'[x], actor[x])
           /\ \A d \in Range(actor'[x].debts) :
                d \in Range(actor[x].debts) \/ (m.type = "LUA" /\ d = <<m.source, m.session>>)
           /\ \A d \in Range(actor[x].debts) : d \in Range(actor'[x].debts)
           /\ m.type = "LUA" => <<m.source, m.session>> \in Range(actor'[x].debts)
           /\ Flow /\ Grown(Popped(x), box')
           /\ m.type # "LUA" /\ NeedsAnswer(m) /\ Accepting(m.source) =>
                HasError(box'[m.source], m.session)
           /\ logger_handle' \in 0 .. MaxHandle
  BY RequestIs
<1>2. Waiting(h, s)
  BY <1>1, WaitedBefore DEF Alike
<1>3. Accepting(h)
  BY <1>2, WaitingTypes
<1>4. Asks(m, h, s) => Settled(h, s)'
  <2>1. SUFFICES ASSUME Asks(m, h, s) PROVE Settled(h, s)'
    OBVIOUS
  <2>2. NeedsAnswer(m) /\ m.source = h /\ m.session = s
    BY <2>1 DEF Asks
  <2>3. CASE m.type = "LUA"
    <3>1. There(x)' /\ <<h, s>> \in Range(actor'[x].debts)
      BY <1>1, <2>2, <2>3 DEF There, CanDispatch, Alike
    <3> QED
      BY <3>1, Zenon DEF Settled
  <2>4. CASE m.type # "LUA"
    <3>1. HasError(box'[h], s)
      BY <1>1, <1>3, <2>2, <2>4
    <3>2. PICK e \in Range(box'[h]) : Answers(e, s)'
      BY <3>1 DEF HasError, Answers
    <3> QED
      BY <3>2, Zenon DEF Settled
  <2> QED
    BY <2>3, <2>4
<1>5. ~Answers(m, s)
  BY <1>1 DEF Answers
<1>6. /\ abandoned \subseteq abandoned' /\ actor'[x].state = actor[x].state
      /\ actor'[x].pending = actor[x].pending
  BY <1>1 DEF DispatchRequest, Alike
<1> HIDE DEF Settled
<1> QED
  BY <1>1, <1>2, <1>4, <1>5, <1>6, CarriedPops

\* An answer ends the call that waits for it.
LEMMA CarriedDispatchAnswer ==
  ASSUME Shape, Shape', Carried, NEW x \in Handles, DispatchResponse(x) \/ DispatchError(x),
         NEW h \in Handles, NEW s \in 1 .. MaxOps, Waiting(h, s)'
  PROVE  Settled(h, s)'
<1>1. CanDispatch(x) /\ abandoned' = abandoned
  BY DEF DispatchResponse, DispatchError
<1>2. PICK m \in Messages : m = Head(box[x])
  BY <1>1, PoppedIs
<1>3. Popped(x) \in Boxes
  BY <1>1, PoppedIs
<1>4. Grown(Popped(x), box')
  <2>1. CASE DispatchResponse(x)
    BY <2>1, ResponseIs
  <2>2. CASE DispatchError(x)
    BY <1>3, <2>2, GrownSame DEF DispatchError
  <2> QED
    BY <2>1, <2>2
<1>5. /\ m.type \in {"RESPONSE", "ERROR"}
      /\ actor' = [actor EXCEPT ![x].waits = @ \ {m.session}]
  BY <1>2 DEF DispatchResponse, DispatchError
<1>6. PICK t : t = m.session
  OBVIOUS
<1>7. actor' = [actor EXCEPT ![x].waits = @ \ {t}]
  BY <1>5, <1>6
<1>8. /\ Kept(x) /\ actor'[x].state = actor[x].state /\ actor'[x].pending = actor[x].pending
      /\ actor'[x].debts = actor[x].debts /\ actor'[x].waits = actor[x].waits \ {t}
  BY <1>7, WaitEnds
<1>9. Waiting(h, s)
  BY <1>8, WaitedBefore
<1>10. ~Asks(m, h, s)
  BY <1>5 DEF Asks, NeedsAnswer
<1>11. ~(h = x /\ Answers(m, s))
  BY <1>6, <1>8 DEF Waiting, Answers
<1> HIDE DEF Settled
<1> QED
  BY <1>1, <1>2, <1>4, <1>8, <1>9, <1>10, <1>11, CarriedPops

\* The early requests are handled, or given up.
LEMMA CarriedStarts ==
  ASSUME Shape, Shape', Carried, NEW x \in Handles, Start(x) \/ StartFails(x),
         NEW h \in Handles, NEW s \in 1 .. MaxOps, Waiting(h, s)'
  PROVE  Settled(h, s)'
<1>1. /\ Kept(x) /\ actor'[x].state = actor[x].state /\ actor'[x].waits = actor[x].waits
      /\ Grown(box, box')
      /\ \A d \in Range(actor[x].debts) : d \in Range(actor'[x].debts)
  <2>1. CASE Start(x)
    BY <2>1, StartIs
  <2>2. CASE StartFails(x)
    BY <2>2, StartFailsIs
  <2> QED
    BY <2>1, <2>2
<1>2. actor[x].state \notin {"none", "dead"}
  BY DEF Start, StartFails, CanRun
<1>3. Waiting(h, s)
  BY <1>1, WaitedBefore
<1>4. Accepting(h)
  BY <1>3, WaitingTypes
<1>5. abandoned \subseteq abandoned'
  BY DEF Start, StartFails
<1>6. ASSUME NEW m \in Range(actor[x].pending), Asks(m, h, s) PROVE Settled(h, s)'
  <2>1. NeedsAnswer(m) /\ m.source = h /\ m.session = s
    BY <1>6 DEF Asks
  <2>2. CASE Start(x)
    <3>1. CASE m.type = "LUA"
      <4>1. <<m.source, m.session>> \in Range(actor'[x].debts)
        BY <2>2, <3>1, StartIs
      <4>2. There(x)' /\ <<h, s>> \in Range(actor'[x].debts)
        BY <1>1, <1>2, <2>1, <4>1 DEF There
      <4> QED
        BY <4>2, Zenon DEF Settled
    <3>2. CASE m.type # "LUA"
      <4>1. HasError(box'[m.source], m.session)
        BY <1>4, <2>1, <2>2, <3>2, StartIs
      <4>2. PICK e \in Range(box'[h]) : Answers(e, s)'
        BY <2>1, <4>1 DEF HasError, Answers
      <4> QED
        BY <4>2, Zenon DEF Settled
    <3> QED
      BY <3>1, <3>2
  <2>3. CASE StartFails(x)
    <3>1. abandoned' = abandoned \cup Requests(actor[x].pending)
      BY <2>3, StartFailsIs
    <3>2. <<h, s>> \in abandoned'
      BY <2>1, <3>1 DEF Requests
    <3> QED
      BY <3>2, Zenon DEF Settled
  <2> QED
    BY <2>2, <2>3
<1>7. BoxesKept
  BY <1>1, GrownKeeps
<1>8. \A k \in Handles \ {x} : actor'[k] = actor[k]
  BY <1>1 DEF Kept
<1>9. \A k \in Handles : There(k) => There(k)'
  BY <1>1, <1>8 DEF There
<1> HIDE DEF Settled
<1>10. /\ \A k \in Handles : There(k) => \A m \in Range(box[k]) : Asks(m, h, s) =>
            (There(k)' /\ m \in Range(box'[k])) \/ Settled(h, s)'
       /\ \A m \in Range(box[h]) : Answers(m, s) => m \in Range(box'[h]) \/ Settled(h, s)'
  BY <1>7, <1>9 DEF BoxesKept
<1>11. \A k \in Handles : There(k) => \A m \in Range(actor[k].pending) : Asks(m, h, s) =>
            (There(k)' /\ m \in Range(actor'[k].pending)) \/ Settled(h, s)'
  BY <1>6, <1>8, <1>9
<1>12. \A k \in Handles : There(k) /\ <<h, s>> \in Range(actor[k].debts) =>
            (There(k)' /\ <<h, s>> \in Range(actor'[k].debts)) \/ Settled(h, s)'
  BY <1>1, <1>8, <1>9
<1> QED
  BY <1>3, <1>5, <1>10, <1>11, <1>12, CarriedStep

\* Every step leaves each call settled.
LEMMA CarriedNext ==
  ASSUME Shape, Shape', Carried, [Next]_vars
  PROVE  Carried'
<1>1. SUFFICES ASSUME NEW h \in Handles, NEW s \in 1 .. MaxOps, Waiting(h, s)'
               PROVE  Settled(h, s)'
  BY DEF Carried
<1> HIDE DEF Settled, Waiting
<1>2. CASE UNCHANGED vars
  <2>1. 1 \in Handles
    BY Numbers
  <2> QED
    BY <1>1, <1>2, <2>1, CarriedLives
<1>3. ASSUME NEW x \in 0 .. MaxHandle, Error(x) \/ ErrorLoad(x) \/ ErrorFind(x) \/ ErrorStore(x)
      PROVE  Settled(h, s)'
  BY <1>1, <1>3, CarriedErrors
<1>4. ASSUME NEW x \in Handles,
             \/ Send(x) \/ Call(x) \/ PackRaises(x) \/ Redirect(x)
             \/ Ret(x) \/ RespondError(x) \/ Forget(x)
      PROVE  Settled(h, s)'
  BY <1>1, <1>4, CarriedSend, CarriedCall, CarriedReports, CarriedRedirect, CarriedRet, CarriedRespondError
<1>5. ASSUME NEW x \in Handles,
             \/ Register(x) \/ Spawn(x) \/ InitDone(x) \/ InitFails(x) \/ SpawnFails(x)
             \/ Kill(x) \/ KillResets(x) \/ Destroy(x)
      PROVE  Settled(h, s)'
  BY <1>1, <1>5, CarriedLives, CarriedDestroys
<1>6. ASSUME NEW x \in Handles,
             \/ DispatchLogger(x) \/ DispatchNoCallback(x) \/ DispatchEarly(x)
             \/ DispatchRequest(x) \/ DispatchResponse(x) \/ DispatchError(x)
             \/ Start(x) \/ StartFails(x)
      PROVE  Settled(h, s)'
  BY <1>1, <1>6, CarriedDispatchSimple, CarriedDispatchEarly, CarriedDispatchRequest,
     CarriedDispatchAnswer, CarriedStarts
<1> QED
  BY <1>2, <1>3, <1>4, <1>5, <1>6 DEF Next

\* That calls are settled is an invariant.
LEMMA CarriedHolds == Spec => []Carried
<1>1. Init => Carried
  <2>1. Init => \A h \in Handles : actor[h].waits = {}
    <3>1. \A kind, state : NewActor(kind, state).waits = {}
      BY DEF NewActor
    <3>2. \A kind, state : [NewActor(kind, state) EXCEPT !.callback = TRUE].waits = {}
      BY DEF NewActor
    <3>3. SUFFICES ASSUME Init, NEW h \in Handles PROVE actor[h].waits = {}
      OBVIOUS
    <3>4. actor[h] = CASE h = 1 -> NewActor("logger", "live")
                       [] h = 2 -> [NewActor("lua", "live") EXCEPT !.callback = TRUE]
                       [] OTHER -> NewActor("lua", "none")
      BY <3>3 DEF Init
    <3> HIDE DEF NewActor
    <3> QED
      BY <3>1, <3>2, <3>4
  <2> QED
    BY <2>1 DEF Carried, Waiting
<1>2. Shape /\ Shape' /\ Carried /\ [Next]_vars => Carried'
  BY CarriedNext
<1> QED
  BY <1>1, <1>2, ShapeHolds, PTL DEF Spec

\* What settles a call is what the property asks for, or the call was given up.
LEMMA SettledIsCarried ==
  ASSUME NEW h, NEW s, Settled(h, s)
  PROVE  IsCarried(h, s) \/ <<h, s>> \in abandoned
<1>1. ASSUME NEW k \in Handles, There(k),
             \/ \E m \in Range(box[k]) : Asks(m, h, s)
             \/ \E m \in Range(actor[k].pending) : Asks(m, h, s)
             \/ <<h, s>> \in Range(actor[k].debts)
      PROVE  IsCarried(h, s)
  BY <1>1, Zenon DEF There, Asks, IsCarried
<1>2. ASSUME \E m \in Range(box[h]) : Answers(m, s)
      PROVE  IsCarried(h, s)
  BY <1>2, Zenon DEF Answers, IsCarried
<1> QED
  BY <1>1, <1>2, Zenon DEF Settled

\* A coroutine that waits in skynet.call or rawcall for an answer waits for something: the
\* request is in a mailbox or in pending_messages, or a handler owes the answer, or the
\* answer is in the caller's mailbox, unless the receiver has given the request up.
THEOREM CallsAreCarried == Spec => []CallIsCarried
<1>1. Shape /\ Carried => CallIsCarried
  <2>1. SUFFICES ASSUME Shape, Carried, NEW h \in Handles, actor[h].state = "live",
                        NEW s \in actor[h].waits
                 PROVE  IsCarried(h, s) \/ <<h, s>> \in abandoned
    BY DEF CallIsCarried
  <2>2. Waiting(h, s)
    BY <2>1 DEF Waiting
  <2>3. s \in 1 .. MaxOps
    BY <2>1, <2>2, WaitingTypes
  <2>4. Settled(h, s)
    BY <2>1, <2>2, <2>3 DEF Carried
  <2> QED
    BY <2>4, SettledIsCarried
<1> QED
  BY <1>1, ShapeHolds, CarriedHolds, PTL

===============================================================================
