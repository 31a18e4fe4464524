---------------------------- MODULE SequenceLemmas ----------------------------
(***************************************************************************)
(* Lemmas about naturals and sequences that GateProofs and ClusterProofs   *)
(* cite: induction in terms of a set, and what FlattenSeq concatenates.    *)
(*                                                                         *)
(* FlattenSeq is a recursive function, and the induction that it needs is  *)
(* done on sets of naturals: S is the set of the n for which the claim     *)
(* holds of all sequences of n members, and NatSet shows that S is Nat.    *)
(***************************************************************************)
EXTENDS Integers, SequencesExt, SequenceTheorems, WellFoundedInduction, TLAPS

-------------------------------------------------------------------------------
(* Induction over the naturals, in terms of sets.                          *)

\* A set of naturals that is not empty has a least member.
LEMMA LeastNat ==
  ASSUME NEW T \in SUBSET Nat, T # {}
  PROVE  \E x \in T : \A y \in T : x <= y
<1> DEFINE R == {ss \in Nat \X Nat : ss[1] < ss[2]}
<1>1. IsWellFoundedOn(R, Nat)
  BY NatLessThanWellFounded DEF OpToRel
<1>2. PICK x \in T : \A y \in T : ~(<<y, x>> \in R)
  <2> HIDE DEF R
  <2> QED
    BY <1>1, WFMin
<1>3. ASSUME NEW y \in T PROVE x <= y
  <2>1. y \in Nat /\ x \in Nat
    OBVIOUS
  <2>2. <<y, x>> \in Nat \X Nat
    BY <2>1
  <2>3. y < x => <<y, x>> \in R
    BY <2>2
  <2> QED
    BY <1>2, <2>1, <2>3
<1> QED
  BY <1>3

\* Induction over the naturals, in terms of a set: what a recursive definition
\* computes for every input is proved with this form.
LEMMA NatSet ==
  ASSUME NEW S, 0 \in S, \A n \in Nat : n \in S => n + 1 \in S
  PROVE  \A n \in Nat : n \in S
<1> DEFINE T == Nat \ S
<1> SUFFICES ASSUME T # {} PROVE FALSE
  OBVIOUS
<1>1. PICK x \in T : \A y \in T : x <= y
  BY LeastNat
<1>2. x # 0 /\ x - 1 \in Nat /\ x - 1 \notin T
  BY <1>1
<1> QED
  BY <1>2


-------------------------------------------------------------------------------
(* FlattenSeq: what is concatenated.                                       *)

\* The function that FlattenSeq defines, on the first n elements of s.
PartialValue(f, s, i) == IF i = 1 THEN s[i] ELSE f[i - 1] \o s[i]
Partial(f, s, n) ==
  /\ f = [i \in 1 .. n |-> f[i]]
  /\ \A i \in 1 .. n : f[i] = PartialValue(f, s, i)

\* There is a function of the first n concatenations.
LEMMA PartialExists ==
  ASSUME NEW s, NEW n \in Nat
  PROVE  \E f : Partial(f, s, n)
<1> DEFINE S == {m \in Nat : \E f : Partial(f, s, m)}
<1>1. 0 \in S
  <2> DEFINE f == [i \in 1 .. 0 |-> s[i]]
  <2>1. Partial(f, s, 0)
    BY DEF Partial
  <2> QED
    BY <2>1
<1>2. ASSUME NEW m \in Nat, m \in S PROVE m + 1 \in S
  <2>1. PICK f : Partial(f, s, m)
    BY <1>2
  <2> DEFINE g == [i \in 1 .. m + 1 |-> PartialValue(f, s, i)]
  <2>2. \A i \in 1 .. m : g[i] = f[i]
    BY <2>1 DEF Partial
  <2>3. ASSUME NEW i \in 1 .. m + 1 PROVE g[i] = PartialValue(g, s, i)
    <3>1. CASE i = 1
      BY <3>1 DEF PartialValue
    <3>2. CASE i # 1
      <4>1. i - 1 \in 1 .. m
        BY <3>2
      <4>2. g[i - 1] = f[i - 1]
        BY <2>2, <4>1
      <4> QED
        BY <3>2, <4>2 DEF PartialValue
    <3> QED
      BY <3>1, <3>2
  <2>4. g = [i \in 1 .. m + 1 |-> g[i]]
    OBVIOUS
  <2> HIDE DEF g
  <2> QED
    BY <2>3, <2>4 DEF Partial
<1> HIDE DEF S
<1>3. n \in S
  BY <1>1, <1>2, NatSet
<1> QED
  BY <1>3 DEF S

\* The first concatenations depend on the first members only.
LEMMA PartialUnique ==
  ASSUME NEW f, NEW g, NEW s, NEW t, NEW n \in Nat, NEW m \in Nat,
         Partial(f, s, n), Partial(g, t, m),
         n <= m, \A i \in 1 .. n : s[i] = t[i]
  PROVE  \A i \in 1 .. n : f[i] = g[i]
<1> DEFINE S == {j \in Nat : j \in 1 .. n => f[j] = g[j]}
<1>1. 0 \in S
  OBVIOUS
<1>2. ASSUME NEW j \in Nat, j \in S PROVE j + 1 \in S
  <2> SUFFICES ASSUME j + 1 \in 1 .. n PROVE f[j + 1] = g[j + 1]
    OBVIOUS
  <2>1. f[j + 1] = PartialValue(f, s, j + 1) /\ g[j + 1] = PartialValue(g, t, j + 1)
    <3>1. j + 1 \in 1 .. n /\ j + 1 \in 1 .. m
      OBVIOUS
    <3> QED
      BY <3>1, Zenon DEF Partial
  <2>2. CASE j = 0
    BY <2>1, <2>2 DEF PartialValue
  <2>3. CASE j # 0
    <3>1. f[j] = g[j] /\ j + 1 - 1 = j
      BY <1>2, <2>3
    <3> QED
      BY <2>1, <2>3, <3>1 DEF PartialValue
  <2> QED
    BY <2>2, <2>3
<1> HIDE DEF S
<1>3. \A j \in Nat : j \in S
  BY <1>1, <1>2, NatSet
<1> QED
  BY <1>3 DEF S

\* FlattenSeq is the last of the concatenations.
LEMMA FlattenIs ==
  ASSUME NEW T, NEW s \in Seq(T), s # <<>>
  PROVE  \E f : Partial(f, s, Len(s)) /\ FlattenSeq(s) = f[Len(s)]
<1> DEFINE Is(g) == g = [i \in 1 .. Len(s) |-> IF i = 1 THEN s[i] ELSE g[i - 1] \o s[i]]
           f == CHOOSE g : Is(g)
<1>1. \E g : Is(g)
  <2>1. PICK g : Partial(g, s, Len(s))
    BY PartialExists, Len(s) \in Nat, Zenon
  <2>2. \A i \in 1 .. Len(s) : g[i] = IF i = 1 THEN s[i] ELSE g[i - 1] \o s[i]
    BY <2>1 DEF Partial, PartialValue
  <2>3. g = [i \in 1 .. Len(s) |-> g[i]]
    BY <2>1 DEF Partial
  <2> QED
    BY <2>2, <2>3, ZenonT(60)
<1>2. Is(f)
  <2> HIDE DEF Is
  <2> QED
    BY <1>1
<1>3. FlattenSeq(s) = f[Len(s)]
  BY DEF FlattenSeq
<1> HIDE DEF f
<1>4. f = [i \in 1 .. Len(s) |-> f[i]]
  BY <1>2, Zenon
<1>5. \A i \in 1 .. Len(s) : f[i] = IF i = 1 THEN s[i] ELSE f[i - 1] \o s[i]
  BY <1>2, Zenon
<1> QED
  BY <1>3, <1>4, <1>5 DEF Partial, PartialValue

\* Nothing is concatenated.
LEMMA FlattenEmpty == FlattenSeq(<<>>) = <<>>
BY DEF FlattenSeq

\* One more sequence is concatenated at the end.
LEMMA FlattenAppend ==
  ASSUME NEW T, NEW s \in Seq(Seq(T)), NEW x \in Seq(T)
  PROVE  FlattenSeq(Append(s, x)) = FlattenSeq(s) \o x
<1> DEFINE t == Append(s, x)
<1>1. t \in Seq(Seq(T)) /\ t # <<>> /\ Len(t) = Len(s) + 1 /\ t[Len(s) + 1] = x
      /\ \A i \in 1 .. Len(s) : t[i] = s[i]
  BY AppendProperties
<1>2. PICK g : Partial(g, t, Len(t)) /\ FlattenSeq(t) = g[Len(t)]
  <2> HIDE DEF t
  <2> QED
    BY <1>1, FlattenIs
<1>3. g[Len(t)] = PartialValue(g, t, Len(t))
  BY <1>1, <1>2, Len(t) \in 1 .. Len(t), Zenon DEF Partial
<1>4. CASE s = <<>>
  <2>1. g[Len(t)] = x
    BY <1>1, <1>3, <1>4 DEF PartialValue
  <2>2. FlattenSeq(s) = <<>>
    BY <1>4, FlattenEmpty
  <2> QED
    BY <1>2, <2>1, <2>2
<1>5. CASE s # <<>>
  <2>1. PICK f : Partial(f, s, Len(s)) /\ FlattenSeq(s) = f[Len(s)]
    BY <1>5, FlattenIs
  <2>2. f[Len(s)] = g[Len(s)]
    <3>1. Len(s) \in Nat /\ Len(t) \in Nat /\ Len(s) <= Len(t) /\ Len(s) \in 1 .. Len(s)
      BY <1>1, <1>5
    <3>2. \A i \in 1 .. Len(s) : s[i] = t[i]
      BY <1>1
    <3> HIDE DEF t
    <3>3. \A i \in 1 .. Len(s) : f[i] = g[i]
      BY <1>2, <2>1, <3>1, <3>2, PartialUnique, Zenon
    <3> QED
      BY <3>1, <3>3
  <2>3. Len(t) # 1 /\ Len(t) - 1 = Len(s)
    BY <1>1, <1>5
  <2>4. g[Len(t)] = g[Len(s)] \o x
    BY <1>1, <1>3, <2>3 DEF PartialValue
  <2> QED
    BY <1>2, <2>1, <2>2, <2>4
<1> QED
  BY <1>4, <1>5

\* What is concatenated from sequences over T is a sequence over T.
LEMMA FlattenType ==
  ASSUME NEW T, NEW s \in Seq(Seq(T))
  PROVE  FlattenSeq(s) \in Seq(T)
<1> DEFINE S == {n \in Nat : \A t \in Seq(Seq(T)) : Len(t) = n => FlattenSeq(t) \in Seq(T)}
<1>1. 0 \in S
  <2>1. \A t \in Seq(Seq(T)) : Len(t) = 0 => t = <<>>
    OBVIOUS
  <2> QED
    BY <2>1, FlattenEmpty
<1>2. ASSUME NEW n \in Nat, n \in S PROVE n + 1 \in S
  <2> SUFFICES ASSUME NEW t \in Seq(Seq(T)), Len(t) = n + 1 PROVE FlattenSeq(t) \in Seq(T)
    OBVIOUS
  <2>1. PICK r \in Seq(Seq(T)), x \in Seq(T) : t = Append(r, x)
    <3>1. t # <<>>
      BY EmptySeq
    <3> QED
      BY <3>1, SequenceEmptyOrAppend
  <2>2. Len(r) = n
    BY <2>1
  <2>3. FlattenSeq(r) \in Seq(T)
    BY <1>2, <2>2
  <2>4. FlattenSeq(t) = FlattenSeq(r) \o x
    BY <2>1, FlattenAppend, Zenon
  <2> QED
    BY <2>3, <2>4
<1> HIDE DEF S
<1>3. Len(s) \in S
  BY <1>1, <1>2, NatSet, Len(s) \in Nat
<1> QED
  BY <1>3 DEF S

\* The first sequence, and the concatenation of the others.
LEMMA FlattenHead ==
  ASSUME NEW T, NEW s \in Seq(Seq(T)), s # <<>>
  PROVE  FlattenSeq(s) = Head(s) \o FlattenSeq(Tail(s))
<1> DEFINE Holds(t) == FlattenSeq(t) = Head(t) \o FlattenSeq(Tail(t))
           S == {n \in Nat : \A t \in Seq(Seq(T)) : Len(t) = n + 1 => Holds(t)}
<1>1. ASSUME NEW r \in Seq(Seq(T)), NEW x \in Seq(T), r # <<>> => Holds(r)
      PROVE  Holds(Append(r, x))
  <2>1. FlattenSeq(Append(r, x)) = FlattenSeq(r) \o x
    BY FlattenAppend
  <2>2. CASE r = <<>>
    <3>1. Head(Append(r, x)) = x /\ Tail(Append(r, x)) = <<>>
      BY <2>2
    <3>2. FlattenSeq(r) = <<>> /\ FlattenSeq(Tail(Append(r, x))) = <<>>
      BY <2>2, <3>1, FlattenEmpty
    <3> QED
      BY <2>1, <3>1, <3>2
  <2>3. CASE r # <<>>
    <3>1. Head(Append(r, x)) = Head(r) /\ Tail(Append(r, x)) = Append(Tail(r), x)
      BY <2>3, HeadTailAppend
    <3>2. Head(r) \in Seq(T) /\ Tail(r) \in Seq(Seq(T)) /\ FlattenSeq(Tail(r)) \in Seq(T)
      <4>1. Head(r) \in Seq(T) /\ Tail(r) \in Seq(Seq(T))
        BY <2>3
      <4> QED
        BY <4>1, FlattenType, Zenon
    <3>3. FlattenSeq(Append(Tail(r), x)) = FlattenSeq(Tail(r)) \o x
      BY <3>2, FlattenAppend
    <3>4. (Head(r) \o FlattenSeq(Tail(r))) \o x = Head(r) \o (FlattenSeq(Tail(r)) \o x)
      <4> DEFINE a == Head(r)
                 b == FlattenSeq(Tail(r))
      <4>1. a \in Seq(T) /\ b \in Seq(T)
        BY <3>2
      <4> HIDE DEF a, b
      <4>2. (a \o b) \o x = a \o (b \o x)
        BY SMTT(30), <4>1, ConcatAssociative
      <4> QED
        BY <4>2 DEF a, b
    <3> QED
      BY <1>1, <2>1, <2>3, <3>1, <3>3, <3>4
  <2> QED
    BY <2>2, <2>3
<1> HIDE DEF Holds
<1>2. 0 \in S
  <2> SUFFICES ASSUME NEW t \in Seq(Seq(T)), Len(t) = 1 PROVE Holds(t)
    OBVIOUS
  <2>1. PICK r \in Seq(Seq(T)), x \in Seq(T) : t = Append(r, x)
    <3>1. t # <<>>
      <4>1. Len(t) # Len(<<>>)
        BY EmptySeq
      <4> QED
        BY <4>1, Zenon
    <3> QED
      BY <3>1, SequenceEmptyOrAppend
  <2> QED
    BY <1>1, <2>1
<1>3. ASSUME NEW n \in Nat, n \in S PROVE n + 1 \in S
  <2> SUFFICES ASSUME NEW t \in Seq(Seq(T)), Len(t) = n + 2 PROVE Holds(t)
    OBVIOUS
  <2>1. PICK r \in Seq(Seq(T)), x \in Seq(T) : t = Append(r, x)
    <3>1. t # <<>>
      BY EmptySeq
    <3> QED
      BY <3>1, SequenceEmptyOrAppend
  <2>2. Holds(r)
    BY <1>3, <2>1
  <2> QED
    BY <1>1, <2>1, <2>2
<1> HIDE DEF S
<1>4. Len(s) - 1 \in S
  BY <1>2, <1>3, NatSet, Len(s) - 1 \in Nat
<1> QED
  BY <1>4 DEF S, Holds

\* Concatenation is associative.
LEMMA Associative ==
  \A T : \A s, t, u \in Seq(T) : (s \o t) \o u = s \o (t \o u)
BY ConcatAssociative

\* Appending a member is concatenating a sequence of one.
LEMMA AppendOfSingle ==
  ASSUME NEW T, NEW b \in Seq(T), NEW y \in T, NEW u \in Seq(T), Len(u) = 1, u[1] = y
  PROVE  Append(b, y) = b \o u
<1> DEFINE bp == Append(b, y)
           br == b \o u
<1>1. bp \in Seq(T) /\ Len(bp) = Len(b) + 1 /\ bp[Len(b) + 1] = y /\ \A k \in 1 .. Len(b) : bp[k] = b[k]
  BY AppendProperties
<1>2. br \in Seq(T) /\ Len(br) = Len(b) + Len(u) /\ Len(b) \in Nat
      /\ \A k \in 1 .. Len(b) + Len(u) : br[k] = IF k <= Len(b) THEN b[k] ELSE u[k - Len(b)]
  <2>1. Len(b) \in Nat
    OBVIOUS
  <2> QED
    BY <2>1, ConcatProperties, Zenon
<1> HIDE DEF bp, br
<1>3. ASSUME NEW k \in 1 .. Len(b) + 1 PROVE bp[k] = br[k]
  <2>1. CASE k = Len(b) + 1
    <3>1. br[k] = u[1]
      BY <1>2, <2>1
    <3> QED
      BY <1>1, <2>1, <3>1
  <2>2. CASE k # Len(b) + 1
    <3>1. k \in 1 .. Len(b) /\ k \in 1 .. Len(b) + Len(u) /\ k <= Len(b)
      BY <1>2, <2>2
    <3> QED
      BY <1>1, <1>2, <3>1
  <2> QED
    BY <2>1, <2>2
<1>4. bp = br
  BY <1>1, <1>2, <1>3, SeqEqual
<1> QED
  BY <1>4 DEF bp, br

\* The first n + 1 members are the first n and one more.
LEMMA SubSeqNext ==
  ASSUME NEW T, NEW s \in Seq(T), NEW n \in Nat, n < Len(s)
  PROVE  /\ SubSeq(s, 1, n) \in Seq(T) /\ s[n + 1] \in T
         /\ SubSeq(s, 1, n + 1) = Append(SubSeq(s, 1, n), s[n + 1])
OBVIOUS

===============================================================================
