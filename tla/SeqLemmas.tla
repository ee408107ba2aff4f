----------------------------- MODULE SeqLemmas -----------------------------
(***************************************************************************)
(* Facts about sequences and numbers that the proofs of the components     *)
(* share.                                                                  *)
(***************************************************************************)
EXTENDS Naturals, Sequences, SequencesExt, SequenceTheorems, FiniteSetTheorems,
        WellFoundedInduction, TLAPS

\* Pushing an element adds exactly that element to the set of elements.
LEMMA ToSetAppend ==
    ASSUME NEW S, NEW s \in Seq(S), NEW e \in S
    PROVE  ToSet(Append(s, e)) = ToSet(s) \cup {e}
<1>1. /\ Append(s, e) \in Seq(S) /\ Len(Append(s, e)) = Len(s) + 1
      /\ \A i \in 1..Len(s) : Append(s, e)[i] = s[i]
      /\ Append(s, e)[Len(s) + 1] = e
  BY AppendProperties
<1>2. DOMAIN Append(s, e) = 1..(Len(s) + 1) /\ DOMAIN s = 1..Len(s)
  BY <1>1, LenProperties
<1>3. Len(s) \in Nat
  BY LenProperties
<1>4. 1..(Len(s) + 1) = 1..Len(s) \cup {Len(s) + 1}
  BY <1>3
<1> QED
  BY <1>1, <1>2, <1>4 DEF ToSet

\* The elements of a concatenation are the elements of its two parts.
LEMMA ToSetConcat ==
    ASSUME NEW S, NEW s \in Seq(S), NEW t \in Seq(S)
    PROVE  ToSet(s \o t) = ToSet(s) \cup ToSet(t)
<1>1. /\ s \o t \in Seq(S) /\ Len(s \o t) = Len(s) + Len(t)
      /\ \A i \in 1..(Len(s) + Len(t)) :
            (s \o t)[i] = IF i <= Len(s) THEN s[i] ELSE t[i - Len(s)]
  BY ConcatProperties
<1>2. /\ DOMAIN s = 1..Len(s) /\ DOMAIN t = 1..Len(t)
      /\ DOMAIN (s \o t) = 1..(Len(s) + Len(t))
      /\ Len(s) \in Nat /\ Len(t) \in Nat
  BY <1>1, LenProperties
<1>3. ASSUME NEW i \in 1..(Len(s) + Len(t))
      PROVE  (s \o t)[i] \in ToSet(s) \cup ToSet(t)
  <2>1. CASE i <= Len(s)
    BY <2>1, <1>1, <1>2, <1>3 DEF ToSet
  <2>2. CASE ~(i <= Len(s))
    <3>1. i - Len(s) \in 1..Len(t) /\ (s \o t)[i] = t[i - Len(s)]
      BY <2>2, <1>1, <1>2, <1>3
    <3> QED
      BY <3>1, <1>2 DEF ToSet
  <2> QED
    BY <2>1, <2>2
<1>4. ASSUME NEW i \in 1..Len(s)
      PROVE  s[i] \in ToSet(s \o t)
  <2>1. i \in 1..(Len(s) + Len(t)) /\ (s \o t)[i] = s[i]
    BY <1>1, <1>2, <1>4
  <2> QED
    BY <2>1, <1>2 DEF ToSet
<1>5. ASSUME NEW i \in 1..Len(t)
      PROVE  t[i] \in ToSet(s \o t)
  <2>1. Len(s) + i \in 1..(Len(s) + Len(t)) /\ (s \o t)[Len(s) + i] = t[i]
    BY <1>1, <1>2, <1>5
  <2> QED
    BY <2>1, <1>2 DEF ToSet
<1>6. ToSet(s \o t) \subseteq ToSet(s) \cup ToSet(t)
  BY <1>2, <1>3 DEF ToSet
<1>7. ToSet(s) \subseteq ToSet(s \o t) /\ ToSet(t) \subseteq ToSet(s \o t)
  BY <1>2, <1>4, <1>5 DEF ToSet
<1> QED
  BY <1>6, <1>7

\* Taking the head of one sequence and appending it to another one moves the border
\* between the two and leaves their concatenation alone.
LEMMA MoveHead ==
    ASSUME NEW S, NEW r \in Seq(S), NEW b \in Seq(S), NEW p \in Seq(S),
           b # <<>>
    PROVE  /\ Append(r, Head(b)) \in Seq(S) /\ Tail(b) \in Seq(S)
           /\ Append(r, Head(b)) \o Tail(b) \o p = r \o b \o p
<1>1. Head(b) \in S /\ Tail(b) \in Seq(S)
  BY HeadTailProperties
<1>2. Append(r, Head(b)) \o Tail(b) = r \o b
  BY <1>1
<1> QED
  BY <1>1, <1>2

\* An empty sequence in the middle changes nothing.
LEMMA EmptyMiddle ==
    ASSUME NEW S, NEW r \in Seq(S), NEW p \in Seq(S)
    PROVE  r \o <<>> \o p = r \o p
BY ConcatEmptySeq

\* Sequences under concatenation: associative, with <<>> as neutral element.
LEMMA Monoid ==
    ASSUME NEW S
    PROVE  /\ <<>> \in Seq(S)
           /\ \A x, y \in Seq(S) : x \o y \in Seq(S)
           /\ \A x \in Seq(S) : x \o <<>> = x /\ <<>> \o x = x
           /\ \A x, y, z \in Seq(S) : (x \o y) \o z = x \o (y \o z)
BY EmptySeq, ConcatProperties, ConcatEmptySeq, ConcatAssociative

\* A function over 1..n is a sequence of length n.
LEMMA FunctionIsSeq ==
    ASSUME NEW S, NEW n \in Nat, NEW f \in [1..n -> S]
    PROVE  f \in Seq(S) /\ Len(f) = n
<1>1. f \in Seq(S)
  BY SeqDef
<1>2. Len(f) \in Nat /\ 1..Len(f) = 1..n
  BY <1>1, LenProperties
<1>3. Len(f) = n
  BY <1>2
<1> QED
  BY <1>1, <1>3

\* The elements of a sequence from position m + 1 to position n.
LEMMA Slice ==
    ASSUME NEW S, NEW s \in Seq(S), NEW m \in Nat, NEW n \in Nat,
           m <= n, n <= Len(s)
    PROVE  /\ SubSeq(s, m + 1, n) \in Seq(S)
           /\ Len(SubSeq(s, m + 1, n)) = n - m
           /\ \A i \in 1..(n - m) : SubSeq(s, m + 1, n)[i] = s[m + i]
<1>1. /\ m + 1 \in Int /\ n \in Int /\ n - (m + 1) + 1 = n - m
      /\ \A i \in 1..(n - m) : m + 1 + i - 1 = m + i
      /\ (IF m + 1 <= n THEN n - (m + 1) + 1 ELSE 0) = n - m
  OBVIOUS
<1>2. \A i \in (m + 1)..n : s[i] \in S
  BY LenProperties, ElementOfSeq
<1>3. /\ SubSeq(s, m + 1, n) \in Seq(S)
      /\ Len(SubSeq(s, m + 1, n)) = IF m + 1 <= n THEN n - (m + 1) + 1 ELSE 0
      /\ \A i \in 1..(n - (m + 1) + 1) : SubSeq(s, m + 1, n)[i] = s[m + 1 + i - 1]
  BY <1>1, <1>2, SubSeqProperties
<1>4. \A i \in 1..(n - m) : SubSeq(s, m + 1, n)[i] = s[m + i]
  BY <1>1, <1>3
<1> QED
  BY <1>1, <1>3, <1>4

\* A sequence cut in two is what it was when the parts are put together again.
LEMMA CutInTwo ==
    ASSUME NEW S, NEW s \in Seq(S), NEW n \in 0..Len(s)
    PROVE  /\ SubSeq(s, 1, n) \in Seq(S) /\ SubSeq(s, n + 1, Len(s)) \in Seq(S)
           /\ SubSeq(s, 1, n) \o SubSeq(s, n + 1, Len(s)) = s
           /\ Len(SubSeq(s, n + 1, Len(s))) = Len(s) - n
           /\ SubSeq(s, n + 1, Len(s)) = <<>> <=> n = Len(s)
           /\ n = 0 => SubSeq(s, n + 1, Len(s)) = s
<1>0. Len(s) \in Nat /\ n \in Nat /\ 0 <= n /\ n <= Len(s)
  BY LenProperties
<1>1. SubSeq(s, 1, n) \in Seq(S) /\ Len(SubSeq(s, 1, n)) = n
  <2>1. SubSeq(s, 0 + 1, n) \in Seq(S) /\ Len(SubSeq(s, 0 + 1, n)) = n - 0
    BY <1>0, Slice
  <2> QED
    BY <1>0, <2>1
<1>2. SubSeq(s, n + 1, Len(s)) \in Seq(S) /\ Len(SubSeq(s, n + 1, Len(s))) = Len(s) - n
  BY <1>0, Slice
<1>3. SubSeq(s, 1, n) \o SubSeq(s, n + 1, Len(s)) = SubSeq(s, 1, Len(s))
  <2>1. 1 \in 1..(Len(s) + 1) /\ n \in (1 - 1)..Len(s) /\ Len(s) \in n..Len(s)
    BY <1>0
  <2> QED
    BY <2>1, ConcatAdjacentSubSeq
<1>4. SubSeq(s, 1, Len(s)) = s
  <2>1. /\ SubSeq(s, 0 + 1, Len(s)) \in Seq(S) /\ Len(SubSeq(s, 0 + 1, Len(s))) = Len(s) - 0
        /\ \A i \in 1..(Len(s) - 0) : SubSeq(s, 0 + 1, Len(s))[i] = s[0 + i]
    BY <1>0, Slice
  <2>2. /\ SubSeq(s, 1, Len(s)) \in Seq(S) /\ Len(SubSeq(s, 1, Len(s))) = Len(s)
        /\ \A i \in 1..Len(s) : SubSeq(s, 1, Len(s))[i] = s[i]
    BY <1>0, <2>1
  <2> QED
    BY <2>2, SeqEqual
<1>5. SubSeq(s, n + 1, Len(s)) = <<>> <=> n = Len(s)
  <2> DEFINE u == SubSeq(s, n + 1, Len(s))
  <2>1. u \in Seq(S) /\ Len(u) = Len(s) - n
    BY <1>2
  <2> HIDE DEF u
  <2>2. u = <<>> <=> Len(u) = 0
    BY <2>1, EmptySeq
  <2>3. u = <<>> <=> n = Len(s)
    BY <1>0, <2>1, <2>2
  <2> QED
    BY <2>3 DEF u
<1>6. n = 0 => SubSeq(s, n + 1, Len(s)) = s
  BY <1>0, <1>4
<1> QED
  BY <1>1, <1>2, <1>3, <1>4, <1>5, <1>6

\* A set of naturals that is not empty has a least element.
LEMMA LeastNatural ==
    ASSUME NEW T \in SUBSET Nat, T # {}
    PROVE  \E x \in T : \A y \in T : x <= y
<1> DEFINE F == {0..x : x \in T}
<1>1. F \subseteq FiniteSubsetsOf(Nat) /\ F # {}
  <2>1. \A x \in T : 0..x \in SUBSET Nat /\ IsFiniteSet(0..x)
    BY FS_Interval
  <2> QED
    BY <2>1 DEF FiniteSubsetsOf
<1>2. PICK X \in F : \A Y \in F : ~(<<Y, X>> \in StrictSubsetOrdering(Nat))
  <2> HIDE DEF F
  <2> QED
    BY <1>1, WFMin, FS_StrictSubsetOrderingWellFounded
<1>3. PICK x \in T : X = 0..x
  OBVIOUS
<1>4. ASSUME NEW y \in T PROVE x <= y
  <2>1. SUFFICES ASSUME y < x PROVE FALSE
    BY <1>4
  <2>2. 0..y \subseteq 0..x /\ 0..y # 0..x /\ 0..y \in SUBSET Nat /\ 0..x \in SUBSET Nat
    <3>1. x \in 0..x /\ x \notin 0..y
      BY <2>1
    <3> QED
      BY <2>1, <3>1
  <2>3. <<0..y, 0..x>> \in StrictSubsetOrdering(Nat)
    BY <2>2 DEF StrictSubsetOrdering
  <2> QED
    BY <1>2, <1>3, <2>3
<1> QED
  BY <1>4
-----------------------------------------------------------------------------
(* FlattenSeq, whose definition is recursive.  Its recursion is reasoned    *)
(* about by least counterexamples: a place where it fails is preceded by one *)
(* where it does not.                                                       *)

\* f[i] is the concatenation of the first i of the sequences s, step by step.
Joined(S, s, f) ==
    /\ f \in [0..Len(s) -> Seq(S)]
    /\ f[0] = <<>>
    /\ \A i \in 1..Len(s) : f[i] = f[i - 1] \o s[i]

\* The concatenations of the prefixes exist,
LEMMA JoinedExist ==
    ASSUME NEW S, NEW s \in Seq(Seq(S))
    PROVE  \E f : Joined(S, s, f)
<1> DEFINE Upto(n, f) == /\ f \in [0..n -> Seq(S)] /\ f[0] = <<>>
                         /\ \A i \in 1..n : f[i] = f[i - 1] \o s[i]
           Found(n) == \E f : Upto(n, f)
           Bad == {n \in 0..Len(s) : ~Found(n)}
<1>0. Len(s) \in Nat /\ <<>> \in Seq(S)
  BY LenProperties, EmptySeq
<1>1. Bad = {}
  <2> SUFFICES ASSUME Bad # {} PROVE FALSE
    OBVIOUS
  <2>1. PICK n \in Bad : \A m \in Bad : n <= m
    <3>1. Bad \in SUBSET Nat
      <4> HIDE DEF Found
      <4> QED
        BY <1>0
    <3> HIDE DEF Bad
    <3> QED
      BY <3>1, LeastNatural
  <2>2. n \in Nat /\ n <= Len(s)
    <3> HIDE DEF Found
    <3> QED
      BY <1>0
  <2>a. ~Found(n)
    <3> HIDE DEF Found
    <3> QED
      BY <1>0
  <2>3. n # 0
    <3> SUFFICES ASSUME n = 0 PROVE FALSE
      OBVIOUS
    <3>1. Upto(0, [i \in 0..0 |-> <<>>])
      BY <1>0
    <3> QED
      BY <2>a, <3>1
  <2>4. PICK f : Upto(n - 1, f)
    <3>1. n - 1 \in 0..Len(s) /\ ~(n <= n - 1)
      BY <1>0, <2>2, <2>3
    <3>2. n - 1 \notin Bad
      BY <2>1, <3>1
    <3>3. Found(n - 1)
      <4> HIDE DEF Found
      <4> QED
        BY <3>1, <3>2
    <3> QED
      BY <3>3
  <2> DEFINE g == [i \in 0..n |-> IF i = n THEN f[n - 1] \o s[n] ELSE f[i]]
  <2>5. f[n - 1] \o s[n] \in Seq(S)
    <3>1. f[n - 1] \in Seq(S) /\ s[n] \in Seq(S)
      BY <1>0, <2>2, <2>3, <2>4, ElementOfSeq
    <3> QED
      BY <3>1, ConcatProperties
  <2>6. g \in [0..n -> Seq(S)] /\ g[0] = <<>>
    BY <2>2, <2>3, <2>4, <2>5
  <2>7. ASSUME NEW i \in 1..n PROVE g[i] = g[i - 1] \o s[i]
    <3>1. i - 1 \in 0..n /\ i - 1 # n /\ g[i - 1] = f[i - 1]
      BY <2>2
    <3>2. CASE i = n
      <4>2. n \in 0..n
        BY <2>2
      <4>1. g[n] = f[n - 1] \o s[n]
        BY <4>2, Zenon
      <4> HIDE DEF g
      <4> QED
        BY <3>1, <3>2, <4>1
    <3>3. CASE i # n
      <4>1. i \in 1..(n - 1) /\ g[i] = f[i]
        BY <2>2, <3>3
      <4> QED
        BY <2>4, <3>1, <4>1
    <3> QED
      BY <3>2, <3>3
  <2>8. Upto(n, g)
    BY <2>6, <2>7
  <2> QED
    BY <2>a, <2>8
<1>2. Found(Len(s))
  <2> HIDE DEF Found
  <2> QED
    BY <1>0, <1>1
<1>3. PICK f : Upto(Len(s), f)
  BY <1>2
<1> QED
  BY <1>3 DEF Joined

\* and the last one is what FlattenSeq computes.
LEMMA FlattenIsLast ==
    ASSUME NEW S, NEW s \in Seq(Seq(S)), NEW f, Joined(S, s, f)
    PROVE  FlattenSeq(s) = f[Len(s)]
<1> DEFINE n == Len(s)
           Step(h) == [i \in 1..n |-> IF i = 1 THEN s[i] ELSE h[i - 1] \o s[i]]
           g == CHOOSE h : h = Step(h)
<1>0. /\ n \in Nat /\ \A i \in 1..n : s[i] \in Seq(S)
      /\ f[0] = <<>> /\ \A i \in 1..n : f[i] = f[i - 1] \o s[i]
  BY LenProperties, ElementOfSeq DEF Joined
<1>1. CASE n = 0
  <2>1. s = <<>>
    BY <1>1, EmptySeq
  <2> QED
    BY <1>0, <1>1, <2>1 DEF FlattenSeq
<1>2. CASE n # 0
  <2>1. FlattenSeq(s) = g[n]
    BY <1>2 DEF FlattenSeq
  <2>2. f[1] = s[1]
    <3>1. 1 \in 1..n /\ 1 - 1 = 0
      BY <1>0, <1>2
    <3>2. f[1] = f[1 - 1] \o s[1] /\ s[1] \in Seq(S)
      BY <1>0, <3>1
    <3> QED
      BY <1>0, <3>1, <3>2, ConcatEmptySeq
  <2>3. g = Step(g)
    <3> DEFINE h == [i \in 1..n |-> f[i]]
    <3>1. ASSUME NEW i \in 1..n
          PROVE  h[i] = IF i = 1 THEN s[i] ELSE h[i - 1] \o s[i]
      <4>1. CASE i = 1
        BY <2>2, <4>1
      <4>2. CASE i # 1
        <5>1. i - 1 \in 1..n
          BY <1>0, <4>2
        <5>2. f[i] = f[i - 1] \o s[i]
          BY <1>0
        <5> QED
          BY <4>2, <5>1, <5>2
      <4> QED
        BY <4>1, <4>2
    <3>2. h = Step(h)
      BY <3>1
    <3> HIDE DEF h, Step
    <3> QED
      BY <3>2
  <2> HIDE DEF g
  <2> DEFINE Bad == {i \in 1..n : g[i] # f[i]}
  <2>4. Bad = {}
    <3> SUFFICES ASSUME Bad # {} PROVE FALSE
      OBVIOUS
    <3>1. PICK i \in Bad : \A j \in Bad : i <= j
      <4>1. Bad \in SUBSET Nat
        BY <1>0
      <4> HIDE DEF Bad
      <4> QED
        BY <4>1, LeastNatural
    <3>2. g[i] = IF i = 1 THEN s[i] ELSE g[i - 1] \o s[i]
      BY <2>3
    <3>3. i # 1
      BY <2>2, <3>1, <3>2
    <3>4. i - 1 \in 1..n /\ i - 1 \notin Bad
      <4>1. i \in 1..n /\ i - 1 \in 1..n /\ ~(i <= i - 1)
        BY <1>0, <3>1, <3>3
      <4> QED
        BY <3>1, <4>1
    <3> QED
      BY <1>0, <3>1, <3>2, <3>3, <3>4
  <2> QED
    BY <1>0, <1>2, <2>1, <2>4, SMTT(20)
<1> QED
  BY <1>1, <1>2

\* Flattening gives a sequence of the elements; of no sequences, the empty one.
LEMMA FlattenType ==
    ASSUME NEW S, NEW s \in Seq(Seq(S))
    PROVE  FlattenSeq(s) \in Seq(S)
<1>1. PICK f : Joined(S, s, f)
  BY JoinedExist
<1>2. f[Len(s)] \in Seq(S)
  BY <1>1, LenProperties DEF Joined
<1> QED
  BY <1>1, <1>2, FlattenIsLast

\* Flattening nothing gives the empty sequence.
LEMMA FlattenEmpty == FlattenSeq(<<>>) = <<>>
BY EmptySeq DEF FlattenSeq

\* A sequence pushed at the end comes last,
LEMMA FlattenAppend ==
    ASSUME NEW S, NEW s \in Seq(Seq(S)), NEW b \in Seq(S)
    PROVE  FlattenSeq(Append(s, b)) = FlattenSeq(s) \o b
<1> DEFINE t == Append(s, b)
           n == Len(s)
<1>1. PICK f : Joined(S, s, f)
  BY JoinedExist
<1>0. /\ n \in Nat /\ f \in [0..n -> Seq(S)] /\ f[0] = <<>>
      /\ \A i \in 1..n : f[i] = f[i - 1] \o s[i]
  BY <1>1, LenProperties DEF Joined
<1>2. /\ t \in Seq(Seq(S)) /\ Len(t) = n + 1
      /\ \A i \in 1..n : t[i] = s[i]
  BY AppendProperties
<1>b. t[n + 1] = b
  BY AppendProperties
<1>3. f[n] \o b \in Seq(S)
  BY <1>0, ConcatProperties
<1> DEFINE g == [i \in 0..(n + 1) |-> IF i = n + 1 THEN f[n] \o b ELSE f[i]]
<1> HIDE DEF t, n
<1>4. g \in [0..(n + 1) -> Seq(S)] /\ g[0] = <<>> /\ g[n + 1] = f[n] \o b
  BY <1>0, <1>3
<1>5. ASSUME NEW i \in 1..(n + 1) PROVE g[i] = g[i - 1] \o t[i]
  <2>1. i - 1 \in 0..(n + 1) /\ i - 1 # n + 1 /\ g[i - 1] = f[i - 1]
    BY <1>0
  <2>2. CASE i = n + 1
    <3>1. i - 1 = n
      BY <1>0, <2>2
    <3> HIDE DEF g
    <3> QED
      BY <1>4, <1>b, <2>1, <2>2, <3>1
  <2>3. CASE i # n + 1
    <3>1. i \in 1..n /\ g[i] = f[i]
      BY <1>0, <2>3
    <3> QED
      BY <1>0, <1>2, <2>1, <3>1
  <2> QED
    BY <2>2, <2>3
<1>6. Joined(S, t, g)
  <2> HIDE DEF g
  <2> QED
    BY <1>2, <1>4, <1>5 DEF Joined
<1>7. FlattenSeq(t) = g[n + 1]
  <2> HIDE DEF g
  <2> QED
    BY <1>2, <1>6, FlattenIsLast
<1>8. FlattenSeq(s) = f[n]
  BY <1>1, FlattenIsLast DEF n
<1> QED
  BY <1>4, <1>7, <1>8 DEF t

\* and the first sequence of a non-empty queue comes first.
LEMMA FlattenHead ==
    ASSUME NEW S, NEW s \in Seq(Seq(S)), s # <<>>
    PROVE  FlattenSeq(s) = Head(s) \o FlattenSeq(Tail(s))
<1> DEFINE h == Head(s)
           t == Tail(s)
           n == Len(t)
<1>c. \A x, y, z \in Seq(S) : (x \o y) \o z = x \o (y \o z)
  BY Monoid
<1>1. /\ h \in Seq(S) /\ t \in Seq(Seq(S)) /\ n \in Nat /\ Len(s) = n + 1
      /\ s[1] = h /\ \A i \in 1..n : t[i] = s[i + 1]
  <2>1. /\ h \in Seq(S) /\ t \in Seq(Seq(S)) /\ Len(t) = Len(s) - 1
        /\ \A i \in 1..Len(t) : t[i] = s[i + 1]
    BY HeadTailProperties
  <2>2. Len(s) \in Nat /\ n \in Nat /\ h = s[1]
    BY <2>1, LenProperties
  <2> QED
    BY <2>1, <2>2
<1>2. PICK f : Joined(S, t, f)
  BY <1>1, JoinedExist
<1>0. /\ f \in [0..n -> Seq(S)] /\ f[0] = <<>>
      /\ \A i \in 1..n : f[i] = f[i - 1] \o t[i]
  BY <1>2 DEF Joined
<1> HIDE DEF h, t, n
<1> DEFINE g == [i \in 0..(n + 1) |-> IF i = 0 THEN <<>> ELSE h \o f[i - 1]]
<1>3. g \in [0..(n + 1) -> Seq(S)] /\ g[0] = <<>> /\ g[n + 1] = h \o f[n]
  <2>1. \A i \in 0..n : h \o f[i] \in Seq(S)
    BY <1>0, <1>1, ConcatProperties
  <2>2. \A i \in 0..(n + 1) : i # 0 => i - 1 \in 0..n
    BY <1>1
  <2>3. <<>> \in Seq(S)
    BY EmptySeq
  <2> QED
    BY <1>1, <2>1, <2>2, <2>3, SMTT(20)
<1>4. ASSUME NEW i \in 1..(n + 1) PROVE g[i] = g[i - 1] \o s[i]
  <2>1. i \in 0..(n + 1) /\ i # 0 /\ g[i] = h \o f[i - 1]
    BY <1>1
  <2>2. CASE i = 1
    <3>1. g[i - 1] = <<>> /\ h \o f[i - 1] = h /\ <<>> \o h = h
      BY <1>0, <1>1, <1>3, <2>2, ConcatEmptySeq, SMTT(20)
    <3> QED
      BY <1>1, <2>1, <2>2, <3>1
  <2>3. CASE i # 1
    <3>1. /\ i - 1 \in 1..n /\ i - 2 \in 0..n /\ i - 1 \in 0..(n + 1) /\ i - 1 # 0
          /\ (i - 1) - 1 = i - 2 /\ (i - 1) + 1 = i
      BY <1>1, <2>3
    <3>2. f[i - 1] = f[i - 2] \o s[i]
      BY <1>0, <1>1, <3>1
    <3>3. g[i - 1] = h \o f[i - 2]
      BY <3>1
    <3>4. f[i - 2] \in Seq(S) /\ s[i] \in Seq(S)
      BY <1>0, <1>1, <3>1, ElementOfSeq
    <3>5. (h \o f[i - 2]) \o s[i] = h \o (f[i - 2] \o s[i])
      BY <1>1, <1>c, <3>4
    <3> HIDE DEF g
    <3> QED
      BY <2>1, <3>2, <3>3, <3>5
  <2> QED
    BY <2>2, <2>3
<1>5. Joined(S, s, g)
  <2> HIDE DEF g
  <2> QED
    BY <1>1, <1>3, <1>4 DEF Joined
<1>6. FlattenSeq(s) = g[n + 1]
  <2> HIDE DEF g
  <2> QED
    BY <1>1, <1>5, FlattenIsLast
<1>7. FlattenSeq(t) = f[n]
  BY <1>1, <1>2, FlattenIsLast DEF n
<1> QED
  BY <1>3, <1>6, <1>7 DEF h, t

\* The first k of the sequences, flattened, come first, then the next one, then
\* the others.
LEMMA FlattenSplit ==
    ASSUME NEW S, NEW s \in Seq(Seq(S)), NEW k \in Nat, k < Len(s)
    PROVE  /\ FlattenSeq([i \in 1..k |-> s[i]]) \in Seq(S)
           /\ s[k + 1] \in Seq(S)
           /\ FlattenSeq([i \in 1..(k + 1) |-> s[i]])
                = FlattenSeq([i \in 1..k |-> s[i]]) \o s[k + 1]
           /\ \E rest \in Seq(S) :
                FlattenSeq(s) = FlattenSeq([i \in 1..(k + 1) |-> s[i]]) \o rest
<1> DEFINE n == Len(s)
<1>1. PICK f : Joined(S, s, f)
  BY JoinedExist
<1>0. /\ n \in Nat /\ f \in [0..n -> Seq(S)] /\ f[0] = <<>>
      /\ \A i \in 1..n : f[i] = f[i - 1] \o s[i]
      /\ \A i \in 1..n : s[i] \in Seq(S)
  BY <1>1, LenProperties, ElementOfSeq DEF Joined
<1>2. ASSUME NEW m \in 0..n PROVE FlattenSeq([i \in 1..m |-> s[i]]) = f[m]
  <2> DEFINE u == [i \in 1..m |-> s[i]]
             g == [i \in 0..m |-> f[i]]
  <2>1. u \in [1..m -> Seq(S)] /\ m \in Nat
    BY <1>0
  <2>2. u \in Seq(Seq(S)) /\ Len(u) = m
    <3> HIDE DEF u
    <3> QED
      BY <2>1, FunctionIsSeq
  <2>3. g \in [0..m -> Seq(S)] /\ g[0] = <<>> /\ g[m] = f[m]
    <3>0. \A i \in 0..m : i \in 0..n
      BY <1>0
    <3>1. \A i \in 0..m : f[i] \in Seq(S)
      BY <1>0, <3>0, Zenon
    <3>2. 0 \in 0..m /\ m \in 0..m
      BY <2>1
    <3> QED
      BY <1>0, <3>1, <3>2, Zenon
  <2>4. ASSUME NEW i \in 1..m PROVE g[i] = g[i - 1] \o u[i]
    <3>1. i \in 0..m /\ i - 1 \in 0..m /\ i \in 1..n
      BY <1>0, <2>1
    <3>2. g[i] = f[i] /\ g[i - 1] = f[i - 1] /\ u[i] = s[i]
      BY <3>1, Zenon
    <3>3. f[i] = f[i - 1] \o s[i]
      BY <1>0, <3>1
    <3> HIDE DEF g, u
    <3> QED
      BY <3>2, <3>3
  <2>5. Joined(S, u, g)
    <3> HIDE DEF u, g
    <3> QED
      BY <2>2, <2>3, <2>4 DEF Joined
  <2> HIDE DEF u, g
  <2>6. FlattenSeq(u) = f[m]
    BY <2>2, <2>3, <2>5, FlattenIsLast
  <2> QED
    BY <2>6 DEF u
<1>3. FlattenSeq(s) = f[n]
  BY <1>1, FlattenIsLast
<1>c. \A x, y, z \in Seq(S) : (x \o y) \o z = x \o (y \o z)
  BY Monoid
<1> DEFINE Continues(m) == \E rest \in Seq(S) : f[m] = f[k + 1] \o rest
           Bad == {m \in (k + 1)..n : ~Continues(m)}
<1>4. Bad = {}
  <2> SUFFICES ASSUME Bad # {} PROVE FALSE
    OBVIOUS
  <2>1. PICK m \in Bad : \A j \in Bad : m <= j
    <3>1. Bad \in SUBSET Nat
      <4> HIDE DEF Continues
      <4> QED
        BY <1>0
    <3> HIDE DEF Bad
    <3> QED
      BY <3>1, LeastNatural
  <2>2. m \in (k + 1)..n /\ ~Continues(m)
    <3> HIDE DEF Continues
    <3> QED
      BY <2>1
  <2>3. m # k + 1
    <3>0. k + 1 \in 0..n
      BY <1>0
    <3>1. f[k + 1] \in Seq(S) /\ <<>> \in Seq(S)
      BY <1>0, <3>0, EmptySeq
    <3>2. f[k + 1] = f[k + 1] \o <<>>
      BY <3>1, ConcatEmptySeq
    <3>3. Continues(k + 1)
      BY <3>1, <3>2
    <3> HIDE DEF Continues
    <3> QED
      BY <2>2, <3>3
  <2>4. m \in 1..n /\ m - 1 \in (k + 1)..n /\ ~(m <= m - 1)
    BY <1>0, <2>2, <2>3
  <2>5. Continues(m - 1)
    <3>1. m - 1 \notin Bad
      BY <2>1, <2>4
    <3> HIDE DEF Continues
    <3> QED
      BY <2>4, <3>1
  <2>6. PICK rest \in Seq(S) : f[m - 1] = f[k + 1] \o rest
    BY <2>5
  <2>7. s[m] \in Seq(S) /\ f[m] = f[m - 1] \o s[m] /\ f[k + 1] \in Seq(S)
    <3>1. k + 1 \in 0..n
      BY <1>0
    <3> QED
      BY <1>0, <2>4, <3>1
  <2>8. rest \o s[m] \in Seq(S)
    BY <2>7, ConcatProperties
  <2>9. f[m] = f[k + 1] \o (rest \o s[m])
    <3>1. (f[k + 1] \o rest) \o s[m] = f[k + 1] \o (rest \o s[m])
      BY <1>c, <2>7, Zenon
    <3>2. f[m] = (f[k + 1] \o rest) \o s[m]
      BY <2>6, <2>7, Zenon
    <3> QED
      BY <3>1, <3>2, Zenon
  <2> QED
    BY <2>2, <2>8, <2>9
<1>5. Continues(n)
  <2>1. n \in (k + 1)..n
    BY <1>0
  <2> HIDE DEF Continues
  <2> QED
    BY <1>4, <2>1
<1>6. k \in 0..n /\ k + 1 \in 0..n /\ k + 1 \in 1..n /\ (k + 1) - 1 = k
  BY <1>0
<1>7. f[k] \in Seq(S) /\ s[k + 1] \in Seq(S) /\ f[k + 1] = f[k] \o s[k + 1]
  BY <1>0, <1>6
<1>8. /\ FlattenSeq([i \in 1..k |-> s[i]]) = f[k]
      /\ FlattenSeq([i \in 1..(k + 1) |-> s[i]]) = f[k + 1]
  BY <1>2, <1>6
<1> QED
  BY <1>3, <1>5, <1>7, <1>8

\* What was written is a prefix of what is written and what is left.
LEMMA PrefixOfConcat ==
    ASSUME NEW S, NEW a \in Seq(S), NEW b \in Seq(S)
    PROVE  IsPrefix(a, a \o b)
<1>1. Len(a) \in Nat /\ Len(b) \in Nat /\ a \o b \in Seq(S) /\ Len(a \o b) = Len(a) + Len(b)
  BY LenProperties, ConcatProperties
<1>2. \A i \in 1..Len(a) : (a \o b)[i] = a[i]
  BY <1>1, ConcatProperties
<1>3. /\ SubSeq(a, 0 + 1, Len(a)) \in Seq(S) /\ Len(SubSeq(a, 0 + 1, Len(a))) = Len(a) - 0
      /\ \A i \in 1..(Len(a) - 0) : SubSeq(a, 0 + 1, Len(a))[i] = a[0 + i]
  BY <1>1, Slice
<1>4. /\ SubSeq(a \o b, 0 + 1, Len(a)) \in Seq(S)
      /\ Len(SubSeq(a \o b, 0 + 1, Len(a))) = Len(a) - 0
      /\ \A i \in 1..(Len(a) - 0) : SubSeq(a \o b, 0 + 1, Len(a))[i] = (a \o b)[0 + i]
  <2> DEFINE c == a \o b
  <2>1. c \in Seq(S) /\ Len(a) <= Len(c)
    BY <1>1
  <2> HIDE DEF c
  <2>2. /\ SubSeq(c, 0 + 1, Len(a)) \in Seq(S)
        /\ Len(SubSeq(c, 0 + 1, Len(a))) = Len(a) - 0
        /\ \A i \in 1..(Len(a) - 0) : SubSeq(c, 0 + 1, Len(a))[i] = c[0 + i]
    BY <1>1, <2>1, Slice
  <2> QED
    BY <2>2 DEF c
<1> DEFINE x == SubSeq(a, 1, Len(a))
           y == SubSeq(a \o b, 1, Len(a))
<1>5. /\ x \in Seq(S) /\ y \in Seq(S) /\ Len(x) = Len(a) /\ Len(y) = Len(a)
      /\ \A i \in 1..Len(a) : x[i] = y[i]
  BY <1>1, <1>2, <1>3, <1>4
<1>6. x = y
  <2> HIDE DEF x, y
  <2> QED
    BY <1>5, SeqEqual
<1> QED
  BY <1>1, <1>6 DEF IsPrefix
=============================================================================
