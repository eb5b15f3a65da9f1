-------------------------- MODULE SyntheticsProofs --------------------------
(***************************************************************************)
(* Proofs about Synthetics, for lists of any length over any roles: the    *)
(* wrapping keeps the nodes in order, every replacement wraps two          *)
(* instances or more, and when the loop ends nothing is repeated.  And     *)
(* about Structure, for AX trees of any size: which nodes the structure    *)
(* tree has and where, and what its hashes, paths and parents say.         *)
(***************************************************************************)
EXTENDS Synthetics, Structure, FiniteSetTheorems, SequenceTheorems, TLAPS

-----------------------------------------------------------------------------
(* Induction, and functions defined by recursion.                          *)

\* A set of natural numbers has a least element.
LEMMA Least ==
    ASSUME NEW S \in SUBSET Nat, S # {}
    PROVE  \E n \in S : \A m \in S : n <= m
<1> DEFINE upto == {0..n : n \in S}
<1>1. upto \subseteq FiniteSubsetsOf(Nat) /\ upto # {}
  <2> SUFFICES ASSUME NEW n \in S PROVE 0..n \in SUBSET Nat /\ IsFiniteSet(0..n)
    BY DEF FiniteSubsetsOf
  <2> QED
    BY FS_Interval
<1>2. PICK x \in upto : \A y \in upto : ~ (<<y, x>> \in StrictSubsetOrdering(Nat))
  <2> HIDE DEF upto
  <2> QED
    BY <1>1, FS_StrictSubsetOrderingWellFounded, WFMin
<1>3. PICK n \in S : x = 0..n
  OBVIOUS
<1>4. ASSUME NEW m \in S, m < n PROVE FALSE
  <2>1. 0..m \in upto /\ 0..m \in SUBSET Nat /\ 0..n \in SUBSET Nat
    OBVIOUS
  <2>2. 0..m \subseteq 0..n /\ n \in 0..n /\ n \notin 0..m
    BY <1>4
  <2> QED
    BY <1>2, <1>3, <2>1, <2>2 DEF StrictSubsetOrdering
<1> QED
  BY <1>4

\* A bounded set of natural numbers has a greatest element.
LEMMA Greatest ==
    ASSUME NEW N \in Nat, NEW S \in SUBSET (0..N), S # {}
    PROVE  \E n \in S : \A m \in S : m <= n
<1> DEFINE T == {k \in Nat : N - k \in S}
<1>1. T \in SUBSET Nat /\ T # {}
  <2>1. PICK n \in S : TRUE
    OBVIOUS
  <2>2. n \in 0..N /\ N - (N - n) = n /\ N - n \in Nat
    OBVIOUS
  <2>3. N - n \in T
    BY <2>2
  <2> QED
    BY <2>3
<1>2. PICK t \in T : \A u \in T : t <= u
  BY <1>1, Least
<1>3. N - t \in S /\ t \in Nat
  BY <1>2
<1>4. ASSUME NEW n \in S PROVE n <= N - t
  <2>1. n \in 0..N /\ N - (N - n) = n /\ N - n \in Nat
    OBVIOUS
  <2>2. N - n \in T
    BY <2>1
  <2>3. t <= N - n
    BY <1>2, <2>2
  <2> QED
    BY <1>3, <2>1, <2>3
<1> QED
  BY <1>3, <1>4

\* Induction on natural numbers.
LEMMA Induct ==
    ASSUME NEW S, 0 \in S, \A n \in Nat : n \in S => n + 1 \in S
    PROVE  \A n \in Nat : n \in S
<1> SUFFICES ASSUME NEW k \in Nat, k \notin S PROVE FALSE
  OBVIOUS
<1> DEFINE T == {n \in Nat : n \notin S}
<1>1. PICK n \in T : \A m \in T : n <= m
  <2> T \in SUBSET Nat /\ T # {}
    OBVIOUS
  <2> QED
    BY Least
<1>2. n - 1 \in Nat /\ n - 1 \in S
  BY <1>1
<1> QED
  BY <1>1, <1>2

\* A function that takes at t, unless t is in Stop, what it takes at next[t]
\* and puts front[t] before it.
Recurs(f, D, Stop, base, front, next) ==
    f = [t \in D |-> IF t \in Stop THEN base[t] ELSE front[t] \o f[next[t]]]

\* There is such a function.
LEMMA Recursion ==
    ASSUME NEW D, NEW M \in Nat, NEW m \in [D -> 0..M], NEW Stop, NEW base, NEW front, NEW next,
           \A t \in D : t \notin Stop => next[t] \in D /\ m[next[t]] < m[t]
    PROVE  \E f : Recurs(f, D, Stop, base, front, next)
<1> DEFINE Low(k) == {t \in D : m[t] < k}
           Def(k, g) == g = [t \in Low(k) |-> IF t \in Stop THEN base[t] ELSE front[t] \o g[next[t]]]
           S == {k \in Nat : \E g : Def(k, g)}
<1>1. 0 \in S
  <2>1. Low(0) = {}
    OBVIOUS
  <2>2. Def(0, [t \in {} |-> 0])
    BY <2>1
  <2> QED
    BY <2>2
<1>2. ASSUME NEW k \in Nat, k \in S PROVE k + 1 \in S
  <2>1. PICK g : Def(k, g)
    BY <1>2
  <2> DEFINE h == [t \in Low(k + 1) |-> IF t \in Stop THEN base[t] ELSE front[t] \o g[next[t]]]
  <2>2. ASSUME NEW t \in Low(k) PROVE t \in Low(k + 1) /\ h[t] = g[t]
    <3>1. t \in Low(k + 1)
      OBVIOUS
    <3>2. g[t] = IF t \in Stop THEN base[t] ELSE front[t] \o g[next[t]]
      <4> HIDE DEF Low
      <4> QED
        BY <2>1
    <3> HIDE DEF Low
    <3> QED
      BY <3>1, <3>2
  <2>3. ASSUME NEW t \in Low(k + 1), t \notin Stop PROVE h[next[t]] = g[next[t]]
    <3>1. next[t] \in Low(k)
      BY <2>3
    <3> HIDE DEF Low, h
    <3> QED
      BY <2>2, <3>1
  <2>4. Def(k + 1, h)
    <3> HIDE DEF Low
    <3> QED
      BY <2>3
  <2>5. \E f : Def(k + 1, f)
    <3> HIDE DEF h, Def
    <3> QED
      BY <2>4
  <2> HIDE DEF Def
  <2> QED
    BY <2>5
<1>3. M + 1 \in S
  <2> HIDE DEF S
  <2> QED
    BY <1>1, <1>2, Induct
<1>4. Low(M + 1) = D
  OBVIOUS
<1> QED
  BY <1>3, <1>4 DEF Recurs

\* Induction on the length of a sequence.
LEMMA SeqInduct ==
    ASSUME NEW S, NEW T, <<>> \in T, \A s \in Seq(S), e \in S : s \in T => Append(s, e) \in T
    PROVE  \A s \in Seq(S) : s \in T
<1> DEFINE N == {n \in Nat : \A s \in Seq(S) : Len(s) = n => s \in T}
<1>1. 0 \in N
  BY EmptySeq
<1>2. ASSUME NEW n \in Nat, n \in N PROVE n + 1 \in N
  <2> SUFFICES ASSUME NEW s \in Seq(S), Len(s) = n + 1 PROVE s \in T
    OBVIOUS
  <2>1. s # <<>>
    BY EmptySeq
  <2>2. PICK t \in Seq(S), e \in S : s = Append(t, e)
    BY <2>1, SequenceEmptyOrAppend
  <2>3. Len(t) = n
    BY <2>2, AppendProperties, LenProperties
  <2> QED
    BY <1>2, <2>2, <2>3
<1>3. \A n \in Nat : n \in N
  <2> HIDE DEF N
  <2> QED
    BY <1>1, <1>2, Induct
<1> QED
  BY <1>3, LenProperties
-----------------------------------------------------------------------------
(* FlattenSeq.                                                             *)

\* The function that FlattenSeq computes with.
Flattens(f, ss) == f = [i \in 1..Len(ss) |-> IF i = 1 THEN ss[i] ELSE f[i - 1] \o ss[i]]

\* Its equation at one place.
LEMMA FlattensAt ==
    ASSUME NEW ss, NEW f, Flattens(f, ss), NEW i \in 1..Len(ss)
    PROVE  f[i] = IF i = 1 THEN ss[i] ELSE f[i - 1] \o ss[i]
  BY DEF Flattens

\* It exists, for every beginning of a sequence of sequences.
LEMMA FlattenExists ==
    ASSUME NEW S, NEW ss \in Seq(Seq(S))
    PROVE  \E f : Flattens(f, ss)
<1> DEFINE T == {s \in Seq(Seq(S)) : \E f : Flattens(f, s)}
<1>1. <<>> \in T
  <2>1. Flattens([i \in {} |-> 0], <<>>)
    BY DEF Flattens
  <2> QED
    BY <2>1, EmptySeq
<1>2. ASSUME NEW s \in Seq(Seq(S)), NEW e \in Seq(S), s \in T PROVE Append(s, e) \in T
  <2>1. PICK f : Flattens(f, s)
    BY <1>2
  <2> DEFINE n == Len(s)
             t == Append(s, e)
             g == [i \in 1..(n + 1) |-> IF i = n + 1 THEN IF n = 0 THEN e ELSE f[n] \o e ELSE f[i]]
  <2>2. n \in Nat /\ Len(t) = n + 1 /\ t[n + 1] = e /\ \A i \in 1..n : t[i] = s[i]
    BY AppendProperties, LenProperties
  <2>3. ASSUME NEW i \in 1..(n + 1) PROVE g[i] = IF i = 1 THEN t[i] ELSE g[i - 1] \o t[i]
    <3>1. CASE i = n + 1
      BY <2>2, <3>1
    <3>2. CASE i # n + 1
      <4>1. i \in 1..n /\ (i # 1 => i - 1 \in 1..n)
        BY <2>2, <3>2
      <4>2. f[i] = IF i = 1 THEN s[i] ELSE f[i - 1] \o s[i]
        BY <2>1, <4>1 DEF Flattens
      <4>3. g[i] = f[i] /\ (i # 1 => g[i - 1] = f[i - 1])
        BY <2>2, <3>2, <4>1
      <4> QED
        BY <2>2, <4>1, <4>2, <4>3
    <3> QED
      BY <3>1, <3>2
  <2>4. Flattens(g, t)
    <3>1. g = [i \in 1..(n + 1) |-> g[i]]
      OBVIOUS
    <3>2. g = [i \in 1..(n + 1) |-> IF i = 1 THEN t[i] ELSE g[i - 1] \o t[i]]
      <4> HIDE DEF g, t
      <4> QED
        BY <2>3, <3>1
    <3> HIDE DEF g
    <3> QED
      BY <2>2, <3>2 DEF Flattens
  <2>5. t \in Seq(Seq(S))
    BY AppendProperties
  <2> HIDE DEF g
  <2> QED
    BY <2>4, <2>5
<1> QED
  <2> HIDE DEF T
  <2>1. \A s \in Seq(Seq(S)) : s \in T
    BY <1>1, <1>2, SeqInduct
  <2> QED
    BY <2>1 DEF T

\* FlattenSeq by that function.
LEMMA FlattenBy ==
    ASSUME NEW S, NEW ss \in Seq(Seq(S)), ss # <<>>
    PROVE  \E f : Flattens(f, ss) /\ FlattenSeq(ss) = f[Len(ss)]
<1>1. Len(ss) # 0
  BY EmptySeq
<1> DEFINE f == CHOOSE f : Flattens(f, ss)
<1>2. Flattens(f, ss)
  BY FlattenExists
<1>3. FlattenSeq(ss) = f[Len(ss)]
  BY <1>1 DEF FlattenSeq, Flattens
<1> HIDE DEF f
<1> QED
  BY <1>2, <1>3

\* What FlattenSeq makes of one sequence more.
LEMMA FlattenAppend ==
    ASSUME NEW S, NEW ss \in Seq(Seq(S)), NEW e \in Seq(S)
    PROVE  FlattenSeq(Append(ss, e)) = IF ss = <<>> THEN e ELSE FlattenSeq(ss) \o e
<1> DEFINE n == Len(ss)
           t == Append(ss, e)
<1>1. n \in Nat /\ t \in Seq(Seq(S)) /\ t # <<>> /\ Len(t) = n + 1 /\ t[n + 1] = e
      /\ \A i \in 1..n : t[i] = ss[i]
  BY AppendProperties, LenProperties
<1>2. PICK g : Flattens(g, t) /\ FlattenSeq(t) = g[n + 1]
  BY <1>1, FlattenBy
<1>3. CASE ss = <<>>
  BY <1>1, <1>2, <1>3, EmptySeq DEF Flattens
<1>4. CASE ss # <<>>
  <2>1. PICK f : Flattens(f, ss) /\ FlattenSeq(ss) = f[n]
    BY <1>4, FlattenBy
  <2>2. n # 0
    BY <1>4, EmptySeq
  <2> DEFINE Same == {k \in Nat : k \in 1..n => f[k] = g[k]}
  <2>3. 0 \in Same
    OBVIOUS
  <2>4. ASSUME NEW k \in Nat, k \in Same PROVE k + 1 \in Same
    <3> SUFFICES ASSUME k + 1 \in 1..n PROVE f[k + 1] = g[k + 1]
      OBVIOUS
    <3>1. f[k + 1] = IF k + 1 = 1 THEN ss[k + 1] ELSE f[(k + 1) - 1] \o ss[k + 1]
      BY <2>1, FlattensAt
    <3>2. k + 1 \in 1..Len(t)
      BY <1>1
    <3>3. g[k + 1] = IF k + 1 = 1 THEN t[k + 1] ELSE g[(k + 1) - 1] \o t[k + 1]
      BY <1>2, <3>2, FlattensAt
    <3>4. k # 0 => f[k] = g[k]
      BY <1>1, <2>4
    <3>5. (k + 1) - 1 = k
      OBVIOUS
    <3> HIDE DEF t, Same
    <3> QED
      BY <1>1, <3>1, <3>3, <3>4, <3>5
  <2>5. f[n] = g[n]
    <3>1. \A k \in Nat : k \in Same
      <4> HIDE DEF Same
      <4> QED
        BY <2>3, <2>4, Induct
    <3> QED
      BY <1>1, <2>2, <3>1
  <2>6. g[n + 1] = g[n] \o e
    <3>1. n + 1 \in 1..Len(t) /\ n + 1 # 1 /\ (n + 1) - 1 = n
      BY <1>1, <2>2
    <3>2. g[n + 1] = IF n + 1 = 1 THEN t[n + 1] ELSE g[(n + 1) - 1] \o t[n + 1]
      BY <1>2, <3>1, FlattensAt
    <3> HIDE DEF t
    <3> QED
      BY <1>1, <3>1, <3>2
  <2> QED
    BY <1>2, <1>4, <2>1, <2>5, <2>6
<1> QED
  BY <1>3, <1>4

\* What FlattenSeq makes of no sequence.
LEMMA FlattenEmpty == FlattenSeq(<<>>) = <<>>
  BY DEF FlattenSeq

\* What FlattenSeq makes of sequences is one.
LEMMA FlattenType ==
    ASSUME NEW S, NEW ss \in Seq(Seq(S))
    PROVE  FlattenSeq(ss) \in Seq(S)
<1> DEFINE T == {s \in Seq(Seq(S)) : FlattenSeq(s) \in Seq(S)}
<1>1. <<>> \in T
  BY FlattenEmpty, EmptySeq
<1>2. ASSUME NEW s \in Seq(Seq(S)), NEW e \in Seq(S), s \in T PROVE Append(s, e) \in T
  BY <1>2, FlattenAppend, AppendProperties, ConcatProperties
<1> HIDE DEF T
<1>3. \A s \in Seq(Seq(S)) : s \in T
  BY <1>1, <1>2, SeqInduct
<1> QED
  BY <1>3 DEF T
-----------------------------------------------------------------------------
(* Unwrap: one level of wrappers less.                                     *)

\* The children of a wrapper are in the set, too.
Tidy(S) == \A n \in S : n.id = 0 => n.kids \in Seq(S)

Opened(n) == IF n.id = 0 THEN n.kids ELSE <<n>>
EachOpened(nodes) == [i \in DOMAIN nodes |-> Opened(nodes[i])]

\* A node opened is a list of nodes.
LEMMA OpenedType ==
    ASSUME NEW S, Tidy(S), NEW n \in S
    PROVE  Opened(n) \in Seq(S)
  BY DEF Tidy, Opened

\* A list, each node of it opened, is a list of lists.
LEMMA EachOpenedType ==
    ASSUME NEW S, Tidy(S), NEW a \in Seq(S)
    PROVE  EachOpened(a) \in Seq(Seq(S)) /\ Len(EachOpened(a)) = Len(a)
<1>1. Len(a) \in Nat /\ DOMAIN a = 1..Len(a) /\ \A i \in 1..Len(a) : a[i] \in S
  BY LenProperties, ElementOfSeq
<1>2. \A i \in 1..Len(a) : Opened(a[i]) \in Seq(S)
  BY <1>1, OpenedType
<1>3. EachOpened(a) = [i \in 1..Len(a) |-> Opened(a[i])]
  BY <1>1 DEF EachOpened
<1> QED
  BY <1>1, <1>2, <1>3

\* Unwrapping nothing.
LEMMA UnwrapEmpty == Unwrap(<<>>) = <<>>
<1>1. EachOpened(<<>>) = <<>>
  BY DEF EachOpened
<1> QED
  BY <1>1, FlattenEmpty DEF Unwrap, EachOpened, Opened

\* Unwrapping a list.
LEMMA UnwrapType ==
    ASSUME NEW S, Tidy(S), NEW a \in Seq(S)
    PROVE  Unwrap(a) \in Seq(S)
<1>1. Unwrap(a) = FlattenSeq(EachOpened(a))
  BY DEF Unwrap, EachOpened, Opened
<1> QED
  BY <1>1, EachOpenedType, FlattenType

\* Unwrapping one node more.
LEMMA UnwrapAppend ==
    ASSUME NEW S, Tidy(S), NEW a \in Seq(S), NEW n \in S
    PROVE  Unwrap(Append(a, n)) = Unwrap(a) \o Opened(n)
<1>1. EachOpened(a) \in Seq(Seq(S)) /\ Len(EachOpened(a)) = Len(a) /\ Opened(n) \in Seq(S)
  BY EachOpenedType, OpenedType
<1>2. EachOpened(Append(a, n)) = Append(EachOpened(a), Opened(n))
  <2> DEFINE s == EachOpened(Append(a, n))
             t == Append(EachOpened(a), Opened(n))
  <2>1. Append(a, n) \in Seq(S) /\ Len(Append(a, n)) = Len(a) + 1 /\ Append(a, n)[Len(a) + 1] = n
        /\ \A i \in 1..Len(a) : Append(a, n)[i] = a[i]
    BY AppendProperties
  <2>2. s \in Seq(Seq(S)) /\ Len(s) = Len(a) + 1
    BY <2>1, EachOpenedType
  <2>3. t \in Seq(Seq(S)) /\ Len(t) = Len(a) + 1 /\ t[Len(a) + 1] = Opened(n)
        /\ \A i \in 1..Len(a) : t[i] = EachOpened(a)[i]
    BY <1>1, AppendProperties
  <2>4. Len(a) \in Nat /\ DOMAIN a = 1..Len(a) /\ DOMAIN Append(a, n) = 1..(Len(a) + 1)
    BY <2>1, LenProperties
  <2>5. ASSUME NEW i \in 1..(Len(a) + 1) PROVE s[i] = t[i]
    <3>1. s[i] = Opened(Append(a, n)[i])
      BY <2>4 DEF EachOpened
    <3>2. CASE i = Len(a) + 1
      <4> HIDE DEF t
      <4> QED
        BY <2>1, <2>3, <3>1, <3>2
    <3>3. CASE i # Len(a) + 1
      <4>1. i \in 1..Len(a)
        BY <2>4, <3>3
      <4>2. EachOpened(a)[i] = Opened(a[i])
        BY <2>4, <4>1 DEF EachOpened
      <4> HIDE DEF s, t
      <4> QED
        BY <2>1, <2>3, <3>1, <4>1, <4>2
    <3> QED
      BY <3>2, <3>3
  <2> HIDE DEF s, t
  <2>6. s = t
    BY <2>2, <2>3, <2>5, SeqEqual
  <2> QED
    BY <2>6 DEF s, t
<1>3. Unwrap(Append(a, n)) = FlattenSeq(EachOpened(Append(a, n)))
      /\ Unwrap(a) = FlattenSeq(EachOpened(a))
  BY DEF Unwrap, EachOpened, Opened
<1>4. EachOpened(a) = <<>> => FlattenSeq(EachOpened(a)) \o Opened(n) = Opened(n)
  BY <1>1, FlattenEmpty, ConcatEmptySeq
<1> QED
  BY <1>1, <1>2, <1>3, <1>4, FlattenAppend

\* Unwrapping one node.
LEMMA UnwrapOne ==
    ASSUME NEW S, Tidy(S), NEW n \in S
    PROVE  Unwrap(<<n>>) = Opened(n)
<1>1. <<>> \in Seq(S) /\ Append(<<>>, n) = <<n>>
  BY EmptySeq
<1>2. Unwrap(Append(<<>>, n)) = Unwrap(<<>>) \o Opened(n)
  BY <1>1, UnwrapAppend
<1>3. Opened(n) \in Seq(S)
  BY OpenedType
<1>4. <<>> \o Opened(n) = Opened(n)
  BY <1>3, ConcatEmptySeq
<1> QED
  BY <1>1, <1>2, <1>4, UnwrapEmpty

\* Unwrapping two lists, one after the other.
LEMMA UnwrapConcat ==
    ASSUME NEW S, Tidy(S), NEW a \in Seq(S), NEW b \in Seq(S)
    PROVE  Unwrap(a \o b) = Unwrap(a) \o Unwrap(b)
<1> DEFINE T == {s \in Seq(S) : Unwrap(a \o s) = Unwrap(a) \o Unwrap(s)}
<1>1. <<>> \in T
  BY UnwrapType, UnwrapEmpty, ConcatEmptySeq, EmptySeq
<1>2. ASSUME NEW s \in Seq(S), NEW e \in S, s \in T PROVE Append(s, e) \in T
  <2>1. a \o Append(s, e) = Append(a \o s, e) /\ a \o s \in Seq(S) /\ Append(s, e) \in Seq(S)
    BY AppendIsConcat, AppendProperties, ConcatProperties, ConcatAssociative
  <2>2. Unwrap(Append(a \o s, e)) = Unwrap(a \o s) \o Opened(e)
    BY <2>1, UnwrapAppend
  <2>3. Unwrap(Append(s, e)) = Unwrap(s) \o Opened(e)
    BY UnwrapAppend
  <2>4. (Unwrap(a) \o Unwrap(s)) \o Opened(e) = Unwrap(a) \o (Unwrap(s) \o Opened(e))
    <3>1. Unwrap(a) \in Seq(S) /\ Unwrap(s) \in Seq(S) /\ Opened(e) \in Seq(S)
      BY UnwrapType, OpenedType
    <3> QED
      BY <3>1, ConcatAssociative
  <2> QED
    BY <1>2, <2>1, <2>2, <2>3, <2>4
<1> HIDE DEF T
<1>3. \A s \in Seq(S) : s \in T
  BY <1>1, <1>2, SeqInduct
<1> QED
  BY <1>3 DEF T

\* Nodes of the page, no wrapper among them.
Plains(a) == \A i \in 1..Len(a) : a[i].id # 0

\* Unwrapping what has no wrappers.
LEMMA UnwrapPlains ==
    ASSUME NEW S, Tidy(S), NEW a \in Seq(S), Plains(a)
    PROVE  Unwrap(a) = a
<1> DEFINE T == {s \in Seq(S) : Plains(s) => Unwrap(s) = s}
<1>1. <<>> \in T
  BY UnwrapEmpty, EmptySeq
<1>2. ASSUME NEW s \in Seq(S), NEW e \in S, s \in T PROVE Append(s, e) \in T
  <2>1. Append(s, e) \in Seq(S) /\ Len(Append(s, e)) = Len(s) + 1 /\ Append(s, e)[Len(s) + 1] = e
        /\ \A i \in 1..Len(s) : Append(s, e)[i] = s[i]
    BY AppendProperties
  <2> SUFFICES ASSUME Plains(Append(s, e)) PROVE Unwrap(Append(s, e)) = Append(s, e)
    BY <2>1
  <2>2. Plains(s) /\ e.id # 0
    BY <2>1, LenProperties DEF Plains
  <2>3. Unwrap(Append(s, e)) = Unwrap(s) \o <<e>>
    BY <2>2, UnwrapAppend DEF Opened
  <2> QED
    BY <1>2, <2>2, <2>3, AppendIsConcat
<1> HIDE DEF T
<1>3. \A s \in Seq(S) : s \in T
  BY <1>1, <1>2, SeqInduct
<1> QED
  BY <1>3 DEF T
-----------------------------------------------------------------------------
(* Unwrapped: no wrappers down to a depth.                                 *)

\* The function that Unwrapped computes with, up to a depth.
Peels(g, nodes, k) == g = [d \in 0..k |-> IF d = 0 THEN nodes ELSE Unwrap(g[d - 1])]

\* Its equation at one place.
LEMMA PeelsAt ==
    ASSUME NEW g, NEW nodes, NEW k, Peels(g, nodes, k)
    PROVE  \A d \in 0..k : g[d] = IF d = 0 THEN nodes ELSE Unwrap(g[d - 1])
  BY DEF Peels

\* It exists.
LEMMA PeelsExists ==
    ASSUME NEW nodes, NEW k \in Nat
    PROVE  \E g : Peels(g, nodes, k)
<1> DEFINE T == {n \in Nat : \E g : Peels(g, nodes, n)}
<1>1. 0 \in T
  <2>1. Peels([d \in 0..0 |-> nodes], nodes, 0)
    BY DEF Peels
  <2> QED
    BY <2>1
<1>2. ASSUME NEW n \in Nat, n \in T PROVE n + 1 \in T
  <2>1. PICK g : Peels(g, nodes, n)
    BY <1>2
  <2> DEFINE h == [d \in 0..(n + 1) |-> IF d = n + 1 THEN Unwrap(g[n]) ELSE g[d]]
  <2>2. ASSUME NEW d \in 0..(n + 1) PROVE h[d] = IF d = 0 THEN nodes ELSE Unwrap(h[d - 1])
    <3>1. CASE d = n + 1
      BY <3>1
    <3>2. CASE d # n + 1
      <4>1. d \in 0..n /\ (d # 0 => d - 1 \in 0..n)
        BY <3>2
      <4>2. \A e \in 0..n : g[e] = IF e = 0 THEN nodes ELSE Unwrap(g[e - 1])
        BY <2>1, PeelsAt
      <4>3. h[d] = g[d] /\ (d # 0 => h[d - 1] = g[d - 1])
        BY <3>2, <4>1
      <4> HIDE DEF h
      <4> QED
        BY <4>1, <4>2, <4>3
    <3> QED
      BY <3>1, <3>2
  <2>3. Peels(h, nodes, n + 1)
    <3>1. h = [d \in 0..(n + 1) |-> h[d]]
      OBVIOUS
    <3> HIDE DEF h
    <3> QED
      BY <2>2, <3>1 DEF Peels
  <2> HIDE DEF h
  <2> QED
    BY <2>3
<1> HIDE DEF T
<1>3. \A n \in Nat : n \in T
  BY <1>1, <1>2, Induct
<1> QED
  BY <1>3 DEF T

\* Up to two depths it takes the same values.
LEMMA PeelsAgree ==
    ASSUME NEW nodes, NEW k \in Nat, NEW l \in Nat, k <= l,
           NEW g, Peels(g, nodes, k), NEW h, Peels(h, nodes, l)
    PROVE  g[k] = h[k]
<1> DEFINE T == {d \in Nat : d \in 0..k => g[d] = h[d]}
<1>1. \A d \in 0..k : g[d] = IF d = 0 THEN nodes ELSE Unwrap(g[d - 1])
  BY PeelsAt
<1>2. \A d \in 0..l : h[d] = IF d = 0 THEN nodes ELSE Unwrap(h[d - 1])
  BY PeelsAt
<1>3. 0 \in T
  BY <1>1, <1>2
<1>4. ASSUME NEW d \in Nat, d \in T PROVE d + 1 \in T
  <2> SUFFICES ASSUME d + 1 \in 0..k PROVE g[d + 1] = h[d + 1]
    OBVIOUS
  <2>1. d + 1 # 0 /\ (d + 1) - 1 = d /\ d \in 0..k /\ d + 1 \in 0..l
    OBVIOUS
  <2>2. g[d] = h[d]
    BY <1>4, <2>1
  <2>3. g[d + 1] = IF d + 1 = 0 THEN nodes ELSE Unwrap(g[(d + 1) - 1])
    BY <1>1
  <2>4. h[d + 1] = IF d + 1 = 0 THEN nodes ELSE Unwrap(h[(d + 1) - 1])
    BY <1>2, <2>1
  <2> HIDE DEF T
  <2> QED
    BY <2>1, <2>2, <2>3, <2>4
<1>5. \A d \in Nat : d \in T
  <2> HIDE DEF T
  <2> QED
    BY <1>3, <1>4, Induct
<1> QED
  BY <1>5

\* The recursion of Unwrapped.
LEMMA UnwrappedDef ==
    ASSUME NEW nodes
    PROVE  /\ Unwrapped(nodes, 0) = nodes
           /\ \A d \in Nat : Unwrapped(nodes, d + 1) = Unwrap(Unwrapped(nodes, d))
<1> DEFINE P(f) == f = [d \in Nat |-> IF d = 0 THEN nodes ELSE Unwrap(f[d - 1])]
           upto(k) == CHOOSE g : Peels(g, nodes, k)
           f == [k \in Nat |-> upto(k)[k]]
<1>1. ASSUME NEW k \in Nat PROVE Peels(upto(k), nodes, k)
  BY PeelsExists
<1>2. ASSUME NEW d \in Nat PROVE f[d] = IF d = 0 THEN nodes ELSE Unwrap(f[d - 1])
  <2>1. upto(d)[d] = IF d = 0 THEN nodes ELSE Unwrap(upto(d)[d - 1])
    <3> HIDE DEF upto
    <3> QED
      BY <1>1, PeelsAt
  <2>2. CASE d # 0
    <3>1. d - 1 \in Nat /\ d - 1 <= d
      BY <2>2
    <3>2. upto(d - 1)[d - 1] = upto(d)[d - 1]
      <4> HIDE DEF upto
      <4> QED
        BY <1>1, <3>1, PeelsAgree
    <3>3. f[d] = upto(d)[d] /\ f[d - 1] = upto(d - 1)[d - 1]
      BY <3>1
    <3> HIDE DEF f, upto
    <3> QED
      BY <2>1, <2>2, <3>2, <3>3
  <2>3. CASE d = 0
    <3>1. f[d] = upto(d)[d]
      OBVIOUS
    <3> HIDE DEF f, upto
    <3> QED
      BY <2>1, <2>3, <3>1
  <2> QED
    BY <2>2, <2>3
<1>3. P(f)
  <2>1. f = [d \in Nat |-> f[d]]
    OBVIOUS
  <2> HIDE DEF f
  <2> QED
    BY <1>2, <2>1
<1> DEFINE after == CHOOSE a : P(a)
<1>4. P(after)
  <2>1. \E a : P(a)
    <3> HIDE DEF f, P
    <3> QED
      BY <1>3
  <2> HIDE DEF P, f
  <2> QED
    BY <2>1
<1>5. \A d \in Nat : after[d] = IF d = 0 THEN nodes ELSE Unwrap(after[d - 1])
  <2> HIDE DEF after
  <2> QED
    BY <1>4
<1>6. \A d : Unwrapped(nodes, d) = after[d]
  BY DEF Unwrapped
<1> HIDE DEF after
<1>7. ASSUME NEW d \in Nat PROVE after[d + 1] = Unwrap(after[d])
  <2>1. d + 1 \in Nat /\ d + 1 # 0 /\ (d + 1) - 1 = d
    OBVIOUS
  <2>2. after[d + 1] = IF d + 1 = 0 THEN nodes ELSE Unwrap(after[(d + 1) - 1])
    BY <1>5, <2>1
  <2> QED
    BY <2>1, <2>2
<1> QED
  BY <1>5, <1>6, <1>7

\* Unwrapping a list to a depth.
LEMMA UnwrappedType ==
    ASSUME NEW S, Tidy(S), NEW a \in Seq(S)
    PROVE  \A d \in Nat : Unwrapped(a, d) \in Seq(S)
<1> DEFINE T == {d \in Nat : Unwrapped(a, d) \in Seq(S)}
<1>1. 0 \in T
  BY UnwrappedDef
<1>2. ASSUME NEW d \in Nat, d \in T PROVE d + 1 \in T
  <2>1. Unwrapped(a, d + 1) = Unwrap(Unwrapped(a, d))
    BY UnwrappedDef
  <2>2. Unwrap(Unwrapped(a, d)) \in Seq(S)
    BY <1>2, UnwrapType
  <2> QED
    BY <2>1, <2>2
<1> HIDE DEF T
<1>3. \A d \in Nat : d \in T
  BY <1>1, <1>2, Induct
<1> QED
  BY <1>3 DEF T

\* Unwrapping two lists to a depth, one after the other.
LEMMA UnwrappedConcat ==
    ASSUME NEW S, Tidy(S), NEW a \in Seq(S), NEW b \in Seq(S)
    PROVE  \A d \in Nat : Unwrapped(a \o b, d) = Unwrapped(a, d) \o Unwrapped(b, d)
<1> DEFINE T == {d \in Nat : Unwrapped(a \o b, d) = Unwrapped(a, d) \o Unwrapped(b, d)}
<1>1. 0 \in T
  BY UnwrappedDef
<1>2. ASSUME NEW d \in Nat, d \in T PROVE d + 1 \in T
  <2>1. Unwrapped(a, d) \in Seq(S) /\ Unwrapped(b, d) \in Seq(S)
    BY UnwrappedType
  <2>2. Unwrap(Unwrapped(a, d) \o Unwrapped(b, d))
        = Unwrap(Unwrapped(a, d)) \o Unwrap(Unwrapped(b, d))
    BY <2>1, UnwrapConcat
  <2>3. /\ Unwrapped(a \o b, d + 1) = Unwrap(Unwrapped(a \o b, d))
        /\ Unwrapped(a, d + 1) = Unwrap(Unwrapped(a, d))
        /\ Unwrapped(b, d + 1) = Unwrap(Unwrapped(b, d))
    BY UnwrappedDef
  <2>4. Unwrapped(a \o b, d) = Unwrapped(a, d) \o Unwrapped(b, d)
    BY <1>2
  <2>5. Unwrapped(a \o b, d + 1) = Unwrapped(a, d + 1) \o Unwrapped(b, d + 1)
    BY <2>2, <2>3, <2>4, Zenon
  <2> QED
    BY <2>5
<1> HIDE DEF T
<1>3. \A d \in Nat : d \in T
  BY <1>1, <1>2, Induct
<1> QED
  BY <1>3 DEF T

\* Unwrapping a wrapper.
LEMMA UnwrappedInner ==
    ASSUME NEW S, Tidy(S), NEW n \in S, n.id = 0
    PROVE  \A d \in Nat : Unwrapped(<<n>>, d + 1) = Unwrapped(n.kids, d)
<1> DEFINE T == {d \in Nat : Unwrapped(<<n>>, d + 1) = Unwrapped(n.kids, d)}
<1>1. 0 \in T
  <2>1. Unwrapped(<<n>>, 0 + 1) = Unwrap(<<n>>)
    BY UnwrappedDef
  <2>2. Unwrap(<<n>>) = n.kids
    BY UnwrapOne DEF Opened
  <2> QED
    BY <2>1, <2>2, UnwrappedDef
<1>2. ASSUME NEW d \in Nat, d \in T PROVE d + 1 \in T
  <2>1. ASSUME NEW e \in Nat PROVE Unwrapped(<<n>>, e + 1) = Unwrap(Unwrapped(<<n>>, e))
    BY UnwrappedDef
  <2>2. d + 1 \in Nat
    OBVIOUS
  <2>3. Unwrapped(<<n>>, (d + 1) + 1) = Unwrap(Unwrapped(<<n>>, d + 1))
    BY <2>1, <2>2, Zenon
  <2>4. Unwrapped(n.kids, d + 1) = Unwrap(Unwrapped(n.kids, d))
    BY UnwrappedDef
  <2>5. Unwrapped(<<n>>, d + 1) = Unwrapped(n.kids, d)
    BY <1>2
  <2>6. Unwrapped(<<n>>, (d + 1) + 1) = Unwrapped(n.kids, d + 1)
    BY <2>3, <2>4, <2>5, Zenon
  <2> QED
    BY <2>2, <2>6
<1> HIDE DEF T
<1>3. \A d \in Nat : d \in T
  BY <1>1, <1>2, Induct
<1> QED
  BY <1>3 DEF T

\* Once all wrappers are gone, going deeper changes nothing.
LEMMA UnwrappedDeeper ==
    ASSUME NEW S, Tidy(S), NEW a \in Seq(S), NEW d \in Nat, Plains(Unwrapped(a, d)),
           NEW e \in Nat, d <= e
    PROVE  Unwrapped(a, e) = Unwrapped(a, d)
<1> DEFINE T == {k \in Nat : Unwrapped(a, d + k) = Unwrapped(a, d)}
<1>1. 0 \in T
  OBVIOUS
<1>2. ASSUME NEW k \in Nat, k \in T PROVE k + 1 \in T
  <2>1. Unwrapped(a, (d + k) + 1) = Unwrap(Unwrapped(a, d + k))
    BY UnwrappedDef
  <2>2. Unwrap(Unwrapped(a, d)) = Unwrapped(a, d)
    BY UnwrappedType, UnwrapPlains
  <2>3. (d + k) + 1 = d + (k + 1)
    OBVIOUS
  <2> QED
    BY <1>2, <2>1, <2>2, <2>3
<1>3. \A k \in Nat : k \in T
  <2> HIDE DEF T
  <2> QED
    BY <1>1, <1>2, Induct
<1>4. e - d \in Nat /\ d + (e - d) = e
  OBVIOUS
<1> QED
  BY <1>3, <1>4

\* Unwrapping nothing to a depth.
LEMMA UnwrappedEmpty ==
    \A d \in Nat : Unwrapped(<<>>, d) = <<>>
<1> DEFINE T == {d \in Nat : Unwrapped(<<>>, d) = <<>>}
<1>1. 0 \in T
  BY UnwrappedDef
<1>2. ASSUME NEW d \in Nat, d \in T PROVE d + 1 \in T
  BY <1>2, UnwrappedDef, UnwrapEmpty
<1> HIDE DEF T
<1>3. \A d \in Nat : d \in T
  BY <1>1, <1>2, Induct
<1> QED
  BY <1>3 DEF T
-----------------------------------------------------------------------------
(* What a list stands for.                                                 *)

\* The nodes with the ids after lo up to hi, in order.
Spells(a, lo, hi) ==
    /\ lo \in Nat /\ hi \in Nat /\ lo <= hi
    /\ Len(a) = hi - lo
    /\ \A k \in 1..(hi - lo) : a[k].id = lo + k

\* What one node stands for; it is nested less deep than it has nodes.
Covers(n, lo, hi) ==
    /\ lo \in Nat /\ hi \in Nat /\ lo < hi
    /\ Spells(Unwrapped(<<n>>, hi - lo - 1), lo, hi)

\* What the nodes of a list stand for, one after the other.
Cuts(a, cut, lo, hi) ==
    /\ cut \in [0..Len(a) -> Nat] /\ cut[0] = lo /\ cut[Len(a)] = hi
    /\ \A i \in 1..Len(a) : Covers(a[i], cut[i - 1], cut[i])

\* What spells is no wrapper.
LEMMA SpellsPlains ==
    ASSUME NEW a, NEW lo, NEW hi, Spells(a, lo, hi)
    PROVE  Plains(a)
<1> SUFFICES ASSUME NEW i \in 1..Len(a) PROVE a[i].id # 0
  BY DEF Plains
<1>1. i \in 1..(hi - lo) /\ a[i].id = lo + i /\ lo \in Nat /\ hi \in Nat
  BY DEF Spells
<1> QED
  BY <1>1

\* Two lists, one after the other.
LEMMA SpellsConcat ==
    ASSUME NEW S, NEW a \in Seq(S), NEW b \in Seq(S), NEW lo, NEW mid, NEW hi,
           Spells(a, lo, mid), Spells(b, mid, hi)
    PROVE  Spells(a \o b, lo, hi)
<1>1. lo \in Nat /\ mid \in Nat /\ hi \in Nat /\ lo <= mid /\ mid <= hi
      /\ Len(a) = mid - lo /\ Len(b) = hi - mid
  BY DEF Spells
<1>2. Len(a \o b) = hi - lo
  <2>1. Len(a \o b) = Len(a) + Len(b)
    BY ConcatProperties
  <2> QED
    BY <1>1, <2>1
<1>3. ASSUME NEW k \in 1..(hi - lo) PROVE (a \o b)[k].id = lo + k
  <2>1. (a \o b)[k] = IF k <= Len(a) THEN a[k] ELSE b[k - Len(a)]
    BY <1>1, <1>3, ConcatProperties
  <2>2. CASE k <= Len(a)
    <3>1. k \in 1..(mid - lo)
      BY <1>1, <2>2
    <3> QED
      BY <2>1, <2>2, <3>1 DEF Spells
  <2>3. CASE ~(k <= Len(a))
    <3>1. k - Len(a) \in 1..(hi - mid) /\ mid + (k - Len(a)) = lo + k
      BY <1>1, <2>3
    <3>2. b[k - Len(a)].id = mid + (k - Len(a))
      BY <3>1 DEF Spells
    <3> QED
      BY <2>1, <2>3, <3>1, <3>2
  <2> QED
    BY <2>2, <2>3
<1> QED
  BY <1>1, <1>2, <1>3 DEF Spells

\* What a node stands for, seen from deeper than needed.
LEMMA CoversDeeper ==
    ASSUME NEW S, Tidy(S), NEW n \in S, NEW lo, NEW hi, Covers(n, lo, hi),
           NEW d \in Nat, hi - lo - 1 <= d
    PROVE  Spells(Unwrapped(<<n>>, d), lo, hi)
<1> DEFINE e == hi - lo - 1
<1>1. e \in Nat /\ Spells(Unwrapped(<<n>>, e), lo, hi)
  BY DEF Covers
<1>2. <<n>> \in Seq(S)
  OBVIOUS
<1>3. Plains(Unwrapped(<<n>>, e))
  BY <1>1, SpellsPlains
<1>4. Unwrapped(<<n>>, d) = Unwrapped(<<n>>, e)
  <2> HIDE DEF e
  <2>1. e <= d
    BY DEF e
  <2> QED
    BY <1>1, <1>2, <1>3, <2>1, UnwrappedDeeper
<1> QED
  BY <1>1, <1>4

\* The cuts grow.
LEMMA CutsGrow ==
    ASSUME NEW a, NEW cut, NEW lo, NEW hi, Cuts(a, cut, lo, hi), Len(a) \in Nat,
           NEW i \in 0..Len(a)
    PROVE  \A j \in i..Len(a) : cut[i] \in Nat /\ cut[j] \in Nat /\ cut[i] + (j - i) <= cut[j]
<1> DEFINE T == {k \in Nat : i + k <= Len(a) => cut[i] + k <= cut[i + k]}
<1>1. 0 \in T
  BY DEF Cuts
<1>2. ASSUME NEW k \in Nat, k \in T PROVE k + 1 \in T
  <2> SUFFICES ASSUME i + (k + 1) <= Len(a) PROVE cut[i] + (k + 1) <= cut[i + (k + 1)]
    OBVIOUS
  <2>1. i + (k + 1) \in 1..Len(a) /\ (i + (k + 1)) - 1 = i + k /\ i + k \in 0..Len(a)
    OBVIOUS
  <2>2. cut[i + k] < cut[i + (k + 1)]
    <3> DEFINE j == i + (k + 1)
    <3>1. Covers(a[j], cut[j - 1], cut[j])
      BY <2>1 DEF Cuts
    <3>2. cut[j - 1] < cut[j]
      BY <3>1 DEF Covers
    <3> QED
      BY <2>1, <3>2
  <2>3. cut[i] + k <= cut[i + k]
    BY <1>2, <2>1
  <2>4. cut[i] \in Nat /\ cut[i + k] \in Nat /\ cut[i + (k + 1)] \in Nat
    BY <2>1 DEF Cuts
  <2> QED
    BY <2>2, <2>3, <2>4
<1>3. \A k \in Nat : k \in T
  <2> HIDE DEF T
  <2> QED
    BY <1>1, <1>2, Induct
<1> TAKE j \in i..Len(a)
<1>4. j - i \in Nat /\ i + (j - i) = j
  OBVIOUS
<1>5. cut[i] + (j - i) <= cut[j]
  BY <1>3, <1>4
<1> QED
  BY <1>5 DEF Cuts

\* A list that is cut in nodes, seen from deep enough, spells all of it.
LEMMA CutsSpell ==
    ASSUME NEW S, Tidy(S), NEW a \in Seq(S), NEW cut, NEW lo, NEW hi, Cuts(a, cut, lo, hi),
           NEW d \in Nat, \A i \in 1..Len(a) : cut[i] - cut[i - 1] - 1 <= d
    PROVE  Spells(Unwrapped(a, d), lo, hi)
<1> DEFINE n == Len(a)
           T == {k \in Nat : k <= n => Spells(Unwrapped(SubSeq(a, 1, k), d), lo, cut[k])}
<1>1. n \in Nat /\ \A i \in 1..n : a[i] \in S
  BY LenProperties, ElementOfSeq
<1>2. 0 \in T
  <2>1. SubSeq(a, 1, 0) = <<>>
    BY SubSeqEmpty
  <2>2. Unwrapped(SubSeq(a, 1, 0), d) = <<>>
    BY <2>1, UnwrappedEmpty
  <2>3. Spells(<<>>, lo, lo)
    <3>1. lo \in Nat
      BY <1>1 DEF Cuts
    <3> QED
      BY <3>1, EmptySeq DEF Spells
  <2> QED
    BY <2>2, <2>3 DEF Cuts
<1>3. ASSUME NEW k \in Nat, k \in T PROVE k + 1 \in T
  <2> SUFFICES ASSUME k + 1 <= n PROVE Spells(Unwrapped(SubSeq(a, 1, k + 1), d), lo, cut[k + 1])
    OBVIOUS
  <2>1. k + 1 \in 1..n /\ (k + 1) - 1 = k /\ k <= n /\ 1 \in 1..n
    BY <1>1
  <2>2. SubSeq(a, 1, k + 1) = SubSeq(a, 1, k) \o <<a[k + 1]>>
    <3>1. SubSeq(a, 1, k + 1) = SubSeq(a, 1, (k + 1) - 1) \o <<a[k + 1]>>
      BY <2>1, SubSeqRecursiveSecond
    <3> QED
      BY <2>1, <3>1
  <2>3. SubSeq(a, 1, k) \in Seq(S) /\ <<a[k + 1]>> \in Seq(S) /\ a[k + 1] \in S
    <3>1. a[k + 1] \in S
      BY <1>1, <2>1
    <3>2. \A i \in 1..k : a[i] \in S
      BY <1>1, <2>1
    <3> QED
      BY <3>1, <3>2, SubSeqProperties
  <2>4. Covers(a[k + 1], cut[k], cut[k + 1]) /\ cut[k + 1] - cut[k] - 1 <= d
    <3>1. Covers(a[k + 1], cut[(k + 1) - 1], cut[k + 1]) /\ cut[k + 1] - cut[(k + 1) - 1] - 1 <= d
      BY <2>1 DEF Cuts
    <3> QED
      BY <2>1, <3>1
  <2>5. Spells(Unwrapped(<<a[k + 1]>>, d), cut[k], cut[k + 1])
    BY <2>3, <2>4, CoversDeeper
  <2>6. Spells(Unwrapped(SubSeq(a, 1, k), d), lo, cut[k])
    BY <1>3, <2>1
  <2>7. Unwrapped(SubSeq(a, 1, k), d) \in Seq(S) /\ Unwrapped(<<a[k + 1]>>, d) \in Seq(S)
    BY <2>3, UnwrappedType
  <2>8. Unwrapped(SubSeq(a, 1, k + 1), d)
        = Unwrapped(SubSeq(a, 1, k), d) \o Unwrapped(<<a[k + 1]>>, d)
    <3>1. Unwrapped(SubSeq(a, 1, k) \o <<a[k + 1]>>, d)
          = Unwrapped(SubSeq(a, 1, k), d) \o Unwrapped(<<a[k + 1]>>, d)
      <4> DEFINE s == SubSeq(a, 1, k)
                 t == <<a[k + 1]>>
      <4>1. s \in Seq(S) /\ t \in Seq(S)
        BY <2>3
      <4> HIDE DEF T, n, s, t
      <4>2. Unwrapped(s \o t, d) = Unwrapped(s, d) \o Unwrapped(t, d)
        BY <4>1, UnwrappedConcat
      <4> QED
        BY <4>2 DEF s, t
    <3> QED
      BY <2>2, <3>1
  <2> QED
    BY <2>5, <2>6, <2>7, <2>8, SpellsConcat
<1>4. \A k \in Nat : k \in T
  <2> HIDE DEF T
  <2> QED
    BY <1>2, <1>3, Induct
<1>5. Spells(Unwrapped(SubSeq(a, 1, n), d), lo, cut[n])
  BY <1>1, <1>4
<1>6. SubSeq(a, 1, n) = a
  BY SubSeqFull
<1> QED
  BY <1>5, <1>6 DEF Cuts

\* A part of a list that is cut in nodes.
LEMMA CutsPart ==
    ASSUME NEW S, NEW a \in Seq(S), NEW cut, NEW lo, NEW hi, Cuts(a, cut, lo, hi),
           NEW i \in 1..Len(a), NEW j \in i..Len(a)
    PROVE  /\ SubSeq(a, i, j) \in Seq(S)
           /\ Cuts(SubSeq(a, i, j), [k \in 0..(j - i + 1) |-> cut[i - 1 + k]], cut[i - 1], cut[j])
<1> DEFINE b == SubSeq(a, i, j)
           part == [k \in 0..(j - i + 1) |-> cut[i - 1 + k]]
<1>1. Len(a) \in Nat /\ \A k \in 1..Len(a) : a[k] \in S
  BY LenProperties, ElementOfSeq
<1>2. b \in Seq(S) /\ Len(b) = j - i + 1 /\ \A k \in 1..(j - i + 1) : b[k] = a[i + k - 1]
  <2>1. \A k \in i..j : a[k] \in S
    BY <1>1
  <2> QED
    BY <1>1, <2>1, SubSeqProperties
<1>3. part \in [0..Len(b) -> Nat] /\ part[0] = cut[i - 1] /\ part[Len(b)] = cut[j]
  <2>1. \A k \in 0..(j - i + 1) : i - 1 + k \in 0..Len(a)
    BY <1>1
  <2>2. \A k \in 0..(j - i + 1) : cut[i - 1 + k] \in Nat
    BY <2>1 DEF Cuts
  <2>3. i - 1 + 0 = i - 1 /\ i - 1 + (j - i + 1) = j /\ j - i + 1 \in Nat
    BY <1>1
  <2> QED
    <3>1. part \in [0..Len(b) -> Nat]
      BY <1>2, <2>2
    <3>2. part[0] = cut[i - 1]
      BY <1>1, <2>3
    <3>3. part[j - i + 1] = cut[j]
      BY <1>1, <2>3
    <3> HIDE DEF b, part
    <3> QED
      BY <1>2, <3>1, <3>2, <3>3
<1>4. ASSUME NEW k \in 1..Len(b) PROVE Covers(b[k], part[k - 1], part[k])
  <2>1. k \in 1..(j - i + 1) /\ i + k - 1 \in 1..Len(a) /\ k - 1 \in 0..(j - i + 1)
        /\ i - 1 + (k - 1) = (i + k - 1) - 1 /\ i - 1 + k = i + k - 1
    BY <1>1, <1>2
  <2>2. Covers(a[i + k - 1], cut[(i + k - 1) - 1], cut[i + k - 1])
    <3> DEFINE m == i + k - 1
    <3>1. m \in 1..Len(a)
      BY <2>1
    <3>2. Covers(a[m], cut[m - 1], cut[m])
      <4> HIDE DEF m
      <4> QED
        BY <3>1 DEF Cuts
    <3> QED
      BY <3>2
  <2>3. part[k - 1] = cut[(i + k - 1) - 1] /\ part[k] = cut[i + k - 1] /\ b[k] = a[i + k - 1]
    BY <1>2, <2>1
  <2> HIDE DEF b, part
  <2> QED
    BY <2>2, <2>3
<1> HIDE DEF b, part
<1>5. Cuts(b, part, cut[i - 1], cut[j])
  BY <1>3, <1>4 DEF Cuts
<1> QED
  BY <1>2, <1>5 DEF b, part

\* A wrapper of two nodes or more stands for what they stand for.
LEMMA WrapCovers ==
    ASSUME NEW S, Tidy(S), NEW a \in Seq(S), NEW cut, NEW lo, NEW hi, Cuts(a, cut, lo, hi),
           NEW i \in 1..Len(a), NEW j \in i..Len(a), i # j,
           NEW w \in S, w.id = 0, w.kids = SubSeq(a, i, j)
    PROVE  Covers(w, cut[i - 1], cut[j])
<1> DEFINE part == [k \in 0..(j - i + 1) |-> cut[i - 1 + k]]
           d == cut[j] - cut[i - 1] - 2
<1>1. SubSeq(a, i, j) \in Seq(S) /\ Cuts(SubSeq(a, i, j), part, cut[i - 1], cut[j])
  BY CutsPart
<1>2. Len(a) \in Nat /\ i - 1 \in 0..Len(a) /\ j \in (i - 1)..Len(a) /\ j - (i - 1) >= 2
  BY LenProperties
<1>3. cut[i - 1] \in Nat /\ cut[j] \in Nat /\ cut[i - 1] + (j - (i - 1)) <= cut[j]
  BY <1>2, CutsGrow
<1>4. d \in Nat /\ cut[j] - cut[i - 1] - 1 = d + 1 /\ cut[i - 1] < cut[j]
  BY <1>2, <1>3
<1>5. Len(SubSeq(a, i, j)) = j - i + 1
  <2>1. \A k \in i..j : a[k] \in S
    BY <1>2, ElementOfSeq
  <2> QED
    BY <1>2, <2>1, SubSeqProperties
<1>6. ASSUME NEW k \in 1..(j - i + 1) PROVE part[k] - part[k - 1] - 1 <= d
  <2> DEFINE m == i - 1 + k
  <2>1. part[k] = cut[m] /\ part[k - 1] = cut[m - 1] /\ m \in i..j /\ m - 1 \in (i - 1)..(j - 1)
    <3>1. k \in 0..(j - i + 1) /\ k - 1 \in 0..(j - i + 1) /\ i - 1 + (k - 1) = m - 1
      BY <1>2
    <3>2. m \in i..j /\ m - 1 \in (i - 1)..(j - 1)
      BY <1>2
    <3> HIDE DEF m
    <3> QED
      BY <3>1, <3>2 DEF m
  <2> HIDE DEF m, part, d
  <2>2. cut[i - 1] + ((m - 1) - (i - 1)) <= cut[m - 1] /\ cut[m - 1] \in Nat
    <3>1. m - 1 \in (i - 1)..Len(a)
      BY <1>2, <2>1
    <3> QED
      BY <1>2, <3>1, CutsGrow
  <2>3. cut[m] + (j - m) <= cut[j] /\ cut[m] \in Nat
    <3>1. m \in 0..Len(a) /\ j \in m..Len(a)
      BY <1>2, <2>1
    <3> QED
      BY <3>1, <1>2, CutsGrow
  <2>4. m \in Int /\ i \in Int /\ j \in Int /\ i < j
    BY <1>2, <2>1
  <2>5. ASSUME NEW x \in Nat, NEW y \in Nat, NEW u \in Nat, NEW v \in Nat,
               u + ((m - 1) - (i - 1)) <= x, y + (j - m) <= v
        PROVE  y - x - 1 <= v - u - 2
    BY <2>4, <2>5
  <2>6. cut[m] - cut[m - 1] - 1 <= cut[j] - cut[i - 1] - 2
    BY <1>3, <2>2, <2>3, <2>5
  <2> QED
    BY <2>1, <2>6 DEF d
<1> HIDE DEF part, d
<1>7. Spells(Unwrapped(SubSeq(a, i, j), d), cut[i - 1], cut[j])
  BY <1>1, <1>4, <1>5, <1>6, CutsSpell
<1>8. Unwrapped(<<w>>, d + 1) = Unwrapped(SubSeq(a, i, j), d)
  BY <1>4, UnwrappedInner
<1>9. Spells(Unwrapped(<<w>>, cut[j] - cut[i - 1] - 1), cut[i - 1], cut[j])
  BY <1>4, <1>7, <1>8
<1> QED
  BY <1>3, <1>4, <1>9 DEF Covers
-----------------------------------------------------------------------------
(* Lists that stand for a beginning of what is there.                      *)

\* One node before a list.
LEMMA ConsIs ==
    ASSUME NEW S, NEW n \in S, NEW a \in Seq(S)
    PROVE  /\ <<n>> \o a \in Seq(S) /\ <<n>> \o a # <<>>
           /\ Len(<<n>> \o a) = Len(a) + 1 /\ (<<n>> \o a)[1] = n
           /\ \A k \in 1..Len(a) : (<<n>> \o a)[k + 1] = a[k]
<1> DEFINE b == <<n>> \o a
<1>1. <<n>> \in Seq(S) /\ Len(<<n>>) = 1 /\ <<n>>[1] = n /\ Len(a) \in Nat
  BY LenProperties
<1>2. b \in Seq(S) /\ Len(b) = Len(a) + 1 /\ b[1] = n
  BY <1>1, ConcatProperties
<1>3. ASSUME NEW k \in 1..Len(a) PROVE b[k + 1] = a[k]
  <2>1. k + 1 \in 1..(Len(<<n>>) + Len(a)) /\ k + 1 > Len(<<n>>) /\ (k + 1) - Len(<<n>>) = k
    BY <1>1
  <2>2. b[k + 1] = a[(k + 1) - Len(<<n>>)]
    BY <1>1, <2>1, ConcatProperties
  <2> QED
    BY <2>1, <2>2
<1>4. b # <<>>
  BY <1>1, <1>2, EmptySeq
<1> QED
  BY <1>2, <1>3, <1>4

\* What the nodes of a list stand for begins at lo and ends at top or before.
Fits(a, lo, top) == \E cut, hi : hi <= top /\ Cuts(a, cut, lo, hi)

\* The empty list.
LEMMA FitsEmpty ==
    ASSUME NEW lo \in Nat, NEW top \in Nat, lo <= top
    PROVE  Fits(<<>>, lo, top)
<1>1. Len(<<>>) = 0
  OBVIOUS
<1>2. Cuts(<<>>, [k \in 0..0 |-> lo], lo, lo)
  BY <1>1 DEF Cuts
<1> QED
  BY <1>2 DEF Fits

\* One node before such a list.
LEMMA FitsCons ==
    ASSUME NEW S, NEW n \in S, NEW a \in Seq(S), NEW lo, NEW mid, NEW top,
           Covers(n, lo, mid), Fits(a, mid, top)
    PROVE  Fits(<<n>> \o a, lo, top)
<1>1. PICK cut, hi : hi <= top /\ Cuts(a, cut, mid, hi)
  BY DEF Fits
<1> DEFINE b == <<n>> \o a
           all == [k \in 0..(Len(a) + 1) |-> IF k = 0 THEN lo ELSE cut[k - 1]]
<1>2. Len(a) \in Nat
  BY LenProperties
<1>3. Len(b) = Len(a) + 1 /\ b[1] = n /\ \A k \in 1..Len(a) : b[k + 1] = a[k]
  BY ConsIs
<1>4. cut \in [0..Len(a) -> Nat] /\ cut[0] = mid /\ cut[Len(a)] = hi
  BY <1>1 DEF Cuts
<1>5. lo \in Nat /\ mid \in Nat
  BY DEF Covers
<1>6. all \in [0..Len(b) -> Nat] /\ all[0] = lo /\ all[Len(b)] = hi
  <2>1. \A k \in 0..(Len(a) + 1) : k # 0 => cut[k - 1] \in Nat
    BY <1>2, <1>4
  <2>2. all[Len(a) + 1] = cut[Len(a)]
    BY <1>2
  <2> HIDE DEF b
  <2> QED
    BY <1>2, <1>3, <1>4, <1>5, <2>1, <2>2
<1>7. ASSUME NEW k \in 1..Len(b) PROVE Covers(b[k], all[k - 1], all[k])
  <2>1. k \in 1..(Len(a) + 1)
    BY <1>3
  <2>2. CASE k = 1
    <3>1. all[k - 1] = lo /\ all[k] = mid /\ b[k] = n
      BY <1>2, <1>3, <1>4, <2>2
    <3> HIDE DEF all, b
    <3> QED
      BY <3>1
  <2>3. CASE k # 1
    <3> DEFINE j == k - 1
    <3>1. j \in 1..Len(a) /\ k = j + 1
      BY <1>2, <2>1, <2>3
    <3>2. all[k - 1] = cut[j - 1] /\ all[k] = cut[j]
      BY <1>2, <2>1, <2>3
    <3>3. Covers(a[j], cut[j - 1], cut[j])
      <4> HIDE DEF j
      <4> QED
        BY <1>1, <3>1 DEF Cuts
    <3>4. b[k] = a[j]
      <4> HIDE DEF j, b
      <4> QED
        BY <1>3, <3>1
    <3> HIDE DEF all, b, j
    <3> QED
      BY <3>2, <3>3, <3>4
  <2> QED
    BY <2>2, <2>3
<1>8. Cuts(b, all, lo, hi)
  <2> HIDE DEF all, b
  <2> QED
    BY <1>6, <1>7 DEF Cuts
<1> HIDE DEF all, b
<1>9. Fits(b, lo, top)
  BY <1>1, <1>8 DEF Fits
<1> QED
  BY <1>9 DEF b

\* What is left of a list from one place on.
LEMMA FitsRest ==
    ASSUME NEW S, NEW a \in Seq(S), NEW cut, NEW lo, NEW hi, NEW top, hi <= top,
           Cuts(a, cut, lo, hi), NEW i \in 1..Len(a)
    PROVE  Fits(SubSeq(a, i, Len(a)), cut[i - 1], top)
<1> DEFINE part == [k \in 0..(Len(a) - i + 1) |-> cut[i - 1 + k]]
<1>1. Len(a) \in i..Len(a)
  BY LenProperties
<1>2. Cuts(SubSeq(a, i, Len(a)), part, cut[i - 1], cut[Len(a)])
  BY <1>1, CutsPart
<1>3. cut[Len(a)] = hi
  BY DEF Cuts
<1> HIDE DEF part
<1> QED
  BY <1>2, <1>3 DEF Fits

\* Induction from the end of an interval to its beginning.
LEMMA Descend ==
    ASSUME NEW n \in Nat, NEW T,
           \A i \in 1..n : (\A j \in 1..n : i < j => j \in T) => i \in T
    PROVE  \A i \in 1..n : i \in T
<1> SUFFICES ASSUME NEW i \in 1..n, i \notin T PROVE FALSE
  OBVIOUS
<1> DEFINE out == {j \in 1..n : j \notin T}
<1>1. out \in SUBSET (0..n) /\ out # {}
  OBVIOUS
<1>2. PICK j \in out : \A k \in out : k <= j
  BY <1>1, Greatest
<1> QED
  BY <1>2
-----------------------------------------------------------------------------
(* deleteAdjacent.                                                         *)

\* The nodes there are with the wrappers that can be put around them.
Made(S) == S \cup {List(kids) : kids \in Seq(S)} \cup {Object(kids) : kids \in Seq(S)}

\* The children of these are among these.
LEMMA MadeTidy ==
    ASSUME NEW S, Tidy(S)
    PROVE  /\ Tidy(Made(S)) /\ Seq(S) \subseteq Seq(Made(S))
           /\ \A kids \in Seq(S) : List(kids) \in Made(S) /\ Object(kids) \in Made(S)
<1>1. S \subseteq Made(S)
  BY DEF Made
<1>2. Seq(S) \subseteq Seq(Made(S))
  BY <1>1
<1>3. \A kids \in Seq(S) : List(kids) \in Made(S) /\ Object(kids) \in Made(S)
  BY DEF Made
<1>4. ASSUME NEW n \in Made(S), n.id = 0 PROVE n.kids \in Seq(Made(S))
  <2>1. CASE n \in S
    BY <1>2, <1>4, <2>1 DEF Tidy
  <2>2. ASSUME NEW kids \in Seq(S), n = List(kids) \/ n = Object(kids)
        PROVE n.kids \in Seq(Made(S))
    <3>1. List(kids).kids = kids /\ Object(kids).kids = kids
      <4>1. List(kids).kids = kids
        BY DEF List, Synthetic
      <4>2. Object(kids).kids = kids
        BY DEF Object, Synthetic
      <4> QED
        BY <4>1, <4>2
    <3> QED
      BY <1>2, <2>2, <3>1
  <2> QED
    BY <2>1, <2>2 DEF Made
<1> QED
  BY <1>2, <1>3, <1>4 DEF Tidy

\* Where a run ends.
LEMMA RunEndIs ==
    ASSUME NEW S, NEW nodes \in Seq(S), NEW i \in 1..Len(nodes)
    PROVE  /\ RunEnd(nodes, i) \in i..Len(nodes)
           /\ \A k \in i..RunEnd(nodes, i) : nodes[k].hash = nodes[i].hash
           /\ RunEnd(nodes, i) < Len(nodes) => nodes[RunEnd(nodes, i) + 1].hash # nodes[i].hash
<1> DEFINE n == Len(nodes)
           run == {j \in i..n : \A k \in i..j : nodes[k].hash = nodes[i].hash}
<1>1. n \in Nat /\ i \in 1..n
  BY LenProperties
<1>2. run \in SUBSET (0..n) /\ i \in run
  <2> HIDE DEF n
  <2> QED
    BY <1>1
<1>3. \E j \in run : \A k \in run : k <= j
  <2> HIDE DEF n, run
  <2> QED
    BY <1>1, <1>2, Greatest
<1>4. PICK e \in run : e = RunEnd(nodes, i) /\ \A k \in run : e >= k
  <2>1. \E j \in run : \A k \in run : j >= k
    BY <1>1, <1>3
  <2> HIDE DEF run
  <2>2. Max(run) \in run /\ \A k \in run : Max(run) >= k
    BY <2>1 DEF Max
  <2> QED
    BY <2>2 DEF RunEnd, run
<1>5. ASSUME e < n, nodes[e + 1].hash = nodes[i].hash PROVE FALSE
  <2>1. e + 1 \in i..n
    BY <1>1, <1>5
  <2>2. \A k \in i..(e + 1) : k \in i..e \/ k = e + 1
    BY <1>1
  <2>3. e + 1 \in run
    BY <1>5, <2>1, <2>2
  <2> QED
    BY <1>1, <1>4, <2>3
<1> QED
  BY <1>4, <1>5

\* What deleteAdjacent makes of the run at i.
Run(nodes, i)   == SubSeq(nodes, i, RunEnd(nodes, i))
RunNode(nodes, i) == IF Len(Run(nodes, i)) = 1 THEN nodes[i] ELSE List(Run(nodes, i))

\* It has the hash of the run, and stands for the nodes of it.
LEMMA RunNodeIs ==
    ASSUME NEW S, Tidy(S), NEW nodes \in Seq(S), NEW i \in 1..Len(nodes)
    PROVE  /\ RunNode(nodes, i) \in Made(S) /\ RunNode(nodes, i).hash = nodes[i].hash
           /\ i + Len(Run(nodes, i)) = RunEnd(nodes, i) + 1
           /\ \A cut, lo, hi : Cuts(nodes, cut, lo, hi) =>
                 Covers(RunNode(nodes, i), cut[i - 1], cut[RunEnd(nodes, i)])
<1> DEFINE e == RunEnd(nodes, i)
<1>1. e \in i..Len(nodes) /\ Len(nodes) \in Nat /\ i \in Nat /\ e \in Nat
  BY RunEndIs, LenProperties
<1>2. \A k \in i..e : nodes[k] \in S
  BY <1>1, ElementOfSeq
<1>3. Run(nodes, i) \in Seq(S) /\ Len(Run(nodes, i)) = e - i + 1 /\ Run(nodes, i)[1] = nodes[i]
  <2>1. /\ Run(nodes, i) \in Seq(S) /\ Len(Run(nodes, i)) = e - i + 1
        /\ \A k \in 1..(e - i + 1) : Run(nodes, i)[k] = nodes[i + k - 1]
    BY <1>1, <1>2, SubSeqProperties DEF Run
  <2>2. 1 \in 1..(e - i + 1) /\ i + 1 - 1 = i
    BY <1>1
  <2> QED
    BY <2>1, <2>2
<1>4. nodes[i] \in S
  BY <1>1, <1>2
<1>5. i + Len(Run(nodes, i)) = e + 1
  BY <1>1, <1>3
<1>6. CASE i = e
  <2>1. RunNode(nodes, i) = nodes[i]
    BY <1>1, <1>3, <1>6 DEF RunNode
  <2> QED
    BY <1>4, <1>5, <1>6, <2>1 DEF Made, Cuts
<1>7. CASE i # e
  <2> DEFINE w == List(Run(nodes, i))
  <2>1. RunNode(nodes, i) = w
    BY <1>1, <1>3, <1>7 DEF RunNode
  <2>2. w \in Made(S) /\ w.hash = nodes[i].hash /\ w.id = 0 /\ w.kids = SubSeq(nodes, i, e)
    BY <1>3 DEF Made, List, Synthetic, Run
  <2>3. Tidy(Made(S)) /\ nodes \in Seq(Made(S))
    BY MadeTidy
  <2> HIDE DEF w, e
  <2>4. \A cut, lo, hi : Cuts(nodes, cut, lo, hi) => Covers(w, cut[i - 1], cut[e])
    BY <1>1, <1>7, <2>2, <2>3, WrapCovers
  <2> QED
    BY <1>5, <2>1, <2>2, <2>4 DEF e
<1> QED
  BY <1>6, <1>7

\* The function that deleteAdjacent computes with.
Joins(f, nodes) ==
    f = [i \in 1..(Len(nodes) + 1) |->
            IF i > Len(nodes) THEN <<>>
            ELSE <<RunNode(nodes, i)>> \o f[i + Len(Run(nodes, i))]]

\* Its equation at one place.
LEMMA JoinsAt ==
    ASSUME NEW f, NEW nodes, Joins(f, nodes)
    PROVE  \A i \in 1..(Len(nodes) + 1) :
              f[i] = IF i > Len(nodes) THEN <<>>
                     ELSE <<RunNode(nodes, i)>> \o f[i + Len(Run(nodes, i))]
  BY DEF Joins

\* deleteAdjacent by that function.
LEMMA DeleteAdjacentBy ==
    ASSUME NEW S, Tidy(S), NEW nodes \in Seq(S)
    PROVE  \E f : Joins(f, nodes) /\ DeleteAdjacent(nodes) = f[1]
<1> DEFINE n == Len(nodes)
           D == 1..(n + 1)
           m == [i \in D |-> n + 1 - i]
           front == [i \in D |-> <<RunNode(nodes, i)>>]
           next == [i \in D |-> i + Len(Run(nodes, i))]
           base == [i \in D |-> <<>>]
           Stop == {n + 1}
<1>1. n \in Nat
  BY LenProperties
<1>2. m \in [D -> 0..n]
  BY <1>1
<1>3. ASSUME NEW i \in D, i \notin Stop PROVE next[i] \in D /\ m[next[i]] < m[i]
  <2>1. i \in 1..Len(nodes)
    BY <1>1, <1>3
  <2>2. next[i] = RunEnd(nodes, i) + 1 /\ RunEnd(nodes, i) \in i..Len(nodes)
    BY <2>1, RunEndIs, RunNodeIs
  <2>3. RunEnd(nodes, i) + 1 \in D /\ i < RunEnd(nodes, i) + 1
    BY <1>1, <2>1, <2>2
  <2>4. m[RunEnd(nodes, i) + 1] = n + 1 - (RunEnd(nodes, i) + 1) /\ m[i] = n + 1 - i
    BY <2>3
  <2> QED
    BY <1>1, <2>1, <2>2, <2>3, <2>4
<1>4. \E f : Recurs(f, D, Stop, base, front, next)
  <2> HIDE DEF n, D, m, front, next, base, Stop
  <2> QED
    BY <1>1, <1>2, <1>3, Recursion
<1>5. PICK f : f = [i \in D |-> IF i \in Stop THEN base[i] ELSE front[i] \o f[next[i]]]
  <2> HIDE DEF n, D, m, front, next, base, Stop
  <2> QED
    BY <1>4 DEF Recurs
<1>6. Joins(f, nodes)
  <2>1. \A i \in D : /\ (i > n <=> i \in Stop) /\ base[i] = <<>>
                     /\ front[i] = <<RunNode(nodes, i)>> /\ next[i] = i + Len(Run(nodes, i))
    BY <1>1
  <2> HIDE DEF D, m, front, next, base, Stop
  <2>2. f = [i \in D |-> IF i > n THEN <<>> ELSE <<RunNode(nodes, i)>> \o f[i + Len(Run(nodes, i))]]
    BY <1>5, <2>1
  <2> QED
    BY <2>2 DEF Joins, D
<1> DEFINE from == CHOOSE g : Joins(g, nodes)
<1>7. Joins(from, nodes)
  BY <1>6
<1>8. DeleteAdjacent(nodes) = from[1]
  <2> HIDE DEF n
  <2> QED
    BY DEF DeleteAdjacent, Joins, Run, RunNode
<1> HIDE DEF from
<1> QED
  BY <1>7, <1>8

\* No two neighbours have one hash.
NoTwins(a) == \A k \in 2..Len(a) : a[k].hash # a[k - 1].hash

\* One node before a list without twins.
LEMMA NoTwinsCons ==
    ASSUME NEW S, NEW n \in S, NEW a \in Seq(S), NoTwins(a), a # <<>> => a[1].hash # n.hash
    PROVE  /\ NoTwins(<<n>> \o a) /\ <<n>> \o a \in Seq(S)
           /\ <<n>> \o a # <<>> /\ (<<n>> \o a)[1] = n
<1> DEFINE b == <<n>> \o a
<1>1. Len(a) \in Nat
  BY LenProperties
<1>2. b \in Seq(S) /\ b # <<>> /\ Len(b) = Len(a) + 1 /\ b[1] = n
  BY ConsIs
<1>3. \A k \in 1..Len(a) : b[k + 1] = a[k]
  BY ConsIs
<1>4. ASSUME NEW k \in 2..Len(b) PROVE b[k].hash # b[k - 1].hash
  <2> DEFINE j == k - 1
  <2>1. j \in 1..Len(a) /\ k = j + 1
    BY <1>1, <1>2
  <2> HIDE DEF j, b
  <2>2. b[k] = a[j] /\ b[k - 1] = b[j]
    BY <1>3, <2>1 DEF j
  <2>3. CASE j = 1
    <3>1. a # <<>>
      BY <2>1, EmptySeq
    <3> QED
      BY <1>2, <2>2, <2>3, <3>1
  <2>4. CASE j # 1
    <3> DEFINE i == j - 1
    <3>1. i \in 1..Len(a) /\ j = i + 1 /\ j \in 2..Len(a)
      BY <1>1, <2>1, <2>4
    <3>2. b[j] = a[i]
      <4> HIDE DEF i
      <4> QED
        BY <1>3, <3>1
    <3>3. a[j].hash # a[j - 1].hash
      BY <3>1 DEF NoTwins
    <3> QED
      BY <2>2, <3>2, <3>3
  <2> QED
    BY <2>3, <2>4
<1> HIDE DEF b
<1>5. NoTwins(b)
  BY <1>4 DEF NoTwins
<1> QED
  BY <1>2, <1>5 DEF b

\* What deleteAdjacent makes of a list: a list without twins that stands for
\* the same nodes.
LEMMA DeleteAdjacentIs ==
    ASSUME NEW S, Tidy(S), NEW nodes \in Seq(S), nodes # <<>>,
           NEW top \in Nat, Fits(nodes, 0, top)
    PROVE  /\ DeleteAdjacent(nodes) \in Seq(Made(S)) /\ DeleteAdjacent(nodes) # <<>>
           /\ NoTwins(DeleteAdjacent(nodes)) /\ Fits(DeleteAdjacent(nodes), 0, top)
<1> DEFINE n == Len(nodes)
<1>1. PICK f : Joins(f, nodes) /\ DeleteAdjacent(nodes) = f[1]
  BY DeleteAdjacentBy
<1>2. PICK cut, hi : hi <= top /\ Cuts(nodes, cut, 0, hi)
  BY DEF Fits
<1> DEFINE Good(i) ==
              /\ f[i] \in Seq(Made(S)) /\ NoTwins(f[i]) /\ Fits(f[i], cut[i - 1], top)
              /\ i <= n => f[i] # <<>> /\ f[i][1].hash = nodes[i].hash
              /\ i = n + 1 => f[i] = <<>>
           T == {i \in 1..(n + 1) : Good(i)}
<1>3. n \in Nat /\ n # 0
  BY EmptySeq, LenProperties
<1>5. \A i \in 1..(n + 1) : f[i] = IF i > n THEN <<>>
                                    ELSE <<RunNode(nodes, i)>> \o f[i + Len(Run(nodes, i))]
  BY <1>1, JoinsAt
<1>6. hi \in Nat
  <2>1. n \in 0..n /\ cut[n] = hi /\ cut[n] \in Nat
    BY <1>2, <1>3 DEF Cuts
  <2> QED
    BY <2>1
<1>4. ASSUME NEW i \in 1..(n + 1), \A j \in 1..(n + 1) : i < j => j \in T
      PROVE  i \in T
  <2>1. CASE i = n + 1
    <3>1. f[i] = <<>>
      <4>1. i > n
        BY <1>3, <2>1
      <4> QED
        BY <1>5, <4>1
    <3>2. cut[i - 1] = hi /\ hi \in Nat
      <4>1. i - 1 = n /\ n \in 0..n
        BY <1>3, <2>1
      <4> QED
        BY <1>2, <4>1 DEF Cuts
    <3>4. Fits(<<>>, hi, top)
      BY <1>2, <1>6, FitsEmpty
    <3>5. NoTwins(<<>>) /\ <<>> \in Seq(Made(S))
      BY EmptySeq DEF NoTwins
    <3>6. ~ (i <= n)
      BY <1>3, <2>1
    <3>7. Good(i)
      BY <3>1, <3>2, <3>4, <3>5, <3>6
    <3> HIDE DEF Good
    <3> QED
      BY <3>7
  <2>2. CASE i # n + 1
    <3> DEFINE e == RunEnd(nodes, i)
               w == RunNode(nodes, i)
    <3>1. i \in 1..Len(nodes)
      BY <1>3, <2>2
    <3>2. e \in i..n /\ i + Len(Run(nodes, i)) = e + 1
      BY <3>1, RunEndIs, RunNodeIs
    <3>3. f[i] = <<w>> \o f[e + 1]
      <4>1. ~ (i > Len(nodes))
        BY <1>3, <3>1
      <4>2. f[i] = <<RunNode(nodes, i)>> \o f[i + Len(Run(nodes, i))]
        BY <1>5, <4>1
      <4> HIDE DEF e
      <4> QED
        BY <3>2, <4>2
    <3>4. e + 1 \in T
      <4>1. e + 1 \in 1..(n + 1) /\ i < e + 1
        BY <1>3, <3>1, <3>2
      <4> HIDE DEF e, T
      <4> QED
        BY <1>4, <4>1
    <3>5. w \in Made(S) /\ w.hash = nodes[i].hash /\ Covers(w, cut[i - 1], cut[e])
      BY <1>2, <3>1, RunNodeIs
    <3>6. f[e + 1] # <<>> => f[e + 1][1].hash # w.hash
      <4>1. e + 1 <= n \/ e + 1 = n + 1
        BY <1>3, <3>1, <3>2
      <4>2. e + 1 <= n => nodes[e + 1].hash # nodes[i].hash
        BY <1>3, <3>1, <3>2, RunEndIs
      <4> HIDE DEF e, w
      <4> QED
        BY <3>4, <3>5, <4>1, <4>2
    <3>7. (e + 1) - 1 = e
      BY <3>2
    <3>8. Fits(f[e + 1], cut[e], top)
      <4> HIDE DEF e
      <4> QED
        BY <3>4, <3>7
    <3> HIDE DEF e, w
    <3>9. NoTwins(f[i]) /\ f[i] \in Seq(Made(S)) /\ f[i] # <<>> /\ f[i][1] = w
      BY <3>3, <3>4, <3>5, <3>6, NoTwinsCons
    <3>10. Fits(f[i], cut[i - 1], top)
      BY <3>3, <3>4, <3>5, <3>8, FitsCons
    <3> QED
      BY <2>2, <3>5, <3>9, <3>10
  <2> QED
    BY <2>1, <2>2
<1>7. \A i \in 1..(n + 1) : i \in T
  <2>1. n + 1 \in Nat
    BY <1>3
  <2> HIDE DEF T
  <2> QED
    BY <1>4, <2>1, Descend
<1>8. 1 \in 1..(n + 1) /\ 1 <= n
  BY <1>3
<1>9. Good(1)
  <2> HIDE DEF Good
  <2> QED
    BY <1>7, <1>8
<1>10. cut[1 - 1] = 0
  BY <1>2 DEF Cuts
<1> QED
  BY <1>1, <1>8, <1>9, <1>10
-----------------------------------------------------------------------------
(* The patterns that slideWindow counts.                                   *)

\* A set with two elements, and with two elements or more.
LEMMA TwoElements ==
    ASSUME NEW S, IsFiniteSet(S)
    PROVE  Cardinality(S) >= 2 <=> \E x, y \in S : x # y
<1>1. Cardinality(S) \in Nat /\ (Cardinality(S) = 0 <=> S = {})
  BY FS_CardinalityType, FS_EmptySet
<1>2. ASSUME NEW x \in S
      PROVE  Cardinality(S) >= 2 <=> S \ {x} # {}
  <2>1. IsFiniteSet(S \ {x}) /\ Cardinality(S \ {x}) = Cardinality(S) - 1
    BY FS_RemoveElement
  <2>2. Cardinality(S \ {x}) \in Nat /\ (Cardinality(S \ {x}) = 0 <=> S \ {x} = {})
    BY <2>1, FS_CardinalityType, FS_EmptySet
  <2> QED
    BY <1>1, <2>1, <2>2
<1>3. CASE S = {}
  BY <1>1, <1>3
<1>4. CASE S # {}
  BY <1>2, <1>4
<1> QED
  BY <1>3, <1>4

Hashes(S) == {n.hash : n \in S}

\* The hashes of a list.
LEMMA HashIs ==
    ASSUME NEW S, NEW nodes \in Seq(S)
    PROVE  /\ Hash(nodes) \in Seq(Hashes(S)) /\ Len(Hash(nodes)) = Len(nodes)
           /\ \A i \in 1..Len(nodes) : Hash(nodes)[i] = nodes[i].hash
<1>1. Len(nodes) \in Nat /\ DOMAIN nodes = 1..Len(nodes) /\ \A i \in 1..Len(nodes) : nodes[i] \in S
  BY LenProperties, ElementOfSeq
<1>2. Hash(nodes) = [i \in 1..Len(nodes) |-> nodes[i].hash]
  BY <1>1 DEF Hash
<1>3. \A i \in 1..Len(nodes) : nodes[i].hash \in Hashes(S)
  BY <1>1 DEF Hashes
<1>4. Hash(nodes) \in [1..Len(nodes) -> Hashes(S)]
  BY <1>2, <1>3
<1>5. Hash(nodes) \in Seq(Hashes(S)) /\ Len(Hash(nodes)) = Len(nodes)
  BY <1>1, <1>4
<1> QED
  BY <1>2, <1>5

\* The hashes of a part of a list.
LEMMA WindowIs ==
    ASSUME NEW S, NEW nodes \in Seq(S), NEW L \in Nat, L >= 1, NEW i \in 1..(Len(nodes) - L + 1)
    PROVE  /\ Window(nodes, L, i) \in Seq(Hashes(S)) /\ Len(Window(nodes, L, i)) = L
           /\ \A k \in 1..L : Window(nodes, L, i)[k] = nodes[i + k - 1].hash
<1> DEFINE part == SubSeq(nodes, i, i + L - 1)
<1>1. Len(nodes) \in Nat /\ i \in 1..Len(nodes) /\ i + L - 1 \in i..Len(nodes)
      /\ (i + L - 1) - i + 1 = L
  BY LenProperties
<1>2. \A k \in i..(i + L - 1) : nodes[k] \in S
  <2>1. \A k \in i..(i + L - 1) : k \in 1..Len(nodes)
    BY <1>1
  <2> QED
    BY <2>1, ElementOfSeq
<1>3. part \in Seq(S) /\ Len(part) = L /\ \A k \in 1..L : part[k] = nodes[i + k - 1]
  <2>1. /\ part \in Seq(S) /\ Len(part) = (i + L - 1) - i + 1
        /\ \A k \in 1..((i + L - 1) - i + 1) : part[k] = nodes[i + k - 1]
    BY <1>1, <1>2, SubSeqProperties
  <2> HIDE DEF part
  <2> QED
    BY <1>1, <2>1
<1>4. Window(nodes, L, i) = Hash(part)
  BY DEF Window
<1> HIDE DEF part
<1> QED
  BY <1>3, <1>4, HashIs

\* Two parts with the same hashes.
LEMMA WindowsEqual ==
    ASSUME NEW S, NEW nodes \in Seq(S), NEW L \in Nat, L >= 1,
           NEW i \in 1..(Len(nodes) - L + 1), NEW j \in 1..(Len(nodes) - L + 1)
    PROVE  Window(nodes, L, i) = Window(nodes, L, j)
           <=> \A k \in 1..L : nodes[i + k - 1].hash = nodes[j + k - 1].hash
<1> DEFINE s == Window(nodes, L, i)
           t == Window(nodes, L, j)
<1>1. /\ s \in Seq(Hashes(S)) /\ Len(s) = L
      /\ \A k \in 1..L : s[k] = nodes[i + k - 1].hash
  BY WindowIs
<1>2. /\ t \in Seq(Hashes(S)) /\ Len(t) = L
      /\ \A k \in 1..L : t[k] = nodes[j + k - 1].hash
  BY WindowIs
<1> HIDE DEF s, t
<1>3. (\A k \in 1..L : s[k] = t[k]) => s = t
  BY <1>1, <1>2, SeqEqual
<1>4. s = t <=> \A k \in 1..L : nodes[i + k - 1].hash = nodes[j + k - 1].hash
  BY <1>1, <1>2, <1>3
<1> QED
  BY <1>4 DEF s, t

\* Two instances that are counted do not overlap.
LEMMA CountedApart ==
    ASSUME NEW nodes, NEW L, NEW i \in Counted(nodes, L), NEW j \in Counted(nodes, L), i < j,
           Len(nodes) \in Nat, L \in Nat,
           Window(nodes, L, i) = Window(nodes, L, j)
    PROVE  i + L <= j
<1> SUFFICES ASSUME ~ (i + L <= j) PROVE FALSE
  OBVIOUS
<1>1. i \in 1..(Len(nodes) - L + 1) /\ j \in 1..(Len(nodes) - L + 1)
  BY DEF Counted
<1>2. i \in 1..(j - 1) /\ j - i < L
  BY <1>1
<1>3. Overlaps(nodes, L, j)
  BY <1>2 DEF Overlaps
<1>4. j < j
  BY <1>1, <1>3 DEF Counted
<1> QED
  BY <1>1, <1>4

\* The instances that are counted of the pattern at i.
Same(nodes, L, i) == {j \in Counted(nodes, L) : Window(nodes, L, j) = Window(nodes, L, i)}

\* They are positions in the list, and no more than it has nodes.
LEMMA SameIs ==
    ASSUME NEW S, NEW nodes \in Seq(S), NEW L \in Nat, L >= 1, NEW i \in Counted(nodes, L)
    PROVE  /\ IsFiniteSet(Same(nodes, L, i)) /\ Cardinality(Same(nodes, L, i)) \in 0..Len(nodes)
           /\ i \in Same(nodes, L, i)
           /\ Min(Same(nodes, L, i)) \in Same(nodes, L, i)
           /\ Same(nodes, L, i) \subseteq 1..(Len(nodes) - L + 1)
<1> DEFINE same == Same(nodes, L, i)
           n == Len(nodes)
<1>1. n \in Nat
  BY LenProperties
<1>2. same \subseteq 1..(n - L + 1) /\ i \in same
  BY DEF Same, Counted
<1>3. same \subseteq 1..n
  BY <1>1, <1>2
<1>4. IsFiniteSet(1..n) /\ Cardinality(1..n) = n
  <2> HIDE DEF n
  <2>1. 1 \in Int /\ n \in Int /\ (IF 1 > n THEN 0 ELSE n - 1 + 1) = n
    BY <1>1
  <2> QED
    BY <2>1, FS_Interval
<1>5. IsFiniteSet(same) /\ Cardinality(same) <= n /\ Cardinality(same) \in Nat
  BY <1>3, <1>4, FS_Subset, FS_CardinalityType
<1>6. Min(same) \in same
  <2>1. same \in SUBSET Nat /\ same # {}
    BY <1>2, <1>3
  <2> HIDE DEF same
  <2>2. \E k \in same : \A l \in same : k <= l
    BY <2>1, Least
  <2> QED
    BY <2>2 DEF Min
<1> HIDE DEF same
<1>7. Cardinality(same) \in 0..n
  BY <1>1, <1>5
<1> QED
  BY <1>2, <1>5, <1>6, <1>7 DEF same

\* A pattern of the map, and what slideWindow chooses among them.
LEMMA PatternsOf ==
    ASSUME NEW nodes
    PROVE  Patterns(nodes)
           = UNION {{[length    |-> L,
                      instances |-> Cardinality(Same(nodes, L, i)),
                      first     |-> Min(Same(nodes, L, i))] : i \in Counted(nodes, L)} :
                    L \in 2..Len(nodes)}
  BY DEF Patterns, Same

\* What is in the map.
LEMMA PatternIs ==
    ASSUME NEW S, NEW nodes \in Seq(S), NEW p \in Patterns(nodes)
    PROVE  /\ p \in [length : 2..Len(nodes), instances : 0..Len(nodes), first : 1..Len(nodes)]
           /\ p.first \in Counted(nodes, p.length)
           /\ p.instances = Cardinality(Same(nodes, p.length, p.first))
<1> DEFINE n == Len(nodes)
<1>1. n \in Nat
  BY LenProperties
<1>2. PICK L \in 2..n : \E i \in Counted(nodes, L) :
         p = [length |-> L, instances |-> Cardinality(Same(nodes, L, i)),
              first |-> Min(Same(nodes, L, i))]
  BY PatternsOf
<1>3. PICK i \in Counted(nodes, L) :
         p = [length |-> L, instances |-> Cardinality(Same(nodes, L, i)),
              first |-> Min(Same(nodes, L, i))]
  BY <1>2
<1> DEFINE f == Min(Same(nodes, L, i))
<1>4. L \in Nat /\ L >= 1
  BY <1>1
<1>5. /\ Cardinality(Same(nodes, L, i)) \in 0..n
      /\ f \in Same(nodes, L, i) /\ Same(nodes, L, i) \subseteq 1..(n - L + 1)
  BY <1>4, SameIs
<1>6. f \in Counted(nodes, L) /\ Same(nodes, L, f) = Same(nodes, L, i) /\ f \in 1..n
  <2> HIDE DEF f
  <2>1. f \in Counted(nodes, L) /\ Window(nodes, L, f) = Window(nodes, L, i)
    BY <1>5 DEF Same
  <2>2. Same(nodes, L, f) = Same(nodes, L, i)
    BY <2>1 DEF Same
  <2>3. f \in 1..n
    BY <1>1, <1>5
  <2> QED
    BY <2>1, <2>2, <2>3
<1> HIDE DEF f, n
<1>7. p.length = L /\ p.first = f /\ p.instances = Cardinality(Same(nodes, L, i))
  BY <1>3 DEF f
<1>8. p \in [length : 2..n, instances : 0..n, first : 1..n]
  BY <1>3, <1>5, <1>6 DEF f
<1> QED
  BY <1>6, <1>7, <1>8 DEF n

\* Every instance that is counted is in the map.
LEMMA PatternThere ==
    ASSUME NEW nodes, NEW L \in 2..Len(nodes), NEW i \in Counted(nodes, L)
    PROVE  \E p \in Patterns(nodes) : p.instances = Cardinality(Same(nodes, L, i))
<1> DEFINE p == [length    |-> L,
                 instances |-> Cardinality(Same(nodes, L, i)),
                 first     |-> Min(Same(nodes, L, i))]
<1>1. p \in Patterns(nodes)
  BY PatternsOf
<1>2. p.instances = Cardinality(Same(nodes, L, i))
  OBVIOUS
<1> QED
  BY <1>1, <1>2

\* There is a best one.
LEMMA BestThere ==
    ASSUME NEW n \in Nat,
           NEW P \in SUBSET [length : 2..n, instances : 0..n, first : 1..n], P # {}
    PROVE  \E p \in P : \A q \in P : Better(p, q)
<1>1. PICK m \in {p.instances : p \in P} : \A k \in {p.instances : p \in P} : k <= m
  <2>1. {p.instances : p \in P} \in SUBSET (0..n) /\ {p.instances : p \in P} # {}
    OBVIOUS
  <2> QED
    BY <2>1, Greatest
<1> DEFINE Q == {p \in P : p.instances = m}
<1>2. PICK l \in {p.length : p \in Q} : \A k \in {p.length : p \in Q} : k <= l
  <2>1. {p.length : p \in Q} \in SUBSET (0..n) /\ {p.length : p \in Q} # {}
    BY <1>1
  <2> HIDE DEF Q
  <2> QED
    BY <2>1, Greatest
<1> DEFINE R == {p \in Q : p.length = l}
<1>3. PICK f \in {p.first : p \in R} : \A k \in {p.first : p \in R} : f <= k
  <2>1. {p.first : p \in R} \in SUBSET Nat /\ {p.first : p \in R} # {}
    BY <1>2
  <2> HIDE DEF R
  <2> QED
    BY <2>1, Least
<1>4. PICK p \in R : p.first = f
  BY <1>3
<1>5. p \in P /\ p.instances = m /\ p.length = l
  BY <1>4
<1>6. ASSUME NEW q \in P PROVE Better(p, q)
  <2>1. q.instances \in 0..n /\ q.length \in 2..n /\ q.first \in 1..n
        /\ p.instances \in 0..n /\ p.length \in 2..n /\ p.first \in 1..n
    BY <1>5
  <2>2. q.instances <= m
    BY <1>1
  <2>3. q.instances = m => q.length <= l
    BY <1>2
  <2>4. q.instances = m /\ q.length = l => f <= q.first
    BY <1>3
  <2> HIDE DEF R, Q
  <2> QED
    BY <1>4, <1>5, <2>1, <2>2, <2>3, <2>4 DEF Better
<1> QED
  BY <1>5, <1>6

\* The best pattern of a list of two nodes or more.
LEMMA BestIs ==
    ASSUME NEW S, NEW nodes \in Seq(S), Len(nodes) >= 2
    PROVE  /\ Best(nodes) \in Patterns(nodes)
           /\ \A q \in Patterns(nodes) : Better(Best(nodes), q)
<1> DEFINE n == Len(nodes)
<1>1. n \in Nat /\ n \in 2..n
  BY LenProperties
<1>2. 1 \in Counted(nodes, n)
  <2>1. ASSUME NEW i \in 1..(n - n + 1) PROVE ~ Overlaps(nodes, n, i)
    <3>1. 1..(i - 1) = {}
      BY <1>1
    <3> QED
      BY <3>1 DEF Overlaps
  <2>2. 1 \in 1..(n - n + 1)
    BY <1>1
  <2> QED
    BY <2>1, <2>2 DEF Counted
<1>3. Patterns(nodes) # {}
  BY <1>1, <1>2, PatternThere
<1>4. Patterns(nodes) \in SUBSET [length : 2..n, instances : 0..n, first : 1..n]
  BY PatternIs
<1> HIDE DEF n
<1>5. \E p \in Patterns(nodes) : \A q \in Patterns(nodes) : Better(p, q)
  BY <1>1, <1>3, <1>4, BestThere
<1> QED
  BY <1>5 DEF Best

\* A pattern that is counted twice is replaced.
LEMMA CountedTwice ==
    ASSUME NEW S, NEW nodes \in Seq(S), NEW L \in 2..Len(nodes),
           NEW i \in Counted(nodes, L), NEW j \in Counted(nodes, L), i # j,
           Window(nodes, L, i) = Window(nodes, L, j)
    PROVE  Repeated(nodes)
<1> DEFINE b == Best(nodes)
<1>1. Len(nodes) \in Nat /\ Len(nodes) >= 2 /\ L \in Nat /\ L >= 1
  BY LenProperties
<1>2. IsFiniteSet(Same(nodes, L, i)) /\ Cardinality(Same(nodes, L, i)) \in 0..Len(nodes)
  BY <1>1, SameIs
<1>3. i \in Same(nodes, L, i) /\ j \in Same(nodes, L, i)
  BY DEF Same
<1>4. Cardinality(Same(nodes, L, i)) >= 2
  BY <1>2, <1>3, TwoElements
<1>5. PICK q \in Patterns(nodes) : q.instances = Cardinality(Same(nodes, L, i))
  BY PatternThere
<1>6. b \in Patterns(nodes) /\ Better(b, q)
  BY <1>1, BestIs
<1>7. b.instances \in 0..Len(nodes)
  BY <1>6, PatternIs
<1> HIDE DEF b
<1>8. b.instances >= q.instances
  BY <1>1, <1>2, <1>5, <1>6, <1>7 DEF Better
<1>9. b.instances >= 2
  BY <1>1, <1>2, <1>4, <1>5, <1>7, <1>8
<1> QED
  BY <1>1, <1>9 DEF Repeated, b

\* A pattern that is replaced occurs at two places that do not overlap.
LEMMA RepeatedTwice ==
    ASSUME NEW S, NEW nodes \in Seq(S), Repeated(nodes)
    PROVE  \E L \in 2..Len(nodes) : \E f, i, j \in 1..(Len(nodes) - L + 1) :
              /\ BestWindow(nodes) = Window(nodes, L, f) /\ i + L <= j
              /\ Window(nodes, L, i) = BestWindow(nodes)
              /\ Window(nodes, L, j) = BestWindow(nodes)
<1> DEFINE L == Best(nodes).length
           f == Best(nodes).first
           same == Same(nodes, L, f)
<1>1. Len(nodes) \in Nat /\ Len(nodes) >= 2 /\ Best(nodes).instances >= 2
  BY LenProperties DEF Repeated
<1>2. Best(nodes) \in Patterns(nodes)
  BY <1>1, BestIs
<1>3. /\ L \in 2..Len(nodes) /\ f \in Counted(nodes, L)
      /\ Best(nodes).instances = Cardinality(same)
  BY <1>2, PatternIs
<1>4. BestWindow(nodes) = Window(nodes, L, f)
  BY DEF BestWindow
<1> HIDE DEF L, f
<1>5. L \in Nat /\ L >= 1
  BY <1>1, <1>3
<1>6. IsFiniteSet(same) /\ same \subseteq 1..(Len(nodes) - L + 1)
  BY <1>3, <1>5, SameIs
<1>7. PICK x, y \in same : x # y
  BY <1>1, <1>3, <1>6, TwoElements
<1>8. \E i, j \in same : i < j
  BY <1>5, <1>6, <1>7
<1>9. PICK i, j \in same : i < j
  BY <1>8
<1>10. Window(nodes, L, i) = BestWindow(nodes) /\ Window(nodes, L, j) = BestWindow(nodes)
       /\ i \in Counted(nodes, L) /\ j \in Counted(nodes, L)
  BY <1>4 DEF Same
<1>11. i + L <= j
  BY <1>1, <1>5, <1>9, <1>10, CountedApart
<1>12. f \in 1..(Len(nodes) - L + 1)
  BY <1>3 DEF Counted
<1> HIDE DEF same
<1> QED
  BY <1>3, <1>4, <1>6, <1>10, <1>11, <1>12

\* The length of what occurs twice, side by side or further apart.
Recurring(nodes) ==
    {L \in 2..Len(nodes) : \E i, j \in 1..(Len(nodes) - L + 1) :
        i + L <= j /\ Window(nodes, L, i) = Window(nodes, L, j)}

\* Two instances that overlap have something shorter twice in them.
LEMMA OverlapShorter ==
    ASSUME NEW S, NEW nodes \in Seq(S), NoTwins(nodes), NEW L \in 2..Len(nodes),
           NEW i \in 1..(Len(nodes) - L + 1), NEW j \in 1..(Len(nodes) - L + 1),
           i < j, j - i < L, Window(nodes, L, i) = Window(nodes, L, j)
    PROVE  \E p \in Recurring(nodes) : p < L
<1> DEFINE p == j - i
           n == Len(nodes)
<1>1. n \in Nat /\ L \in Nat /\ L >= 1 /\ p \in 1..L /\ p < L /\ p \in Nat
  BY LenProperties
<1>2. \A k \in 1..L : nodes[i + k - 1].hash = nodes[j + k - 1].hash
  <2> HIDE DEF p, n
  <2> QED
    BY <1>1, WindowsEqual
<1>3. CASE p = 1
  <2>1. 1 \in 1..L /\ i + 1 - 1 = i /\ j + 1 - 1 = i + 1 /\ i + 1 \in 2..n /\ (i + 1) - 1 = i
    BY <1>1, <1>3
  <2>2. nodes[i].hash = nodes[i + 1].hash
    BY <1>2, <2>1
  <2>3. nodes[i + 1].hash # nodes[(i + 1) - 1].hash
    BY <2>1 DEF NoTwins
  <2> QED
    BY <2>1, <2>2, <2>3
<1>4. CASE p # 1
  <2>1. p \in 2..n /\ i \in 1..(n - p + 1) /\ j \in 1..(n - p + 1) /\ i + p <= j /\ p >= 1
    BY <1>1, <1>4
  <2>2. \A k \in 1..p : k \in 1..L
    BY <1>1
  <2> HIDE DEF p
  <2>3. \A k \in 1..p : nodes[i + k - 1].hash = nodes[j + k - 1].hash
    BY <1>2, <2>2
  <2>4. Window(nodes, p, i) = Window(nodes, p, j)
    BY <1>1, <2>1, <2>3, WindowsEqual
  <2>5. p \in Recurring(nodes)
    BY <2>1, <2>4 DEF Recurring
  <2> QED
    BY <1>1, <2>5
<1> QED
  BY <1>3, <1>4

\* Where slideWindow replaces nothing and no neighbours are equal, nothing is
\* there twice, though the scan counts less than what occurs.
LEMMA NothingRecurs ==
    ASSUME NEW S, NEW nodes \in Seq(S), NoTwins(nodes), ~ Repeated(nodes)
    PROVE  Recurring(nodes) = {}
<1> SUFFICES ASSUME Recurring(nodes) # {} PROVE FALSE
  OBVIOUS
<1>1. Len(nodes) \in Nat
  BY LenProperties
<1>2. PICK L \in Recurring(nodes) : \A p \in Recurring(nodes) : L <= p
  <2>1. Recurring(nodes) \in SUBSET Nat
    BY <1>1 DEF Recurring
  <2> QED
    BY <2>1, Least
<1>3. L \in 2..Len(nodes) /\ L \in Nat /\ L >= 1
  BY <1>1, <1>2 DEF Recurring
<1>4. PICK i, j \in 1..(Len(nodes) - L + 1) :
         i + L <= j /\ Window(nodes, L, i) = Window(nodes, L, j)
  BY <1>2 DEF Recurring
<1>5. ASSUME NEW k \in 1..(Len(nodes) - L + 1), Overlaps(nodes, L, k) PROVE FALSE
  <2>1. PICK h \in 1..(k - 1) : k - h < L /\ Window(nodes, L, k) = Window(nodes, L, h)
    BY <1>5 DEF Overlaps
  <2>2. h \in 1..(Len(nodes) - L + 1) /\ h < k
    BY <1>1, <1>3
  <2>3. \E p \in Recurring(nodes) : p < L
    BY <1>3, <2>1, <2>2, OverlapShorter
  <2>4. PICK p \in Recurring(nodes) : p < L
    BY <2>3
  <2>5. p \in Nat
    BY <1>1 DEF Recurring
  <2> QED
    BY <1>2, <1>3, <2>4, <2>5
<1>6. Counted(nodes, L) = 1..(Len(nodes) - L + 1)
  BY <1>5 DEF Counted
<1>7. i # j
  BY <1>1, <1>3, <1>4
<1>8. Repeated(nodes)
  BY <1>3, <1>4, <1>6, <1>7, CountedTwice
<1> QED
  BY <1>8
-----------------------------------------------------------------------------
(* The second half of slideWindow.                                         *)

Ends(nodes, pattern, i) == IsStrictPrefix(SubSeq(Hash(nodes), i, Len(nodes)), pattern)

\* Where the pattern occurs.
Occurs(nodes, pattern, k) ==
    k \in 1..(Len(nodes) - Len(pattern) + 1) /\ Window(nodes, Len(pattern), k) = pattern

\* The scan finds every occurrence, and gives up only where none fits anymore.
LEMMA AtIs ==
    ASSUME NEW S, NEW nodes \in Seq(S), NEW pattern \in Seq(Hashes(S)), Len(pattern) >= 1,
           NEW i \in 1..Len(nodes)
    PROVE  /\ At(nodes, pattern, i) <=> Occurs(nodes, pattern, i)
           /\ Ends(nodes, pattern, i) => Len(nodes) - i + 1 < Len(pattern)
<1> DEFINE n == Len(nodes)
           L == Len(pattern)
           H == Hash(nodes)
           t == SubSeq(Hash(nodes), i, Len(nodes))
<1>1. n \in Nat /\ L \in Nat /\ L >= 1 /\ i \in 1..n
  BY LenProperties
<1>2. H \in Seq(Hashes(S)) /\ Len(H) = n /\ \A k \in 1..n : H[k] = nodes[k].hash
  BY HashIs
<1>3. t \in Seq(Hashes(S)) /\ Len(t) = n - i + 1 /\ \A k \in 1..(n - i + 1) : t[k] = H[i + k - 1]
  <2> HIDE DEF H, n
  <2>1. \A k \in i..n : H[k] \in Hashes(S)
    <3>1. \A k \in i..n : k \in 1..Len(H)
      BY <1>1, <1>2
    <3> QED
      BY <1>2, <3>1, ElementOfSeq
  <2>2. /\ SubSeq(H, i, n) \in Seq(Hashes(S)) /\ Len(SubSeq(H, i, n)) = n - i + 1
        /\ \A k \in 1..(n - i + 1) : SubSeq(H, i, n)[k] = H[i + k - 1]
    <3>1. n \in i..n
      BY <1>1
    <3> QED
      BY <1>1, <1>2, <2>1, <3>1, SubSeqProperties
  <2> QED
    BY <2>2 DEF H, n
<1>4. SubSeq(pattern, 1, L) = pattern /\ SubSeq(t, 1, Len(t)) = t
  <2> HIDE DEF t
  <2> QED
    BY <1>3, SubSeqFull
<1>5. ASSUME L <= n - i + 1 PROVE SubSeq(t, 1, L) = Window(nodes, L, i)
  <2> DEFINE s == SubSeq(t, 1, L)
             w == Window(nodes, L, i)
  <2> HIDE DEF t, H, n, L
  <2>1. s \in Seq(Hashes(S)) /\ Len(s) = L /\ \A k \in 1..L : s[k] = t[k]
    <3>1. \A k \in 1..L : t[k] \in Hashes(S)
      <4>1. \A k \in 1..L : k \in 1..Len(t)
        BY <1>1, <1>3, <1>5
      <4> QED
        BY <1>3, <4>1, ElementOfSeq
    <3>2. 1 \in Nat /\ L \in 1..Len(t) /\ L - 1 + 1 = L /\ \A k \in 1..L : 1 + k - 1 = k
      BY <1>1, <1>3, <1>5
    <3>3. /\ s \in Seq(Hashes(S)) /\ Len(s) = L - 1 + 1
          /\ \A k \in 1..(L - 1 + 1) : s[k] = t[1 + k - 1]
      BY <1>3, <3>1, <3>2, SubSeqProperties
    <3> HIDE DEF s
    <3> QED
      BY <3>2, <3>3
  <2>2. i \in 1..(n - L + 1)
    BY <1>1, <1>5
  <2>3. w \in Seq(Hashes(S)) /\ Len(w) = L /\ \A k \in 1..L : w[k] = nodes[i + k - 1].hash
    BY <1>1, <2>2, WindowIs DEF n
  <2> HIDE DEF s, w
  <2>4. ASSUME NEW k \in 1..L PROVE s[k] = w[k]
    <3>1. k \in 1..(n - i + 1) /\ i + k - 1 \in 1..n
      BY <1>1, <1>5
    <3> QED
      BY <1>2, <1>3, <2>1, <2>3, <3>1
  <2>5. s = w
    BY <2>1, <2>3, <2>4, SeqEqual
  <2> QED
    BY <2>5 DEF s, w
<1>6. At(nodes, pattern, i) <=> Occurs(nodes, pattern, i)
  <2>1. At(nodes, pattern, i) <=> L <= Len(t) /\ SubSeq(pattern, 1, L) = SubSeq(t, 1, L)
    BY DEF At, IsPrefix
  <2>2. Occurs(nodes, pattern, i) <=> L <= n - i + 1 /\ Window(nodes, L, i) = pattern
    BY <1>1 DEF Occurs
  <2> HIDE DEF t, n, L
  <2> QED
    BY <1>3, <1>4, <1>5, <2>1, <2>2
<1>7. Ends(nodes, pattern, i) => n - i + 1 < L
  <2>1. Ends(nodes, pattern, i)
        <=> Len(t) <= L /\ SubSeq(t, 1, Len(t)) = SubSeq(pattern, 1, Len(t)) /\ t # pattern
    BY DEF Ends, IsPrefix, IsStrictPrefix
  <2> HIDE DEF t, n, L
  <2>2. Len(t) = L => ~ Ends(nodes, pattern, i)
    BY <1>4, <2>1
  <2> QED
    BY <1>1, <1>3, <2>1, <2>2
<1> QED
  BY <1>6, <1>7

\* The wrapper of an occurrence.
Instance(nodes, pattern, e) ==
    \E k : Occurs(nodes, pattern, k) /\ e = Object(SubSeq(nodes, k, k + Len(pattern) - 1))

\* What can be left of the nodes from i on: nodes, and wrappers of occurrences,
\* one or more for one occurrence or more and two or more for two that do not
\* overlap.
Result(nodes, pattern, r, i) ==
    /\ \A x \in 1..Len(r) : r[x] \in Range(nodes) \/ Instance(nodes, pattern, r[x])
    /\ \A k : Occurs(nodes, pattern, k) /\ i <= k =>
          \E x \in 1..Len(r) : Instance(nodes, pattern, r[x])
    /\ \A k, l : Occurs(nodes, pattern, k) /\ Occurs(nodes, pattern, l)
                 /\ i <= k /\ k + Len(pattern) <= l =>
          \E x, y \in 1..Len(r) :
              x # y /\ Instance(nodes, pattern, r[x]) /\ Instance(nodes, pattern, r[y])

\* The wrapper of an occurrence, and what is left behind it.
LEMMA ResultWrap ==
    ASSUME NEW S, NEW nodes, NEW pattern, Len(nodes) \in Nat, Len(pattern) \in Nat,
           NEW e \in S, NEW r \in Seq(S), NEW i \in Nat, Instance(nodes, pattern, e),
           Result(nodes, pattern, r, i + Len(pattern))
    PROVE  Result(nodes, pattern, <<e>> \o r, i)
<1> DEFINE b == <<e>> \o r
           I(f) == Instance(nodes, pattern, f)
<1>1. Len(r) \in Nat /\ Len(b) = Len(r) + 1 /\ b[1] = e /\ \A k \in 1..Len(r) : b[k + 1] = r[k]
  BY ConsIs, LenProperties
<1> HIDE DEF b
<1>2. ASSUME NEW x \in 1..Len(b) PROVE b[x] \in Range(nodes) \/ I(b[x])
  <2>1. x = 1 \/ (x - 1 \in 1..Len(r) /\ (x - 1) + 1 = x)
    BY <1>1
  <2>2. x = 1 \/ b[x] = r[x - 1]
    BY <1>1, <2>1
  <2> QED
    BY <1>1, <2>1, <2>2 DEF Result
<1>3. 1 \in 1..Len(b) /\ I(b[1])
  BY <1>1
<1>4. ASSUME NEW k, NEW l, Occurs(nodes, pattern, k), Occurs(nodes, pattern, l),
             i <= k, k + Len(pattern) <= l
      PROVE  \E x, y \in 1..Len(b) : x # y /\ I(b[x]) /\ I(b[y])
  <2>1. i + Len(pattern) <= l
    BY <1>4 DEF Occurs
  <2>2. PICK x \in 1..Len(r) : I(r[x])
    BY <1>4, <2>1 DEF Result
  <2>3. x + 1 \in 1..Len(b) /\ x + 1 # 1 /\ b[x + 1] = r[x]
    BY <1>1
  <2> QED
    BY <1>3, <2>2, <2>3
<1>5. Result(nodes, pattern, b, i)
  BY <1>2, <1>3, <1>4 DEF Result
<1> QED
  BY <1>5 DEF b

\* A node at which nothing is wrapped, and what is left behind it.
LEMMA ResultStep ==
    ASSUME NEW S, NEW nodes, NEW pattern, Len(nodes) \in Nat, Len(pattern) \in Nat,
           NEW e \in S, NEW r \in Seq(S), NEW i \in Nat, e \in Range(nodes),
           ~ Occurs(nodes, pattern, i),
           Result(nodes, pattern, r, i + 1)
    PROVE  Result(nodes, pattern, <<e>> \o r, i)
<1> DEFINE b == <<e>> \o r
           I(f) == Instance(nodes, pattern, f)
<1>1. Len(r) \in Nat /\ Len(b) = Len(r) + 1 /\ b[1] = e /\ \A k \in 1..Len(r) : b[k + 1] = r[k]
  BY ConsIs, LenProperties
<1> HIDE DEF b
<1>2. ASSUME NEW x \in 1..Len(b) PROVE b[x] \in Range(nodes) \/ I(b[x])
  <2>1. x = 1 \/ (x - 1 \in 1..Len(r) /\ (x - 1) + 1 = x)
    BY <1>1
  <2>2. x = 1 \/ b[x] = r[x - 1]
    BY <1>1, <2>1
  <2> QED
    BY <1>1, <2>1, <2>2 DEF Result
<1>3. ASSUME NEW x \in 1..Len(r) PROVE x + 1 \in 1..Len(b) /\ b[x + 1] = r[x]
  BY <1>1
<1>4. ASSUME NEW k, Occurs(nodes, pattern, k), i <= k PROVE i + 1 <= k
  <2>1. k # i /\ k \in Int
    BY <1>4 DEF Occurs
  <2> QED
    BY <1>4, <2>1
<1>5. ASSUME NEW k, Occurs(nodes, pattern, k), i <= k
      PROVE  \E x \in 1..Len(b) : I(b[x])
  <2>1. PICK x \in 1..Len(r) : I(r[x])
    BY <1>4, <1>5 DEF Result
  <2> QED
    BY <1>3, <2>1
<1>6. ASSUME NEW k, NEW l, Occurs(nodes, pattern, k), Occurs(nodes, pattern, l),
             i <= k, k + Len(pattern) <= l
      PROVE  \E x, y \in 1..Len(b) : x # y /\ I(b[x]) /\ I(b[y])
  <2>1. PICK x, y \in 1..Len(r) : x # y /\ I(r[x]) /\ I(r[y])
    BY <1>4, <1>6 DEF Result
  <2>2. x + 1 # y + 1
    BY <2>1
  <2> QED
    BY <1>3, <2>1, <2>2
<1>7. Result(nodes, pattern, b, i)
  BY <1>2, <1>5, <1>6 DEF Result
<1> QED
  BY <1>7 DEF b

\* The function that slideWindow replaces with.
Replaces(f, nodes, pattern) ==
    f = [at \in (1..(Len(nodes) + Len(pattern))) \X BOOLEAN |->
            IF at[1] > Len(nodes) THEN <<>>
            ELSE IF Ends(nodes, pattern, at[1])
            THEN IF at[2] THEN <<>> ELSE SubSeq(nodes, at[1], Len(nodes))
            ELSE IF At(nodes, pattern, at[1])
            THEN <<Object(SubSeq(nodes, at[1], at[1] + Len(pattern) - 1))>>
                 \o f[<<at[1] + Len(pattern), TRUE>>]
            ELSE <<nodes[at[1]]>> \o f[<<at[1] + 1, FALSE>>]]

\* Its equation at one place.
LEMMA ReplacesAt ==
    ASSUME NEW f, NEW nodes, NEW pattern, Replaces(f, nodes, pattern)
    PROVE  \A i \in 1..(Len(nodes) + Len(pattern)), after \in BOOLEAN :
              f[<<i, after>>] =
                 IF i > Len(nodes) THEN <<>>
                 ELSE IF Ends(nodes, pattern, i)
                 THEN IF after THEN <<>> ELSE SubSeq(nodes, i, Len(nodes))
                 ELSE IF At(nodes, pattern, i)
                 THEN <<Object(SubSeq(nodes, i, i + Len(pattern) - 1))>>
                      \o f[<<i + Len(pattern), TRUE>>]
                 ELSE <<nodes[i]>> \o f[<<i + 1, FALSE>>]
  BY DEF Replaces

\* slideWindow's second half by that function.
LEMMA ReplaceBy ==
    ASSUME NEW S, NEW nodes \in Seq(S), NEW pattern \in Seq(Hashes(S)), Len(pattern) >= 1
    PROVE  \E f : Replaces(f, nodes, pattern) /\ Replace(nodes, pattern) = f[<<1, FALSE>>]
<1> DEFINE n == Len(nodes)
           L == Len(pattern)
           D == (1..(n + L)) \X BOOLEAN
           m == [t \in D |-> n + L - t[1]]
           Stop == {t \in D : t[1] > n \/ Ends(nodes, pattern, t[1])}
           base == [t \in D |-> IF t[1] > n \/ t[2] THEN <<>> ELSE SubSeq(nodes, t[1], n)]
           front == [t \in D |-> IF At(nodes, pattern, t[1])
                                 THEN <<Object(SubSeq(nodes, t[1], t[1] + L - 1))>>
                                 ELSE <<nodes[t[1]]>>]
           next == [t \in D |-> IF At(nodes, pattern, t[1]) THEN <<t[1] + L, TRUE>>
                                ELSE <<t[1] + 1, FALSE>>]
<1>1. n \in Nat /\ L \in Nat /\ L >= 1 /\ n + L \in Nat
  BY LenProperties
<1>2. m \in [D -> 0..(n + L)]
  <2>1. \A t \in D : t[1] \in 1..(n + L)
    OBVIOUS
  <2> QED
    BY <1>1, <2>1
<1>3. ASSUME NEW t \in D, t \notin Stop PROVE next[t] \in D /\ m[next[t]] < m[t]
  <2> DEFINE i == t[1]
  <2>1. i \in 1..Len(nodes)
    BY <1>1, <1>3
  <2>2. At(nodes, pattern, i) => i + L <= n + 1
    <3>1. At(nodes, pattern, i) => Occurs(nodes, pattern, i)
      BY <1>1, <2>1, AtIs
    <3> QED
      BY <1>1, <2>1, <3>1 DEF Occurs
  <2>3. CASE At(nodes, pattern, i)
    <3>1. next[t] = <<i + L, TRUE>> /\ i + L \in 1..(n + L)
      <4>1. next[t] = <<i + L, TRUE>>
        <5> HIDE DEF n, L, D
        <5> QED
          BY <2>3
      <4>2. i + L \in 1..(n + L)
        <5> HIDE DEF next, D, i
        <5> QED
          BY <1>1, <2>1, <2>2, <2>3
      <4> QED
        BY <4>1, <4>2
    <3>2. next[t] \in D /\ m[next[t]] = n + L - (i + L)
      BY <3>1
    <3> QED
      BY <1>1, <2>1, <3>2
  <2>4. CASE ~ At(nodes, pattern, i)
    <3>1. next[t] = <<i + 1, FALSE>> /\ i + 1 \in 1..(n + L)
      <4>1. next[t] = <<i + 1, FALSE>>
        <5> HIDE DEF n, L, D
        <5> QED
          BY <2>4
      <4>2. i + 1 \in 1..(n + L)
        <5> HIDE DEF next, D, i
        <5> QED
          BY <1>1, <2>1
      <4> QED
        BY <4>1, <4>2
    <3>2. next[t] \in D /\ m[next[t]] = n + L - (i + 1)
      BY <3>1
    <3> QED
      BY <1>1, <2>1, <3>2
  <2> QED
    BY <2>3, <2>4
<1>4. \E f : Recurs(f, D, Stop, base, front, next)
  <2> HIDE DEF n, L, D, m, front, next, base, Stop
  <2> QED
    BY <1>1, <1>2, <1>3, Recursion
<1>5. PICK f : f = [t \in D |-> IF t \in Stop THEN base[t] ELSE front[t] \o f[next[t]]]
  <2> HIDE DEF n, L, D, m, front, next, base, Stop
  <2> QED
    BY <1>4 DEF Recurs
<1>6. Replaces(f, nodes, pattern)
  <2>1. ASSUME NEW t \in D
        PROVE  (IF t \in Stop THEN base[t] ELSE front[t] \o f[next[t]])
               = IF t[1] > n THEN <<>>
                 ELSE IF Ends(nodes, pattern, t[1])
                 THEN IF t[2] THEN <<>> ELSE SubSeq(nodes, t[1], n)
                 ELSE IF At(nodes, pattern, t[1])
                 THEN <<Object(SubSeq(nodes, t[1], t[1] + L - 1))>> \o f[<<t[1] + L, TRUE>>]
                 ELSE <<nodes[t[1]]>> \o f[<<t[1] + 1, FALSE>>]
    <3> DEFINE A == At(nodes, pattern, t[1])
               E == Ends(nodes, pattern, t[1])
    <3>1. t \in Stop <=> t[1] > n \/ E
      OBVIOUS
    <3>2. base[t] = IF t[1] > n \/ t[2] THEN <<>> ELSE SubSeq(nodes, t[1], n)
      OBVIOUS
    <3>3. A => front[t] = <<Object(SubSeq(nodes, t[1], t[1] + L - 1))>>
               /\ next[t] = <<t[1] + L, TRUE>>
      OBVIOUS
    <3>4. ~ A => front[t] = <<nodes[t[1]]>> /\ next[t] = <<t[1] + 1, FALSE>>
      OBVIOUS
    <3> HIDE DEF A, E, Stop, base, front, next, n, L
    <3>5. CASE t[1] > n
      BY <3>1, <3>2, <3>5
    <3>6. CASE ~ (t[1] > n) /\ E
      BY <3>1, <3>2, <3>6 DEF E
    <3>7. CASE ~ (t[1] > n) /\ ~ E
      BY <3>1, <3>3, <3>4, <3>7 DEF E, A
    <3> QED
      BY <3>5, <3>6, <3>7
  <2> HIDE DEF D, m, front, next, base, Stop, n, L
  <2>2. f = [t \in D |->
                IF t[1] > n THEN <<>>
                ELSE IF Ends(nodes, pattern, t[1])
                THEN IF t[2] THEN <<>> ELSE SubSeq(nodes, t[1], n)
                ELSE IF At(nodes, pattern, t[1])
                THEN <<Object(SubSeq(nodes, t[1], t[1] + L - 1))>> \o f[<<t[1] + L, TRUE>>]
                ELSE <<nodes[t[1]]>> \o f[<<t[1] + 1, FALSE>>]]
    BY <1>5, <2>1
  <2> QED
    BY <2>2 DEF Replaces, D, n, L
<1> DEFINE from == CHOOSE g : Replaces(g, nodes, pattern)
<1>7. Replaces(from, nodes, pattern)
  BY <1>6
<1>8. Replace(nodes, pattern) = from[<<1, FALSE>>]
  <2> HIDE DEF n, L
  <2> QED
    BY DEF Replace, Replaces, Ends
<1> HIDE DEF from
<1> QED
  BY <1>7, <1>8

\* What slideWindow's second half makes of a list: nodes of it and wrappers of
\* the pattern's instances, which stand for a beginning of what the list stands
\* for.
LEMMA ReplaceIs ==
    ASSUME NEW S, Tidy(S), NEW nodes \in Seq(S), nodes # <<>>,
           NEW pattern \in Seq(Hashes(S)), Len(pattern) >= 2,
           NEW top \in Nat, Fits(nodes, 0, top)
    PROVE  /\ Replace(nodes, pattern) \in Seq(Made(S)) /\ Replace(nodes, pattern) # <<>>
           /\ Fits(Replace(nodes, pattern), 0, top)
           /\ Result(nodes, pattern, Replace(nodes, pattern), 1)
<1> DEFINE n == Len(nodes)
           L == Len(pattern)
<1>1. n \in Nat /\ L \in Nat /\ L >= 2 /\ L >= 1 /\ n # 0
  BY EmptySeq, LenProperties
<1>2. PICK f : Replaces(f, nodes, pattern) /\ Replace(nodes, pattern) = f[<<1, FALSE>>]
  BY <1>1, ReplaceBy
<1>3. PICK cut, hi : hi <= top /\ Cuts(nodes, cut, 0, hi)
  BY DEF Fits
<1>4. hi \in Nat /\ cut[n] = hi /\ cut[0] = 0 /\ \A i \in 0..n : cut[i] \in Nat
  <2>1. n \in 0..n /\ cut[n] = hi /\ cut[n] \in Nat
    BY <1>1, <1>3 DEF Cuts
  <2> QED
    BY <1>3, <2>1 DEF Cuts
<1>5. ASSUME NEW i \in 1..(n + 1) PROVE cut[i - 1] \in Nat /\ cut[i - 1] <= top
  <2>1. i - 1 \in 0..Len(nodes) /\ n \in (i - 1)..Len(nodes) /\ n - (i - 1) \in Nat
    BY <1>1
  <2>2. cut[i - 1] \in Nat /\ cut[i - 1] + (n - (i - 1)) <= cut[n]
    BY <1>1, <1>3, <2>1, CutsGrow
  <2> HIDE DEF n
  <2> QED
    BY <1>3, <1>4, <2>1, <2>2
<1> DEFINE Good(i, b) ==
              /\ f[<<i, b>>] \in Seq(Made(S)) /\ Fits(f[<<i, b>>], cut[i - 1], top)
              /\ i <= n /\ b = FALSE => f[<<i, b>>] # <<>>
              /\ Result(nodes, pattern, f[<<i, b>>], i)
           T == {i \in 1..(n + 1) : \A b \in BOOLEAN : Good(i, b)}
<1>6. \A i \in 1..(n + 1), b \in BOOLEAN :
         f[<<i, b>>] = IF i > n THEN <<>>
                       ELSE IF Ends(nodes, pattern, i)
                       THEN IF b THEN <<>> ELSE SubSeq(nodes, i, n)
                       ELSE IF At(nodes, pattern, i)
                       THEN <<Object(SubSeq(nodes, i, i + L - 1))>> \o f[<<i + L, TRUE>>]
                       ELSE <<nodes[i]>> \o f[<<i + 1, FALSE>>]
  <2>1. \A i \in 1..(n + 1) : i \in 1..(Len(nodes) + Len(pattern))
    BY <1>1
  <2> TAKE i \in 1..(n + 1), b \in BOOLEAN
  <2>2. i \in 1..(Len(nodes) + Len(pattern))
    BY <2>1
  <2>3. Replaces(f, nodes, pattern)
    BY <1>2
  <2> QED
    BY <2>2, <2>3, ReplacesAt
<1>7. \A i \in 1..n : nodes[i] \in S /\ nodes[i] \in Range(nodes)
  <2>1. DOMAIN nodes = 1..n
    BY LenProperties
  <2> QED
    BY <2>1, ElementOfSeq DEF Range
<1>8. S \subseteq Made(S) /\ Seq(S) \subseteq Seq(Made(S)) /\ Tidy(Made(S))
  BY MadeTidy DEF Made
<1>9. ASSUME NEW i \in 1..(n + 1), \A k : Occurs(nodes, pattern, k) => ~ (i <= k)
      PROVE  Result(nodes, pattern, <<>>, i)
             /\ (i <= n => Result(nodes, pattern, SubSeq(nodes, i, n), i))
  <2>1. Result(nodes, pattern, <<>>, i)
    BY <1>9 DEF Result
  <2>2. ASSUME i <= n PROVE Result(nodes, pattern, SubSeq(nodes, i, n), i)
    <3> DEFINE r == SubSeq(nodes, i, n)
    <3>1. Len(r) = n - i + 1 /\ \A x \in 1..(n - i + 1) : r[x] = nodes[i + x - 1]
      <4>1. n \in i..n /\ \A k \in i..n : nodes[k] \in S
        BY <1>1, <1>7, <2>2
      <4> QED
        BY <1>1, <4>1, SubSeqProperties
    <3>2. \A x \in 1..(n - i + 1) : i + x - 1 \in 1..n
      BY <1>1
    <3> HIDE DEF r, n
    <3>3. \A x \in 1..Len(r) : r[x] \in Range(nodes)
      BY <1>7, <3>1, <3>2
    <3>4. Result(nodes, pattern, r, i)
      BY <1>9, <3>3 DEF Result
    <3> QED
      BY <3>4 DEF r
  <2> QED
    BY <2>1, <2>2
<1>10. ASSUME NEW i \in 1..(n + 1), \A j \in 1..(n + 1) : i < j => j \in T,
              NEW b \in BOOLEAN
       PROVE  Good(i, b)
  <2>1. Fits(<<>>, cut[i - 1], top) /\ <<>> \in Seq(Made(S))
    BY <1>5, FitsEmpty, EmptySeq
  <2>2. CASE i = n + 1
    <3>1. i > n /\ ~ (i <= n)
      BY <1>1, <2>2
    <3>2. f[<<i, b>>] = <<>>
      BY <1>6, <3>1
    <3>3. \A k : Occurs(nodes, pattern, k) => ~ (i <= k)
      BY <1>1, <2>2 DEF Occurs
    <3>4. Result(nodes, pattern, <<>>, i)
      BY <1>9, <3>3
    <3> QED
      BY <2>1, <3>1, <3>2, <3>4
  <2>3. CASE i \in 1..n /\ Ends(nodes, pattern, i)
    <3>1. i \in 1..Len(nodes) /\ ~ (i > n) /\ n \in i..n
      BY <1>1, <2>3
    <3>2. n - i + 1 < L
      BY <1>1, <2>3, <3>1, AtIs
    <3>3. \A k : Occurs(nodes, pattern, k) => ~ (i <= k)
      BY <1>1, <3>1, <3>2 DEF Occurs
    <3>4. f[<<i, b>>] = IF b THEN <<>> ELSE SubSeq(nodes, i, n)
      BY <1>6, <2>3, <3>1
    <3>5. Result(nodes, pattern, <<>>, i) /\ Result(nodes, pattern, SubSeq(nodes, i, n), i)
      BY <1>9, <2>3, <3>3
    <3>6. SubSeq(nodes, i, n) \in Seq(S) /\ SubSeq(nodes, i, n) # <<>>
      <4>1. \A k \in i..n : nodes[k] \in S
        BY <1>1, <1>7, <3>1
      <4>2. SubSeq(nodes, i, n) \in Seq(S) /\ Len(SubSeq(nodes, i, n)) = n - i + 1
        BY <1>1, <3>1, <4>1, SubSeqProperties
      <4>3. n - i + 1 # 0
        BY <1>1, <3>1
      <4> QED
        BY <4>2, <4>3, EmptySeq
    <3>7. Fits(SubSeq(nodes, i, n), cut[i - 1], top)
      BY <1>3, <3>1, FitsRest
    <3> HIDE DEF n
    <3> QED
      BY <1>8, <2>1, <3>4, <3>5, <3>6, <3>7
  <2>4. CASE i \in 1..n /\ ~ Ends(nodes, pattern, i) /\ At(nodes, pattern, i)
    <3> DEFINE w == Object(SubSeq(nodes, i, i + L - 1))
               r == f[<<i + L, TRUE>>]
    <3>1. i \in 1..Len(nodes) /\ ~ (i > n) /\ i \in Nat
      BY <1>1, <2>4
    <3>2. Occurs(nodes, pattern, i)
      BY <1>1, <2>4, <3>1, AtIs
    <3>3. i + L \in 1..(n + 1) /\ i < i + L /\ i + L - 1 \in i..n /\ i # i + L - 1
          /\ (i + L) - 1 = i + L - 1
      BY <1>1, <3>1, <3>2 DEF Occurs
    <3>4. f[<<i, b>>] = <<w>> \o r
      BY <1>6, <2>4, <3>1
    <3>5. Good(i + L, TRUE)
      <4>1. i + L \in T
        <5> HIDE DEF T
        <5> QED
          BY <1>10, <3>3
      <4> HIDE DEF Good
      <4> QED
        BY <4>1
    <3>6. r \in Seq(Made(S)) /\ Fits(r, cut[i + L - 1], top) /\ Result(nodes, pattern, r, i + L)
      <4> HIDE DEF L, n
      <4> QED
        BY <3>3, <3>5
    <3>7. w \in Made(S) /\ w.id = 0 /\ w.kids = SubSeq(nodes, i, i + L - 1)
      <4>1. \A k \in i..(i + L - 1) : nodes[k] \in S
        BY <1>1, <1>7, <3>3
      <4>2. SubSeq(nodes, i, i + L - 1) \in Seq(S)
        BY <1>1, <3>1, <3>3, <4>1, SubSeqProperties
      <4> QED
        BY <4>2 DEF Made, Object, Synthetic
    <3>8. Covers(w, cut[i - 1], cut[i + L - 1])
      <4>1. nodes \in Seq(Made(S)) /\ i + L - 1 \in i..Len(nodes)
        BY <1>8, <3>3
      <4> HIDE DEF w, L, n
      <4> QED
        BY <1>3, <1>8, <3>1, <3>3, <3>7, <4>1, WrapCovers
    <3>9. Instance(nodes, pattern, w)
      BY <3>2 DEF Instance
    <3> HIDE DEF w, r
    <3>10. <<w>> \o r \in Seq(Made(S)) /\ <<w>> \o r # <<>>
      BY <3>6, <3>7, ConsIs
    <3>11. Fits(<<w>> \o r, cut[i - 1], top)
      BY <3>6, <3>7, <3>8, FitsCons
    <3>12. Result(nodes, pattern, <<w>> \o r, i)
      BY <1>1, <3>1, <3>6, <3>7, <3>9, ResultWrap
    <3> QED
      BY <3>4, <3>10, <3>11, <3>12
  <2>5. CASE i \in 1..n /\ ~ Ends(nodes, pattern, i) /\ ~ At(nodes, pattern, i)
    <3> DEFINE r == f[<<i + 1, FALSE>>]
    <3>1. i \in 1..Len(nodes) /\ ~ (i > n) /\ i \in Nat
      BY <1>1, <2>5
    <3>2. ~ Occurs(nodes, pattern, i)
      BY <1>1, <2>5, <3>1, AtIs
    <3>3. i + 1 \in 1..(n + 1) /\ i < i + 1 /\ (i + 1) - 1 = i
      BY <1>1, <3>1
    <3>4. f[<<i, b>>] = <<nodes[i]>> \o r
      BY <1>6, <2>5, <3>1
    <3>5. Good(i + 1, FALSE)
      <4>1. i + 1 \in T
        <5> HIDE DEF T
        <5> QED
          BY <1>10, <3>3
      <4> HIDE DEF Good
      <4> QED
        BY <4>1
    <3>6. r \in Seq(Made(S)) /\ Fits(r, cut[i], top) /\ Result(nodes, pattern, r, i + 1)
      <4> HIDE DEF L, n
      <4> QED
        BY <3>3, <3>5
    <3>7. nodes[i] \in Made(S) /\ nodes[i] \in Range(nodes)
      BY <1>7, <1>8, <3>1
    <3>8. Covers(nodes[i], cut[i - 1], cut[i])
      BY <1>3, <3>1 DEF Cuts
    <3> HIDE DEF r
    <3>9. <<nodes[i]>> \o r \in Seq(Made(S)) /\ <<nodes[i]>> \o r # <<>>
      BY <3>6, <3>7, ConsIs
    <3>10. Fits(<<nodes[i]>> \o r, cut[i - 1], top)
      BY <3>6, <3>7, <3>8, FitsCons
    <3>11. Result(nodes, pattern, <<nodes[i]>> \o r, i)
      BY <1>1, <3>1, <3>2, <3>6, <3>7, ResultStep
    <3> QED
      BY <3>4, <3>9, <3>10, <3>11
  <2>6. i \in 1..n \/ i = n + 1
    BY <1>1
  <2> QED
    BY <2>2, <2>3, <2>4, <2>5, <2>6
<1>11. ASSUME NEW i \in 1..(n + 1), \A j \in 1..(n + 1) : i < j => j \in T
       PROVE  i \in T
  <2>1. \A b \in BOOLEAN : Good(i, b)
    <3> HIDE DEF Good, T
    <3> QED
      BY <1>10, <1>11
  <2> HIDE DEF Good
  <2> QED
    BY <2>1
<1>12. \A i \in 1..(n + 1) : i \in T
  <2>1. n + 1 \in Nat
    BY <1>1
  <2> HIDE DEF T
  <2> QED
    BY <1>11, <2>1, Descend
<1>13. 1 \in 1..(n + 1) /\ 1 <= n
  BY <1>1
<1>14. Good(1, FALSE)
  <2> HIDE DEF Good
  <2> QED
    BY <1>12, <1>13
<1>15. cut[1 - 1] = 0
  BY <1>4
<1> QED
  BY <1>2, <1>13, <1>14, <1>15
-----------------------------------------------------------------------------
(* What is replaced is wrapped twice.                                      *)

\* A node stands for one stretch of siblings only.
LEMMA CoversOne ==
    ASSUME NEW S, Tidy(S), NEW n \in S, NEW lo, NEW hi, NEW from, NEW to,
           Covers(n, lo, hi), Covers(n, from, to)
    PROVE  lo = from /\ hi = to
<1>1. lo \in Nat /\ hi \in Nat /\ lo < hi /\ from \in Nat /\ to \in Nat /\ from < to
  BY DEF Covers
<1> DEFINE d == (hi - lo) + (to - from)
<1>2. d \in Nat /\ hi - lo - 1 <= d /\ to - from - 1 <= d
  BY <1>1
<1> HIDE DEF d
<1>3. Spells(Unwrapped(<<n>>, d), lo, hi) /\ Spells(Unwrapped(<<n>>, d), from, to)
  BY <1>2, CoversDeeper
<1>4. ASSUME NEW a, Spells(a, lo, hi), Spells(a, from, to) PROVE lo = from /\ hi = to
  <2>1. hi - lo = to - from /\ 1 \in 1..(hi - lo)
    BY <1>1, <1>4 DEF Spells
  <2>2. a[1].id = lo + 1 /\ a[1].id = from + 1
    BY <1>4, <2>1 DEF Spells
  <2> QED
    BY <1>1, <2>1, <2>2
<1> QED
  BY <1>3, <1>4

\* A new wrapper is not one of the nodes it is put among.
LEMMA InstanceNew ==
    ASSUME NEW S, Tidy(S), NEW nodes \in Seq(S), NEW cut, NEW hi, Cuts(nodes, cut, 0, hi),
           NEW pattern, Len(pattern) \in Nat, Len(pattern) >= 2, NEW e,
           Instance(nodes, pattern, e)
    PROVE  e \notin Range(nodes) /\ e.hash = [role |-> "", of |-> pattern]
<1> DEFINE L == Len(pattern)
           n == Len(nodes)
<1>1. PICK k : Occurs(nodes, pattern, k) /\ e = Object(SubSeq(nodes, k, k + L - 1))
  BY DEF Instance
<1>2. n \in Nat /\ L \in Nat /\ L >= 2 /\ k \in 1..n /\ k + L - 1 \in k..n /\ k # k + L - 1
  BY <1>1, LenProperties DEF Occurs
<1>3. e.hash = [role |-> "", of |-> pattern]
  <2>1. e.hash = [role |-> "", of |-> Hash(SubSeq(nodes, k, k + L - 1))]
    BY <1>1 DEF Object, Synthetic
  <2>2. Hash(SubSeq(nodes, k, k + L - 1)) = pattern
    BY <1>1 DEF Occurs, Window
  <2> QED
    BY <2>1, <2>2
<1>4. ASSUME e \in Range(nodes) PROVE FALSE
  <2>1. PICK i \in 1..n : e = nodes[i]
    <3>1. DOMAIN nodes = 1..n
      BY LenProperties
    <3> QED
      BY <1>4, <3>1 DEF Range
  <2>2. Covers(e, cut[i - 1], cut[i])
    BY <2>1 DEF Cuts
  <2>3. e \in S /\ e.id = 0 /\ e.kids = SubSeq(nodes, k, k + L - 1)
    <3>1. e \in S
      BY <2>1, ElementOfSeq
    <3> QED
      BY <1>1, <3>1 DEF Object, Synthetic
  <2>4. Covers(e, cut[k - 1], cut[k + L - 1])
    <3> HIDE DEF L, n
    <3> QED
      BY <1>2, <2>3, WrapCovers DEF n
  <2>5. cut[i - 1] = cut[k - 1] /\ cut[i] = cut[k + L - 1]
    BY <2>2, <2>3, <2>4, CoversOne
  <2>6. ASSUME NEW x \in 0..n, NEW y \in 0..n, x < y PROVE cut[x] < cut[y]
    <3>1. y \in x..Len(nodes) /\ y - x >= 1
      BY <1>2, <2>6
    <3>2. cut[x] \in Nat /\ cut[y] \in Nat /\ cut[x] + (y - x) <= cut[y]
      BY <1>2, <3>1, CutsGrow
    <3> QED
      BY <3>1, <3>2
  <2>7. ASSUME NEW x \in 0..n, NEW y \in 0..n, cut[x] = cut[y] PROVE x = y
    <3>1. cut[x] \in Nat /\ cut[y] \in Nat
      BY DEF Cuts
    <3>2. ~ (cut[x] < cut[y]) /\ ~ (cut[y] < cut[x])
      BY <2>7, <3>1
    <3>3. ~ (x < y) /\ ~ (y < x)
      BY <2>6, <3>2
    <3> QED
      BY <3>3
  <2>8. i - 1 \in 0..n /\ k - 1 \in 0..n /\ i \in 0..n /\ k + L - 1 \in 0..n
    BY <1>2
  <2>9. i - 1 = k - 1 /\ i = k + L - 1
    <3> HIDE DEF n, L
    <3> QED
      BY <2>5, <2>7, <2>8
  <2> QED
    BY <1>2, <2>9
<1> QED
  BY <1>3, <1>4

\* The pattern that is replaced, and where it is.
LEMMA BestWindowIs ==
    ASSUME NEW S, NEW nodes \in Seq(S), Repeated(nodes)
    PROVE  LET pattern == BestWindow(nodes)
           IN  /\ pattern \in Seq(Hashes(S)) /\ Len(pattern) >= 2
               /\ \E i, j : /\ Occurs(nodes, pattern, i) /\ Occurs(nodes, pattern, j)
                            /\ 1 <= i /\ i + Len(pattern) <= j
<1> DEFINE pattern == BestWindow(nodes)
<1>1. PICK L \in 2..Len(nodes) : \E f, i, j \in 1..(Len(nodes) - L + 1) :
              /\ pattern = Window(nodes, L, f) /\ i + L <= j
              /\ Window(nodes, L, i) = pattern
              /\ Window(nodes, L, j) = pattern
  BY RepeatedTwice
<1>2. PICK f, i, j \in 1..(Len(nodes) - L + 1) :
              /\ pattern = Window(nodes, L, f) /\ i + L <= j
              /\ Window(nodes, L, i) = pattern
              /\ Window(nodes, L, j) = pattern
  BY <1>1
<1> HIDE DEF pattern
<1>3. L \in Nat /\ L >= 1 /\ L >= 2
  BY LenProperties
<1>4. pattern \in Seq(Hashes(S)) /\ Len(pattern) = L
  BY <1>2, <1>3, WindowIs
<1>5. Occurs(nodes, pattern, i) /\ Occurs(nodes, pattern, j) /\ 1 <= i
  BY <1>2, <1>4 DEF Occurs
<1> QED
  BY <1>2, <1>3, <1>4, <1>5 DEF pattern

\* What slideWindow makes of a list.
LEMMA SlideWindowIs ==
    ASSUME NEW S, Tidy(S), NEW nodes \in Seq(S), nodes # <<>>,
           NEW top \in Nat, Fits(nodes, 0, top)
    PROVE  /\ SlideWindow(nodes) \in Seq(Made(S)) /\ SlideWindow(nodes) # <<>>
           /\ Fits(SlideWindow(nodes), 0, top)
<1>1. CASE Repeated(nodes)
  <2>1. BestWindow(nodes) \in Seq(Hashes(S)) /\ Len(BestWindow(nodes)) >= 2
    BY <1>1, BestWindowIs
  <2> QED
    BY <1>1, <2>1, ReplaceIs DEF SlideWindow
<1>2. CASE ~ Repeated(nodes)
  BY <1>2, MadeTidy DEF SlideWindow
<1> QED
  BY <1>1, <1>2

\* A replacement wraps two instances or more, all with one hash.
LEMMA SlideWrapsTwo ==
    ASSUME NEW S, Tidy(S), NEW nodes \in Seq(S), nodes # <<>>, Repeated(nodes),
           NEW top \in Nat, Fits(nodes, 0, top)
    PROVE  LET made == {i \in DOMAIN SlideWindow(nodes) : SlideWindow(nodes)[i] \notin Range(nodes)}
           IN  /\ Cardinality(made) >= 2
               /\ \A i, j \in made : SlideWindow(nodes)[i].hash = SlideWindow(nodes)[j].hash
<1> DEFINE p == BestWindow(nodes)
           r == Replace(nodes, p)
           made == {i \in DOMAIN r : r[i] \notin Range(nodes)}
<1>1. PICK cut, hi : hi <= top /\ Cuts(nodes, cut, 0, hi)
  BY DEF Fits
<1>2. p \in Seq(Hashes(S)) /\ Len(p) >= 2 /\ Len(p) \in Nat
  BY BestWindowIs, LenProperties
<1>3. PICK k, l : Occurs(nodes, p, k) /\ Occurs(nodes, p, l) /\ 1 <= k /\ k + Len(p) <= l
  BY BestWindowIs
<1> HIDE DEF p
<1>4. r \in Seq(Made(S)) /\ Result(nodes, p, r, 1)
  BY <1>2, ReplaceIs
<1>5. SlideWindow(nodes) = r
  BY DEF SlideWindow, p
<1> HIDE DEF r
<1>6. Len(r) \in Nat /\ DOMAIN r = 1..Len(r)
  BY <1>4, LenProperties
<1>7. PICK x, y \in 1..Len(r) : x # y /\ Instance(nodes, p, r[x]) /\ Instance(nodes, p, r[y])
  BY <1>3, <1>4 DEF Result
<1>8. ASSUME NEW i \in 1..Len(r), Instance(nodes, p, r[i])
      PROVE  r[i] \notin Range(nodes) /\ r[i].hash = [role |-> "", of |-> p]
  BY <1>1, <1>2, <1>8, InstanceNew
<1>9. \A i \in made : r[i].hash = [role |-> "", of |-> p]
  BY <1>4, <1>6, <1>8 DEF Result
<1>10. x \in made /\ y \in made
  BY <1>6, <1>7, <1>8
<1>11. IsFiniteSet(made)
  <2>1. made \in SUBSET (1..Len(r))
    BY <1>6
  <2>2. IsFiniteSet(1..Len(r))
    BY <1>6, FS_Interval
  <2> HIDE DEF made
  <2> QED
    BY <2>1, <2>2, FS_Subset
<1>12. Cardinality(made) >= 2
  <2> HIDE DEF made
  <2> QED
    BY <1>7, <1>10, <1>11, TwoElements
<1>13. \A i, j \in made : r[i].hash = r[j].hash
  <2> HIDE DEF made
  <2> QED
    BY <1>9
<1> QED
  BY <1>5, <1>12, <1>13
-----------------------------------------------------------------------------
(* What a list of places spells.                                           *)

\* A list in which every node has its place as id stands for itself.
LEMMA FitsPlaces ==
    ASSUME NEW n \in Nat, NEW a, a = [i \in 1..n |-> a[i]], \A i \in 1..n : a[i].id = i
    PROVE  /\ Tidy(Range(a)) /\ a \in Seq(Range(a)) /\ Len(a) = n
           /\ Plains(a) /\ Fits(a, 0, n)
<1> DEFINE S == Range(a)
           cut == [k \in 0..n |-> k]
<1>1. DOMAIN a = 1..n
  OBVIOUS
<1>2. \A i \in 1..n : a[i] \in S
  BY <1>1 DEF Range
<1>3. a \in Seq(S) /\ Len(a) = n
  <2>1. a \in Seq(S)
    <3> HIDE DEF S
    <3> QED
      BY <1>2, IsASeq
  <2>2. Len(a) = n
    BY <1>1, <2>1, LenProperties
  <2> QED
    BY <2>1, <2>2
<1>4. Tidy(S)
  BY <1>1 DEF Tidy, Range
<1>5. ASSUME NEW i \in 1..n PROVE Covers(a[i], cut[i - 1], cut[i])
  <2>1. cut[i - 1] = i - 1 /\ cut[i] = i /\ i - 1 \in Nat /\ i \in Nat /\ i - (i - 1) - 1 = 0
    OBVIOUS
  <2>2. Unwrapped(<<a[i]>>, 0) = <<a[i]>>
    BY UnwrappedDef
  <2>3. Len(<<a[i]>>) = i - (i - 1) /\ \A k \in 1..(i - (i - 1)) : <<a[i]>>[k].id = i - 1 + k
    <3>1. (\A k \in 1..(i - (i - 1)) : k = 1 /\ i - 1 + k = i) /\ i - (i - 1) = 1
      OBVIOUS
    <3>2. Len(<<a[i]>>) = 1 /\ <<a[i]>>[1] = a[i] /\ a[i].id = i
      OBVIOUS
    <3> QED
      BY <3>1, <3>2
  <2>4. Spells(<<a[i]>>, i - 1, i)
    <3> DEFINE lo == i - 1
    <3>1. lo \in Nat /\ i \in Nat /\ lo <= i
      BY <2>1
    <3>2. Len(<<a[i]>>) = i - lo /\ \A k \in 1..(i - lo) : <<a[i]>>[k].id = lo + k
      BY <2>3
    <3> HIDE DEF lo
    <3>3. Spells(<<a[i]>>, lo, i)
      BY <3>1, <3>2 DEF Spells
    <3> QED
      BY <3>3 DEF lo
  <2>5. Covers(a[i], i - 1, i)
    <3>1. i - 1 < i
      BY <2>1
    <3> QED
      BY <2>1, <2>2, <2>4, <3>1 DEF Covers
  <2> HIDE DEF cut
  <2> QED
    BY <2>1, <2>5
<1>6. Cuts(a, cut, 0, n)
  <2>1. cut \in [0..n -> Nat] /\ cut[0] = 0 /\ cut[n] = n
    OBVIOUS
  <2> HIDE DEF cut
  <2> QED
    BY <1>3, <1>5, <2>1 DEF Cuts
<1>7. Fits(a, 0, n)
  <2> HIDE DEF cut
  <2> QED
    BY <1>6, n <= n DEF Fits
<1>8. Plains(a)
  BY <1>3 DEF Plains
<1> HIDE DEF S
<1> QED
  BY <1>3, <1>4, <1>7, <1>8 DEF S

\* What a list that fits spells: the beginning of what it was made of.
LEMMA LeavesOf ==
    ASSUME NEW S, Tidy(S), NEW list \in Seq(S), NEW n \in Nat, Fits(list, 0, n)
    PROVE  \E hi \in 0..n : /\ DOMAIN Unwrapped(list, n) = 1..hi
                            /\ \A k \in 1..hi : Unwrapped(list, n)[k].id = k
<1> DEFINE a == Unwrapped(list, n)
<1>3. PICK cut, hi : hi <= n /\ Cuts(list, cut, 0, hi)
  BY DEF Fits
<1>4. Len(list) \in Nat
  BY LenProperties
<1>5. hi \in Nat /\ cut[Len(list)] = hi
  <2>1. Len(list) \in 0..Len(list)
    BY <1>4
  <2> QED
    BY <1>3, <2>1 DEF Cuts
<1>6. ASSUME NEW i \in 1..Len(list) PROVE cut[i] - cut[i - 1] - 1 <= n
  <2>1. i \in 0..Len(list) /\ Len(list) \in i..Len(list) /\ i - 1 \in 0..Len(list)
        /\ Len(list) - i \in Nat
    BY <1>4
  <2>2. cut[i] \in Nat /\ cut[i] + (Len(list) - i) <= hi
    BY <1>3, <1>4, <1>5, <2>1, CutsGrow
  <2>3. cut[i - 1] \in Nat
    BY <1>3, <2>1 DEF Cuts
  <2> QED
    BY <1>3, <1>5, <2>1, <2>2, <2>3
<1>7. Spells(a, 0, hi)
  BY <1>3, <1>6, CutsSpell
<1>8. a \in Seq(S)
  BY UnwrappedType
<1> HIDE DEF a
<1>9. DOMAIN a = 1..hi /\ \A k \in 1..hi : a[k].id = k
  <2>1. Len(a) = hi /\ \A k \in 1..hi : a[k].id = 0 + k
    BY <1>5, <1>7 DEF Spells
  <2>2. DOMAIN a = 1..Len(a)
    BY <1>8, LenProperties
  <2> QED
    BY <2>1, <2>2
<1> QED
  BY <1>3, <1>5, <1>9 DEF a

-----------------------------------------------------------------------------
(* The loop of Construct.                                                  *)

\* The list is made of nodes that stand for the first siblings, one after the
\* other; when slideWindow runs no neighbours are equal, and when the loop has
\* ended nothing recurs.
Inv ==
    /\ input \in Inputs
    /\ stage \in {"adjacent", "slide", "done"}
    /\ \E S : Tidy(S) /\ layer \in Seq(S)
    /\ layer # <<>>
    /\ Fits(layer, 0, Len(input))
    /\ stage \in {"slide", "done"} => NoTwins(layer)
    /\ stage = "done" => Recurring(layer) = {}

\* An input is a sequence.
LEMMA InputIs ==
    ASSUME NEW s \in Inputs
    PROVE  Len(s) \in Nat /\ Len(s) # 0 /\ s \in Seq(Range(s)) /\ DOMAIN s = 1..Len(s)
<1>1. s # <<>> /\ s \in Seq(Range(s))
  BY InputsOK
<1> QED
  BY <1>1, LenProperties, EmptySeq

\* At first the list is the siblings themselves.
LEMMA InvInit == Init => Inv
<1> SUFFICES ASSUME Init PROVE Inv
  OBVIOUS
<1> DEFINE n == Len(input)
<1>1. n \in Nat /\ n # 0 /\ DOMAIN input = 1..n /\ input \in Inputs
  BY InputIs DEF Init
<1>2. layer = [i \in 1..n |-> Plain(i, input[i])] /\ stage = "adjacent"
  BY <1>1 DEF Init
<1> HIDE DEF n
<1>3. layer = [i \in 1..n |-> layer[i]] /\ \A i \in 1..n : layer[i].id = i
  BY <1>2 DEF Plain
<1>4. Tidy(Range(layer)) /\ layer \in Seq(Range(layer)) /\ Len(layer) = n /\ Fits(layer, 0, n)
  BY <1>1, <1>3, FitsPlaces
<1>5. layer # <<>>
  BY <1>1, <1>4, EmptySeq
<1> QED
  BY <1>1, <1>2, <1>4, <1>5 DEF Inv, n

\* Every step keeps it.
LEMMA InvStep == Inv /\ [Next]_vars => Inv'
<1> SUFFICES ASSUME Inv, [Next]_vars PROVE Inv'
  OBVIOUS
<1>1. PICK S : Tidy(S) /\ layer \in Seq(S)
  BY DEF Inv
<1>2. Len(input) \in Nat /\ layer # <<>> /\ Fits(layer, 0, Len(input)) /\ input \in Inputs
  BY InputIs DEF Inv
<1>3. Tidy(Made(S))
  BY <1>1, MadeTidy
<1>4. CASE Adjacent
  <2>1. /\ DeleteAdjacent(layer) \in Seq(Made(S)) /\ DeleteAdjacent(layer) # <<>>
        /\ NoTwins(DeleteAdjacent(layer)) /\ Fits(DeleteAdjacent(layer), 0, Len(input))
    BY <1>1, <1>2, DeleteAdjacentIs
  <2>2. layer' = DeleteAdjacent(layer) /\ stage' = "slide" /\ input' = input
    BY <1>4 DEF Adjacent
  <2>3. Tidy(Made(S)) /\ layer' \in Seq(Made(S)) /\ layer' # <<>> /\ NoTwins(layer')
        /\ Fits(layer', 0, Len(input'))
    BY <1>3, <2>1, <2>2
  <2> QED
    BY <1>2, <2>2, <2>3 DEF Inv
<1>5. CASE Slide
  <2>1. /\ SlideWindow(layer) \in Seq(Made(S)) /\ SlideWindow(layer) # <<>>
        /\ Fits(SlideWindow(layer), 0, Len(input))
    BY <1>1, <1>2, SlideWindowIs
  <2>2. /\ stage = "slide" /\ layer' = SlideWindow(layer) /\ input' = input
        /\ stage' = IF Repeated(layer) THEN "adjacent" ELSE "done"
    BY <1>5 DEF Slide
  <2>3. NoTwins(layer)
    BY <2>2 DEF Inv
  <2>4. ASSUME ~ Repeated(layer) PROVE layer' = layer /\ Recurring(layer) = {}
    BY <1>1, <2>2, <2>3, <2>4, NothingRecurs DEF SlideWindow
  <2>5. Tidy(Made(S)) /\ layer' \in Seq(Made(S)) /\ layer' # <<>>
        /\ Fits(layer', 0, Len(input'))
    BY <1>3, <2>1, <2>2
  <2>6. CASE Repeated(layer)
    BY <1>2, <2>2, <2>5, <2>6 DEF Inv
  <2>7. CASE ~ Repeated(layer)
    BY <1>2, <2>2, <2>3, <2>4, <2>5, <2>7 DEF Inv
  <2> QED
    BY <2>6, <2>7
<1>6. CASE UNCHANGED vars
  <2>1. layer' = layer /\ input' = input /\ stage' = stage
    BY <1>6 DEF vars
  <2> QED
    BY <2>1 DEF Inv
<1> QED
  BY <1>4, <1>5, <1>6 DEF Next

\* The invariant holds.
LEMMA Invariant == Spec => []Inv
<1> QED
  BY InvInit, InvStep, PTL DEF Spec

\* Nodes stay in their order and none is there twice (deleteAdjacent,
\* slideWindow), through all rounds of wrapping.
THEOREM KeepsOrder == Spec => []KeptInOrder
<1>1. Inv => KeptInOrder
  <2> SUFFICES ASSUME Inv PROVE KeptInOrder
    OBVIOUS
  <2> DEFINE n == Len(input)
             a == Unwrapped(layer, n)
  <2>1. PICK S : Tidy(S) /\ layer \in Seq(S)
    BY DEF Inv
  <2>2. n \in Nat /\ layer # <<>> /\ Fits(layer, 0, n)
    BY InputIs DEF Inv
  <2> HIDE DEF n
  <2>3. PICK hi \in 0..n : DOMAIN a = 1..hi /\ \A k \in 1..hi : a[k].id = k
    BY <2>1, <2>2, LeavesOf
  <2>4. Leaves(layer) = [k \in DOMAIN a |-> a[k].id]
    BY DEF Leaves, n
  <2> HIDE DEF a
  <2>5. Leaves(layer) = [k \in 1..hi |-> k]
    BY <2>3, <2>4
  <2>6. hi \in Nat /\ hi <= n
    BY <2>2, <2>3
  <2>7. Len(Leaves(layer)) = hi
    BY <2>5, <2>6
  <2> QED
    BY <2>2, <2>5, <2>6, <2>7 DEF KeptInOrder, n
<1> QED
  BY <1>1, Invariant, PTL

\* "rinse and repeat until no patterns are found": when the loop has ended
\* nothing is repeated, though the scan gives up a length at the first overlap
\* (continue outer) and counts less than what occurs.
THEOREM LeavesNone == Spec => []StopsAtNone
<1>1. Inv => StopsAtNone
  <2> SUFFICES ASSUME Inv, stage = "done"
               PROVE  /\ \A i \in 2..Len(layer) : layer[i].hash # layer[i - 1].hash
                      /\ \A L \in 2..Len(layer) : \A j \in 1..(Len(layer) - L + 1) :
                            \A i \in 1..(j - L) : Window(layer, L, i) # Window(layer, L, j)
    BY DEF StopsAtNone
  <2>1. NoTwins(layer) /\ Recurring(layer) = {}
    BY DEF Inv
  <2>2. Len(layer) \in Nat
    BY LenProperties DEF Inv
  <2>3. ASSUME NEW L \in 2..Len(layer), NEW j \in 1..(Len(layer) - L + 1), NEW i \in 1..(j - L),
               Window(layer, L, i) = Window(layer, L, j)
        PROVE  FALSE
    <3>1. i \in 1..(Len(layer) - L + 1) /\ i + L <= j
      BY <2>2
    <3>2. L \in Recurring(layer)
      BY <2>3, <3>1 DEF Recurring
    <3> QED
      BY <2>1, <3>2
  <2> QED
    BY <2>1, <2>3 DEF NoTwins
<1> QED
  BY <1>1, Invariant, PTL

\* Whenever slideWindow reports a replacement it has wrapped two instances of
\* one pattern or more, though it counts them in one loop and replaces them in
\* another; so the list gets shorter.
THEOREM ReplacesTwo == Spec => WrapsTwice
<1>1. Inv /\ [Next]_vars => [WrapsTwo]_vars
  <2> SUFFICES ASSUME Inv, Next PROVE WrapsTwo
    OBVIOUS
  <2> SUFFICES ASSUME stage = "slide", stage' = "adjacent" PROVE WrapsTwo
    BY DEF WrapsTwo
  <2>1. Repeated(layer) /\ layer' = SlideWindow(layer)
    BY DEF Next, Adjacent, Slide, SlideWindow
  <2>2. PICK S : Tidy(S) /\ layer \in Seq(S)
    BY DEF Inv
  <2>3. Len(input) \in Nat /\ layer # <<>> /\ Fits(layer, 0, Len(input))
    BY InputIs DEF Inv
  <2>4. LET made == {i \in DOMAIN SlideWindow(layer) : SlideWindow(layer)[i] \notin Range(layer)}
        IN  /\ Cardinality(made) >= 2
            /\ \A i, j \in made : SlideWindow(layer)[i].hash = SlideWindow(layer)[j].hash
    BY <2>1, <2>2, <2>3, SlideWrapsTwo
  <2> QED
    BY <2>1, <2>4 DEF WrapsTwo
<1> QED
  BY <1>1, Invariant, PTL DEF Spec, WrapsTwice
-----------------------------------------------------------------------------
(* Trees.                                                                  *)

\* Where the nodes before place k in the list of children of node i end.
End(tree, i, k) == IF k = 0 THEN i ELSE tree[tree[i].kids[k]].last

\* The parts of IsTree.
LEMMA TreeParts ==
    ASSUME NEW tree, IsTree(tree)
    PROVE  /\ Len(tree) \in Nat /\ 1 \in 1..Len(tree) /\ DOMAIN tree = 1..Len(tree)
           /\ tree[1].last = Len(tree)
           /\ \A i \in 1..Len(tree) :
                 /\ tree[i].ignored \in BOOLEAN
                 /\ tree[i].kids \in Seq((i + 1)..Len(tree))
                 /\ tree[i].last = End(tree, i, Len(tree[i].kids))
                 /\ \A k \in 1..Len(tree[i].kids) : tree[i].kids[k] = End(tree, i, k - 1) + 1
<1>1. tree \in Seq(Range(tree)) /\ tree # <<>>
  BY DEF IsTree
<1>2. Len(tree) \in Nat /\ Len(tree) # 0 /\ DOMAIN tree = 1..Len(tree)
  BY <1>1, EmptySeq, LenProperties
<1> QED
  BY <1>2 DEF IsTree, End

\* The last node below a node is no earlier than it.
LEMMA LastBelow ==
    ASSUME NEW tree, IsTree(tree)
    PROVE  \A i \in 1..Len(tree) : tree[i].last \in i..Len(tree)
<1> DEFINE n == Len(tree)
           T == {i \in 1..n : tree[i].last \in i..n}
<1>1. n \in Nat
  BY TreeParts
<1>2. ASSUME NEW i \in 1..n, \A j \in 1..n : i < j => j \in T PROVE i \in T
  <2> DEFINE kids == tree[i].kids
             m == Len(kids)
  <2>1. kids \in Seq((i + 1)..n) /\ tree[i].last = End(tree, i, m)
    BY TreeParts
  <2>2. m \in Nat
    BY <2>1, LenProperties
  <2>3. CASE m = 0
    BY <1>1, <2>1, <2>3 DEF End
  <2>4. CASE m # 0
    <3>1. m \in 1..m
      BY <2>2, <2>4
    <3>2. kids[m] \in (i + 1)..n
      BY <2>1, <3>1, ElementOfSeq
    <3>3. kids[m] \in 1..n /\ i < kids[m]
      BY <1>1, <3>2
    <3>4. tree[kids[m]].last \in kids[m]..n
      BY <1>2, <3>3
    <3>5. tree[i].last = tree[kids[m]].last
      BY <2>1, <2>4 DEF End
    <3> QED
      BY <1>1, <3>3, <3>4, <3>5
  <2> QED
    BY <2>3, <2>4
<1>3. \A i \in 1..n : i \in T
  <2> HIDE DEF T
  <2> QED
    BY <1>1, <1>2, Descend
<1> QED
  BY <1>3

\* The children of a node, each with what is below it, come one after the other.
LEMMA KidsOf ==
    ASSUME NEW tree, IsTree(tree), NEW i \in 1..Len(tree), NEW k \in 1..Len(tree[i].kids)
    PROVE  LET child == tree[i].kids[k]
           IN  /\ child \in 1..Len(tree) /\ i < child
               /\ End(tree, i, k - 1) + 1 = child
               /\ tree[child].last \in child..Len(tree) /\ End(tree, i, k) = tree[child].last
<1> DEFINE child == tree[i].kids[k]
<1>1. Len(tree) \in Nat
  BY TreeParts
<1>2. tree[i].kids \in Seq((i + 1)..Len(tree)) /\ child = End(tree, i, k - 1) + 1
  BY TreeParts
<1>3. child \in (i + 1)..Len(tree)
  BY <1>2, ElementOfSeq
<1>4. child \in 1..Len(tree) /\ i < child
  BY <1>1, <1>3
<1>5. tree[child].last \in child..Len(tree)
  BY <1>4, LastBelow
<1>6. k # 0 /\ k \in Nat
  OBVIOUS
<1> QED
  BY <1>2, <1>4, <1>5, <1>6 DEF End
-----------------------------------------------------------------------------
(* filterDescendentsShallow.                                               *)

\* What a child puts into the list, and the lists that are joined for a node.
Piece(f, tree, child)  == IF IsNotIgnored(tree[child]) THEN <<child>> ELSE f[child]
Pieces(f, tree, i)     == [k \in DOMAIN tree[i].kids |-> Piece(f, tree, tree[i].kids[k])]
Filters(f, tree) == f = [i \in DOMAIN tree |-> FlattenSeq(Pieces(f, tree, i))]

\* The lists of a node depend on later nodes only.
LEMMA PiecesLater ==
    ASSUME NEW tree, IsTree(tree), NEW f, NEW g, NEW i \in 1..Len(tree),
           \A j \in 1..Len(tree) : i < j => f[j] = g[j]
    PROVE  Pieces(f, tree, i) = Pieces(g, tree, i)
<1>1. tree[i].kids \in Seq((i + 1)..Len(tree))
  BY TreeParts
<1>2. DOMAIN tree[i].kids = 1..Len(tree[i].kids)
  BY <1>1, LenProperties
<1>3. ASSUME NEW k \in DOMAIN tree[i].kids
      PROVE  Piece(f, tree, tree[i].kids[k]) = Piece(g, tree, tree[i].kids[k])
  <2>1. tree[i].kids[k] \in 1..Len(tree) /\ i < tree[i].kids[k]
    BY <1>2, KidsOf
  <2> QED
    BY <2>1 DEF Piece
<1> QED
  BY <1>3 DEF Pieces

\* FilterDescendentsShallow computes them.
LEMMA FiltersIs ==
    ASSUME NEW tree, IsTree(tree)
    PROVE  Filters(FilterDescendentsShallow(tree), tree)
<1> DEFINE n == Len(tree)
           R(g, m) == \A i \in 1..n : n - m < i => g[i] = FlattenSeq(Pieces(g, tree, i))
           T == {m \in Nat : m <= n => \E g : R(g, m)}
<1>1. n \in Nat /\ DOMAIN tree = 1..n
  BY TreeParts
<1>2. 0 \in T
  <2>1. R(0, 0)
    BY <1>1
  <2> HIDE DEF R
  <2> QED
    BY <2>1
<1>3. ASSUME NEW m \in Nat, m \in T PROVE m + 1 \in T
  <2> SUFFICES ASSUME m + 1 <= n PROVE \E g : R(g, m + 1)
    OBVIOUS
  <2>1. m <= n
    BY <1>1
  <2>2. PICK g : R(g, m)
    BY <1>3, <2>1
  <2> DEFINE h == [i \in 1..n |-> IF i = n - m THEN FlattenSeq(Pieces(g, tree, i)) ELSE g[i]]
  <2>3. ASSUME NEW i \in 1..n, n - (m + 1) < i PROVE h[i] = FlattenSeq(Pieces(h, tree, i))
    <3>0. n - m <= i /\ n - m \in Int /\ i \in Int
      <4> HIDE DEF n, h
      <4> QED
        BY <1>1, <2>3
    <3>1. \A j \in 1..n : i < j => g[j] = h[j]
      <4> SUFFICES ASSUME NEW j \in 1..n, i < j PROVE j # n - m
        OBVIOUS
      <4> HIDE DEF n, h
      <4> QED
        BY <3>0
    <3>2. Pieces(g, tree, i) = Pieces(h, tree, i)
      <4> HIDE DEF h
      <4> QED
        BY <3>1, PiecesLater
    <3>3. CASE i = n - m
      BY <3>2, <3>3
    <3>4. CASE i # n - m
      <4>1. n - m < i
        BY <3>0, <3>4
      <4>2. g[i] = FlattenSeq(Pieces(g, tree, i))
        BY <2>2, <4>1
      <4> QED
        BY <3>2, <3>4, <4>2
    <3> QED
      BY <3>3, <3>4
  <2>4. R(h, m + 1)
    BY <2>3
  <2> HIDE DEF R, h
  <2> QED
    BY <2>4
<1>4. PICK g : R(g, n)
  <2>1. \A m \in Nat : m \in T
    <3> HIDE DEF T
    <3> QED
      BY <1>2, <1>3, Induct
  <2>2. n \in T /\ n <= n
    BY <1>1, <2>1
  <2> HIDE DEF R
  <2> QED
    BY <2>2
<1> DEFINE f == [i \in 1..n |-> g[i]]
<1>5. Filters(f, tree)
  <2>1. ASSUME NEW i \in 1..n PROVE f[i] = FlattenSeq(Pieces(f, tree, i))
    <3>1. n - n < i
      BY <1>1
    <3>2. g[i] = FlattenSeq(Pieces(g, tree, i))
      BY <1>4, <3>1
    <3>3. Pieces(g, tree, i) = Pieces(f, tree, i)
      <4>1. \A j \in 1..n : i < j => g[j] = f[j]
        OBVIOUS
      <4> HIDE DEF f
      <4> QED
        BY <4>1, PiecesLater
    <3> QED
      BY <3>2, <3>3
  <2>2. f = [i \in 1..n |-> f[i]]
    OBVIOUS
  <2>3. f = [i \in 1..n |-> FlattenSeq(Pieces(f, tree, i))]
    <3> HIDE DEF f
    <3> QED
      BY <2>1, <2>2
  <2> HIDE DEF f
  <2> QED
    BY <1>1, <2>3 DEF Filters
<1>6. FilterDescendentsShallow(tree) = CHOOSE below : Filters(below, tree)
  BY DEF FilterDescendentsShallow, Filters, Pieces, Piece
<1> HIDE DEF f
<1> QED
  BY <1>5, <1>6
-----------------------------------------------------------------------------
(* Lists found in a tree.                                                  *)

\* A sequence over a set is one over any set that has its elements.
LEMMA SeqWiden ==
    ASSUME NEW S, NEW R, NEW s \in Seq(S), \A k \in 1..Len(s) : s[k] \in R
    PROVE  s \in Seq(R)
<1>1. Len(s) \in Nat /\ s = [k \in 1..Len(s) |-> s[k]]
  BY LenProperties
<1> QED
  BY <1>1, IsASeq

\* The list s has in order the nodes from one up to hi that are not ignored and
\* are below no other such node of these; what is below these ends with hi.
FoundFrom(s, tree, from, hi) ==
    /\ s \in Seq(from..hi)
    /\ \A k, l \in 1..Len(s) : k < l => s[k] < s[l]
    /\ \A j \in from..hi :
          (\E k \in 1..Len(s) : s[k] = j)
          <=> /\ IsNotIgnored(tree[j])
              /\ \A a \in from..(j - 1) : IsNotIgnored(tree[a]) => tree[a].last < j
    /\ \A a \in from..hi : tree[a].last <= hi

\* The same for the nodes behind lo.
Found(s, tree, lo, hi) == FoundFrom(s, tree, lo + 1, hi)

\* Two such lists joined.
LEMMA FoundJoin ==
    ASSUME NEW tree, IsTree(tree), NEW lo \in Nat, NEW mid \in Nat, NEW hi \in 0..Len(tree),
           lo <= mid, mid <= hi, NEW s, Found(s, tree, lo, mid), NEW t, Found(t, tree, mid, hi)
    PROVE  Found(s \o t, tree, lo, hi)
<1> DEFINE r == s \o t
           p == Len(s)
           q == Len(t)
<1>1. /\ s \in Seq((lo + 1)..hi) /\ t \in Seq((lo + 1)..hi) /\ p \in Nat /\ q \in Nat
      /\ \A k \in 1..p : s[k] \in (lo + 1)..mid
      /\ \A k \in 1..q : t[k] \in (mid + 1)..hi
  <2>1. Len(tree) \in Nat
    BY TreeParts
  <2>2. s \in Seq((lo + 1)..mid) /\ t \in Seq((mid + 1)..hi)
    BY DEF Found, FoundFrom
  <2>3. p \in Nat /\ q \in Nat /\ (\A k \in 1..p : s[k] \in (lo + 1)..mid)
        /\ \A k \in 1..q : t[k] \in (mid + 1)..hi
    BY <2>2, ElementOfSeq, LenProperties
  <2>4. (\A k \in 1..p : s[k] \in (lo + 1)..hi) /\ \A k \in 1..q : t[k] \in (lo + 1)..hi
    BY <2>1, <2>3
  <2>5. s \in Seq((lo + 1)..hi) /\ t \in Seq((lo + 1)..hi)
    BY <2>2, <2>4, SeqWiden
  <2> QED
    BY <2>3, <2>5
<1>2. /\ r \in Seq((lo + 1)..hi) /\ Len(r) = p + q
      /\ \A k \in 1..p : r[k] = s[k]
      /\ \A k \in 1..q : r[p + k] = t[k]
  <2>1. r \in Seq((lo + 1)..hi) /\ Len(r) = p + q
    BY <1>1, ConcatProperties
  <2>2. ASSUME NEW k \in 1..(p + q) PROVE r[k] = IF k <= p THEN s[k] ELSE t[k - p]
    BY <1>1, ConcatProperties
  <2>3. \A k \in 1..p : r[k] = s[k]
    BY <1>1, <2>2
  <2>4. ASSUME NEW k \in 1..q PROVE r[p + k] = t[k]
    <3>1. p + k \in 1..(p + q) /\ ~ (p + k <= p) /\ (p + k) - p = k
      BY <1>1
    <3> QED
      BY <2>2, <3>1
  <2> QED
    BY <2>1, <2>3, <2>4
<1> HIDE DEF r, p, q
<1>3. ASSUME NEW k \in 1..Len(r) PROVE k \in 1..p \/ (k - p \in 1..q /\ r[k] = t[k - p])
  <2>1. CASE k <= p
    BY <1>1, <1>2, <2>1
  <2>2. CASE p < k
    <3>1. k - p \in 1..q /\ p + (k - p) = k
      BY <1>1, <1>2, <2>2
    <3> QED
      BY <1>2, <3>1
  <2> QED
    BY <1>1, <1>2, <2>1, <2>2
<1>4. ASSUME NEW k \in 1..Len(r), NEW l \in 1..Len(r), k < l PROVE r[k] < r[l]
  <2>1. CASE l \in 1..p
    <3>1. k \in 1..p
      BY <1>1, <1>4, <2>1
    <3>2. s[k] < s[l]
      BY <1>4, <2>1, <3>1 DEF Found, FoundFrom, p
    <3> QED
      BY <1>2, <2>1, <3>1, <3>2
  <2>2. CASE l \notin 1..p
    <3>1. l - p \in 1..q /\ r[l] = t[l - p]
      BY <1>3, <2>2
    <3>2. CASE k \in 1..p
      <4>1. r[k] = s[k] /\ s[k] \in (lo + 1)..mid /\ t[l - p] \in (mid + 1)..hi
        BY <1>1, <1>2, <3>1, <3>2
      <4> QED
        BY <3>1, <4>1
    <3>3. CASE k \notin 1..p
      <4>1. k - p \in 1..q /\ r[k] = t[k - p]
        BY <1>3, <3>3
      <4>2. k - p < l - p
        BY <1>1, <1>4, <1>2
      <4>3. t[k - p] < t[l - p]
        BY <3>1, <4>1, <4>2 DEF Found, FoundFrom, q
      <4> QED
        BY <3>1, <4>1, <4>3
    <3> QED
      BY <3>2, <3>3
  <2> QED
    BY <2>1, <2>2
<1>5. \A a \in (lo + 1)..mid : tree[a].last <= mid
  BY DEF Found, FoundFrom
<1>6. \A a \in (mid + 1)..hi : tree[a].last <= hi
  BY DEF Found, FoundFrom
<1>7. \A a \in (lo + 1)..hi : tree[a].last \in Nat
  <2>1. Len(tree) \in Nat
    BY TreeParts
  <2> SUFFICES ASSUME NEW a \in (lo + 1)..hi PROVE tree[a].last \in Nat
    OBVIOUS
  <2>2. a \in 1..Len(tree)
    BY <2>1
  <2>3. tree[a].last \in a..Len(tree)
    BY <2>2, LastBelow
  <2> QED
    BY <2>1, <2>2, <2>3
<1>8. ASSUME NEW j \in (lo + 1)..hi
      PROVE  (\E k \in 1..Len(r) : r[k] = j)
             <=> /\ IsNotIgnored(tree[j])
                 /\ \A a \in (lo + 1)..(j - 1) : IsNotIgnored(tree[a]) => tree[a].last < j
  <2>1. CASE j <= mid
    <3>1. j \in (lo + 1)..mid
      BY <2>1
    <3>2. (\E k \in 1..Len(s) : s[k] = j)
             <=> /\ IsNotIgnored(tree[j])
                 /\ \A a \in (lo + 1)..(j - 1) : IsNotIgnored(tree[a]) => tree[a].last < j
      BY <3>1 DEF Found, FoundFrom
    <3>3. ASSUME NEW k \in 1..Len(r), r[k] = j PROVE \E l \in 1..Len(s) : s[l] = j
      <4>1. CASE k \in 1..p
        BY <1>2, <3>3, <4>1 DEF p
      <4>2. CASE k \notin 1..p
        <5>1. k - p \in 1..q /\ r[k] = t[k - p]
          BY <1>3, <4>2
        <5>2. t[k - p] \in (mid + 1)..hi
          BY <1>1, <5>1
        <5> QED
          BY <2>1, <3>3, <5>1, <5>2
      <4> QED
        BY <4>1, <4>2
    <3>4. ASSUME NEW l \in 1..Len(s), s[l] = j PROVE \E k \in 1..Len(r) : r[k] = j
      <4>1. l \in 1..p
        BY DEF p
      <4>2. l \in 1..Len(r) /\ r[l] = s[l]
        BY <1>1, <1>2, <4>1
      <4> QED
        BY <3>4, <4>2
    <3> QED
      BY <3>2, <3>3, <3>4
  <2>2. CASE mid < j
    <3>1. j \in (mid + 1)..hi
      BY <2>2
    <3>2. (\E k \in 1..Len(t) : t[k] = j)
             <=> /\ IsNotIgnored(tree[j])
                 /\ \A a \in (mid + 1)..(j - 1) : IsNotIgnored(tree[a]) => tree[a].last < j
      BY <3>1 DEF Found, FoundFrom
    <3>3. ASSUME NEW k \in 1..Len(r), r[k] = j PROVE \E l \in 1..Len(t) : t[l] = j
      <4>1. CASE k \in 1..p
        <5>1. r[k] = s[k] /\ s[k] \in (lo + 1)..mid
          BY <1>1, <1>2, <4>1
        <5> QED
          BY <2>2, <3>3, <5>1
      <4>2. CASE k \notin 1..p
        <5>1. k - p \in 1..q /\ r[k] = t[k - p]
          BY <1>3, <4>2
        <5> QED
          BY <3>3, <5>1 DEF q
      <4> QED
        BY <4>1, <4>2
    <3>4. ASSUME NEW l \in 1..Len(t), t[l] = j PROVE \E k \in 1..Len(r) : r[k] = j
      <4>1. l \in 1..q
        BY DEF q
      <4>2. p + l \in 1..Len(r) /\ r[p + l] = t[l]
        BY <1>1, <1>2, <4>1
      <4> QED
        BY <3>4, <4>2
    <3>5. (\A a \in (mid + 1)..(j - 1) : IsNotIgnored(tree[a]) => tree[a].last < j)
          <=> \A a \in (lo + 1)..(j - 1) : IsNotIgnored(tree[a]) => tree[a].last < j
      <4>1. ASSUME NEW a \in (lo + 1)..(j - 1), a \notin (mid + 1)..(j - 1) PROVE tree[a].last < j
        <5>1. a \in (lo + 1)..mid /\ a \in (lo + 1)..hi
          BY <4>1, <2>2
        <5>2. tree[a].last <= mid /\ tree[a].last \in Nat
          BY <1>5, <1>7, <5>1
        <5> QED
          BY <2>2, <5>2
      <4>2. (mid + 1)..(j - 1) \subseteq (lo + 1)..(j - 1)
        OBVIOUS
      <4> QED
        BY <4>1, <4>2
    <3> QED
      BY <3>2, <3>3, <3>4, <3>5
  <2> QED
    BY <2>1, <2>2
<1>9. ASSUME NEW a \in (lo + 1)..hi PROVE tree[a].last <= hi
  <2>1. CASE a <= mid
    <3>1. a \in (lo + 1)..mid
      BY <2>1
    <3>2. tree[a].last <= mid /\ tree[a].last \in Nat
      BY <1>5, <1>7, <3>1
    <3> QED
      BY <3>2
  <2>2. CASE mid < a
    <3>1. a \in (mid + 1)..hi
      BY <2>2
    <3> QED
      BY <1>6, <3>1
  <2> QED
    BY <2>1, <2>2
<1> QED
  BY <1>2, <1>4, <1>8, <1>9 DEF Found, FoundFrom, r

\* What a child puts into the list.
LEMMA FoundPiece ==
    ASSUME NEW tree, IsTree(tree), NEW f, NEW c \in 1..Len(tree),
           Found(f[c], tree, c, tree[c].last)
    PROVE  Found(Piece(f, tree, c), tree, c - 1, tree[c].last)
<1> DEFINE hi == tree[c].last
<1>1. Len(tree) \in Nat /\ hi \in c..Len(tree) /\ c \in Nat /\ hi \in Nat /\ c <= hi
  BY TreeParts, LastBelow
<1>2. (c - 1) + 1 = c
  OBVIOUS
<1> HIDE DEF hi
<1>3. /\ f[c] \in Seq((c + 1)..hi)
      /\ \A k, l \in 1..Len(f[c]) : k < l => f[c][k] < f[c][l]
      /\ \A j \in (c + 1)..hi :
            (\E k \in 1..Len(f[c]) : f[c][k] = j)
            <=> /\ IsNotIgnored(tree[j])
                /\ \A a \in (c + 1)..(j - 1) : IsNotIgnored(tree[a]) => tree[a].last < j
      /\ \A a \in (c + 1)..hi : tree[a].last <= hi
  BY DEF Found, FoundFrom, hi
<1>4. ASSUME NEW a \in c..hi PROVE tree[a].last <= hi
  <2>1. CASE a = c
    BY <1>1, <2>1 DEF hi
  <2>2. CASE a # c
    <3>1. a \in (c + 1)..hi
      BY <1>1, <2>2
    <3> QED
      BY <1>3, <3>1
  <2> QED
    BY <2>1, <2>2
<1>5. CASE IsNotIgnored(tree[c])
  <2> DEFINE s == <<c>>
  <2>1. s \in Seq(c..hi) /\ Len(s) = 1 /\ s[1] = c
    BY <1>1
  <2>2. Piece(f, tree, c) = s
    BY <1>5 DEF Piece
  <2> HIDE DEF s
  <2>3. ASSUME NEW j \in c..hi
        PROVE  (\E k \in 1..Len(s) : s[k] = j)
               <=> /\ IsNotIgnored(tree[j])
                   /\ \A a \in c..(j - 1) : IsNotIgnored(tree[a]) => tree[a].last < j
    <3>1. CASE j = c
      <4>1. c..(j - 1) = {}
        BY <1>1, <3>1
      <4>2. 1 \in 1..Len(s)
        BY <2>1
      <4> QED
        BY <1>5, <2>1, <3>1, <4>1, <4>2
    <3>2. CASE j # c
      <4>1. c \in c..(j - 1) /\ ~ (hi < j)
        BY <1>1, <3>2
      <4>2. ~ (tree[c].last < j)
        BY <4>1 DEF hi
      <4>3. ~ \E k \in 1..Len(s) : s[k] = j
        BY <2>1, <3>2
      <4> QED
        BY <1>5, <4>1, <4>2, <4>3
    <3> QED
      BY <3>1, <3>2
  <2>4. \A k, l \in 1..Len(s) : k < l => s[k] < s[l]
    BY <2>1
  <2>5. FoundFrom(s, tree, c, hi)
    BY <1>4, <2>1, <2>3, <2>4 DEF FoundFrom
  <2> QED
    BY <1>2, <2>2, <2>5 DEF Found, hi
<1>6. CASE ~ IsNotIgnored(tree[c])
  <2> DEFINE s == f[c]
  <2>1. Piece(f, tree, c) = s
    BY <1>6 DEF Piece
  <2>2. (\A k \in 1..Len(s) : s[k] \in (c + 1)..hi)
    BY <1>3, ElementOfSeq
  <2>3. \A k \in 1..Len(s) : s[k] \in c..hi /\ s[k] # c
    BY <1>1, <2>2
  <2>4. s \in Seq(c..hi)
    BY <1>3, <2>3, SeqWiden
  <2>5. ASSUME NEW j \in c..hi
        PROVE  (\E k \in 1..Len(s) : s[k] = j)
               <=> /\ IsNotIgnored(tree[j])
                   /\ \A a \in c..(j - 1) : IsNotIgnored(tree[a]) => tree[a].last < j
    <3>1. CASE j = c
      BY <1>6, <2>3, <3>1
    <3>2. CASE j # c
      <4>1. j \in (c + 1)..hi
        BY <1>1, <3>2
      <4>2. (\E k \in 1..Len(s) : s[k] = j)
               <=> /\ IsNotIgnored(tree[j])
                   /\ \A a \in (c + 1)..(j - 1) : IsNotIgnored(tree[a]) => tree[a].last < j
        BY <1>3, <4>1
      <4>3. \A a \in c..(j - 1) : a = c \/ a \in (c + 1)..(j - 1)
        BY <1>1
      <4>4. (c + 1)..(j - 1) \subseteq c..(j - 1)
        BY <1>1
      <4> QED
        BY <1>6, <4>2, <4>3, <4>4
    <3> QED
      BY <3>1, <3>2
  <2>6. \A k, l \in 1..Len(s) : k < l => s[k] < s[l]
    BY <1>3
  <2> HIDE DEF s
  <2>7. FoundFrom(s, tree, c, hi)
    BY <1>4, <2>4, <2>5, <2>6 DEF FoundFrom
  <2> QED
    BY <1>2, <2>1, <2>7 DEF Found, hi
<1> QED
  BY <1>5, <1>6

\* Every list is what is found below its node.
LEMMA FoundBelow ==
    ASSUME NEW tree, IsTree(tree), NEW f, Filters(f, tree)
    PROVE  \A i \in 1..Len(tree) : Found(f[i], tree, i, tree[i].last)
<1> DEFINE n == Len(tree)
           T == {i \in 1..n : Found(f[i], tree, i, tree[i].last)}
<1>1. n \in Nat /\ DOMAIN tree = 1..n
  BY TreeParts
<1>2. ASSUME NEW i \in 1..n, \A j \in 1..n : i < j => j \in T PROVE i \in T
  <2> DEFINE kids == tree[i].kids
             m == Len(kids)
             ss == Pieces(f, tree, i)
  <2>1. kids \in Seq((i + 1)..n) /\ tree[i].last = End(tree, i, m)
    BY TreeParts
  <2>2. m \in Nat /\ DOMAIN kids = 1..m
    BY <2>1, LenProperties
  <2>3. f[i] = FlattenSeq(ss)
    BY <1>1 DEF Filters
  <2>4. ASSUME NEW k \in 1..m
        PROVE  /\ ss[k] = Piece(f, tree, kids[k])
               /\ Found(ss[k], tree, End(tree, i, k - 1), End(tree, i, k))
               /\ End(tree, i, k - 1) \in 0..n /\ End(tree, i, k) \in 0..n
               /\ End(tree, i, k - 1) <= End(tree, i, k)
    <3>1. /\ kids[k] \in 1..n /\ i < kids[k]
          /\ End(tree, i, k - 1) + 1 = kids[k]
          /\ tree[kids[k]].last \in kids[k]..n /\ End(tree, i, k) = tree[kids[k]].last
      BY KidsOf
    <3>2. ss[k] = Piece(f, tree, kids[k])
      BY <2>2 DEF Pieces
    <3>3. kids[k] \in T
      BY <1>2, <3>1
    <3>4. Found(Piece(f, tree, kids[k]), tree, kids[k] - 1, tree[kids[k]].last)
      BY <3>1, <3>3, FoundPiece
    <3>5. End(tree, i, k - 1) = kids[k] - 1
      <4>1. End(tree, i, k - 1) \in Int
        <5>1. CASE k = 1
          BY <5>1 DEF End
        <5>2. CASE k # 1
          <6>1. k - 1 \in 1..m /\ k - 1 # 0
            BY <2>2, <5>2
          <6>2. /\ kids[k - 1] \in 1..n
                /\ tree[kids[k - 1]].last \in kids[k - 1]..n
                /\ End(tree, i, k - 1) = tree[kids[k - 1]].last
            BY <6>1, KidsOf
          <6> QED
            BY <6>2
        <5> QED
          BY <5>1, <5>2
      <4> QED
        BY <3>1, <4>1
    <3>6. kids[k] - 1 \in 0..n /\ tree[kids[k]].last \in 0..n
          /\ kids[k] - 1 <= tree[kids[k]].last
      <4> HIDE DEF kids
      <4> QED
        BY <1>1, <3>1
    <3> QED
      BY <3>1, <3>2, <3>4, <3>5, <3>6
  <2>5. ss \in Seq(Seq(1..n)) /\ Len(ss) = m
    <3>1. ASSUME NEW k \in 1..m PROVE ss[k] \in Seq(1..n)
      <4>1. ss[k] \in Seq((End(tree, i, k - 1) + 1)..End(tree, i, k))
        BY <2>4 DEF Found, FoundFrom
      <4>2. \A l \in 1..Len(ss[k]) : ss[k][l] \in (End(tree, i, k - 1) + 1)..End(tree, i, k)
        BY <4>1, ElementOfSeq
      <4>3. End(tree, i, k - 1) \in 0..n /\ End(tree, i, k) \in 0..n
        BY <2>4
      <4>4. (End(tree, i, k - 1) + 1)..End(tree, i, k) \subseteq 1..n
        BY <1>1, <4>3
      <4> QED
        BY <4>1, <4>2, <4>4, SeqWiden
    <3>2. ss = [k \in 1..m |-> ss[k]]
      BY <2>2 DEF Pieces
    <3> HIDE DEF ss
    <3>3. ss \in Seq(Seq(1..n))
      BY <2>2, <3>1, <3>2, IsASeq
    <3>4. Len(ss) = m
      BY <2>2, <3>2, LenProperties
    <3> QED
      BY <3>3, <3>4
  <2>6. CASE m = 0
    <3>1. ss = <<>>
      BY <2>5, <2>6, EmptySeq
    <3>2. f[i] = <<>> /\ tree[i].last = i
      BY <2>1, <2>3, <2>6, <3>1, FlattenEmpty DEF End
    <3>3. Found(<<>>, tree, i, i)
      BY DEF Found, FoundFrom
    <3> QED
      BY <3>2, <3>3
  <2>7. CASE m # 0
    <3>1. ss # <<>>
      BY <2>5, <2>7, EmptySeq
    <3>2. PICK g : Flattens(g, ss) /\ FlattenSeq(ss) = g[Len(ss)]
      BY <2>5, <3>1, FlattenBy
    <3> DEFINE P == {k \in Nat : k + 1 <= m => Found(g[k + 1], tree, i, End(tree, i, k + 1))}
    <3>3. 0 \in P
      <4>1. 0 + 1 = 1 /\ 1 - 1 = 0 /\ 1 \in 1..m
        BY <2>2, <2>7
      <4>2. g[1] = ss[1]
        BY <2>5, <3>2, <4>1, FlattensAt
      <4>3. Found(ss[1], tree, End(tree, i, 0), End(tree, i, 1))
        BY <2>4, <4>1
      <4>4. End(tree, i, 0) = i
        BY DEF End
      <4> QED
        BY <4>1, <4>2, <4>3, <4>4
    <3>4. ASSUME NEW k \in Nat, k \in P PROVE k + 1 \in P
      <4> SUFFICES ASSUME (k + 1) + 1 <= m PROVE Found(g[(k + 1) + 1], tree, i, End(tree, i, (k + 1) + 1))
        OBVIOUS
      <4> DEFINE l == (k + 1) + 1
      <4>1. l \in 1..m /\ l # 1 /\ l - 1 = k + 1 /\ k + 1 <= m /\ k + 1 \in 1..m
        BY <2>2
      <4> HIDE DEF l
      <4>2. g[l] = g[l - 1] \o ss[l]
        <5>1. l \in 1..Len(ss) /\ l # 1
          BY <2>5, <4>1
        <5> HIDE DEF ss
        <5>2. g[l] = IF l = 1 THEN ss[l] ELSE g[l - 1] \o ss[l]
          BY <3>2, <5>1, FlattensAt
        <5> QED
          BY <5>1, <5>2
      <4>3. Found(g[k + 1], tree, i, End(tree, i, k + 1))
        BY <3>4, <4>1
      <4>4. /\ Found(ss[l], tree, End(tree, i, k + 1), End(tree, i, l))
            /\ End(tree, i, k + 1) \in 0..n /\ End(tree, i, l) \in 0..n
            /\ End(tree, i, k + 1) <= End(tree, i, l)
        BY <2>4, <4>1
      <4>5. i <= End(tree, i, k + 1)
        <5>1. /\ kids[k + 1] \in 1..n /\ i < kids[k + 1]
              /\ tree[kids[k + 1]].last \in kids[k + 1]..n
              /\ End(tree, i, k + 1) = tree[kids[k + 1]].last
          BY <4>1, KidsOf
        <5> QED
          BY <5>1
      <4>6. i \in Nat /\ End(tree, i, k + 1) \in Nat
        BY <1>1, <4>4
      <4>7. Found(g[k + 1] \o ss[l], tree, i, End(tree, i, l))
        BY <4>3, <4>4, <4>5, <4>6, FoundJoin
      <4> QED
        BY <4>1, <4>2, <4>7 DEF l
    <3>5. \A k \in Nat : k \in P
      <4> HIDE DEF P
      <4> QED
        BY <3>3, <3>4, Induct
    <3>6. m - 1 \in Nat /\ (m - 1) + 1 = m
      BY <2>2, <2>7
    <3>7. Found(g[m], tree, i, End(tree, i, m))
      BY <3>5, <3>6
    <3> QED
      BY <2>1, <2>3, <2>5, <3>2, <3>7
  <2> QED
    BY <2>6, <2>7
<1>3. \A i \in 1..n : i \in T
  <2> HIDE DEF T
  <2> QED
    BY <1>1, <1>2, Descend
<1> QED
  BY <1>3
-----------------------------------------------------------------------------
(* The structure tree.                                                     *)

\* The fields of an instance are all there.
IsInstance(r) ==
    \E role, hash, path, up, kids, list :
        r = [role |-> role, hash |-> hash, path |-> path, up |-> up, kids |-> kids, list |-> list]

\* The children of an instance are the nodes that KeptNodes names, in order.
Family(below, kids) ==
    /\ kids \in Seq(below)
    /\ \A k, l \in 1..Len(kids) : k < l => kids[k] < kids[l]
    /\ \A j \in below : \E k \in 1..Len(kids) : kids[k] = j

Families ==
    /\ IsTree(ax) /\ DOMAIN st = Kept
    /\ step \in {"shash", "phash", "parent", "wrap", "done"}
    /\ \A i \in Kept : IsInstance(st[i]) /\ Family(KeptBelow(i), st[i].kids)

\* The nodes that are kept.
LEMMA KeptIs ==
    ASSUME IsTree(ax)
    PROVE  /\ Kept = {1} \cup {i \in DOMAIN ax : IsNotIgnored(ax[i])}
           /\ Kept \subseteq 1..Len(ax) /\ 1 \in Kept
           /\ \A i \in 1..Len(ax) : IsNotIgnored(ax[i]) => i \in Kept
           /\ \A i \in Kept : i # 1 => IsNotIgnored(ax[i])
<1>1. DOMAIN ax = 1..Len(ax) /\ 1 \in 1..Len(ax)
  BY TreeParts
<1>2. \A i \in 1..Len(ax) : Visible(ax[i]) <=> IsNotIgnored(ax[i])
  <2> SUFFICES ASSUME NEW i \in 1..Len(ax) PROVE Visible(ax[i]) <=> IsNotIgnored(ax[i])
    OBVIOUS
  <2>1. ax[i].ignored \in BOOLEAN
    BY TreeParts
  <2> QED
    BY <2>1 DEF Visible, IsNotIgnored
<1> QED
  BY <1>1, <1>2 DEF Kept

\* What FilterDescendentsShallow finds below a node.
LEMMA FamilyFound ==
    ASSUME IsTree(ax), NEW i \in Kept
    PROVE  Family(KeptBelow(i), FilterDescendentsShallow(ax)[i])
<1> DEFINE kids == FilterDescendentsShallow(ax)[i]
           n == Len(ax)
           last == ax[i].last
<1>1. Found(kids, ax, i, last)
  BY FiltersIs, FoundBelow, KeptIs
<1> HIDE DEF kids
<1>2. n \in Nat /\ i \in 1..n /\ last \in i..n /\ Kept \subseteq 1..n
  BY KeptIs, TreeParts, LastBelow
<1>3. /\ kids \in Seq((i + 1)..last)
      /\ \A k, l \in 1..Len(kids) : k < l => kids[k] < kids[l]
      /\ \A j \in (i + 1)..last :
            (\E k \in 1..Len(kids) : kids[k] = j)
            <=> /\ IsNotIgnored(ax[j])
                /\ \A a \in (i + 1)..(j - 1) : IsNotIgnored(ax[a]) => ax[a].last < j
  BY <1>1 DEF Found, FoundFrom
<1>4. \A a \in 1..n : ax[a].last \in a..n
  BY LastBelow
<1>5. ASSUME NEW j \in KeptBelow(i)
      PROVE  \E k \in 1..Len(kids) : kids[k] = j
  <2>1. j \in Kept /\ i < j /\ j <= last
        /\ \A a \in Kept : ~ (i < a /\ a <= last /\ a < j /\ j <= ax[a].last)
    BY DEF KeptBelow, Above
  <2>2. j \in 1..n /\ j # 1 /\ j \in (i + 1)..last /\ IsNotIgnored(ax[j])
    BY <1>2, <2>1, KeptIs
  <2>3. ASSUME NEW a \in (i + 1)..(j - 1), IsNotIgnored(ax[a]) PROVE ax[a].last < j
    <3>1. a \in 1..n /\ i < a /\ a < j /\ a <= last
      BY <1>2, <2>1, <2>2
    <3>2. a \in Kept
      BY <2>3, <3>1, KeptIs
    <3>3. ax[a].last \in a..n
      BY <1>4, <3>1
    <3> QED
      BY <1>2, <2>1, <2>2, <3>1, <3>2, <3>3
  <2> QED
    BY <1>3, <2>2, <2>3
<1>6. ASSUME NEW k \in 1..Len(kids) PROVE kids[k] \in KeptBelow(i)
  <2> DEFINE j == kids[k]
  <2>1. j \in (i + 1)..last
    BY <1>3, ElementOfSeq
  <2> HIDE DEF j
  <2>2. IsNotIgnored(ax[j]) /\ \A a \in (i + 1)..(j - 1) : IsNotIgnored(ax[a]) => ax[a].last < j
    BY <1>3, <2>1 DEF j
  <2>3. j \in 1..n /\ i < j /\ j <= last
    BY <1>2, <2>1
  <2>4. j \in Kept
    BY <2>2, <2>3, KeptIs
  <2>5. ASSUME NEW a \in Kept, i < a, a < j PROVE ~ (j <= ax[a].last)
    <3>1. a \in 1..n /\ a # 1
      BY <1>2, <2>5
    <3>2. IsNotIgnored(ax[a]) /\ a \in (i + 1)..(j - 1) /\ ax[a].last \in a..n
      BY <1>2, <1>4, <2>3, <2>5, <3>1, KeptIs
    <3>3. ax[a].last < j
      BY <2>2, <3>2
    <3> QED
      BY <1>2, <2>3, <3>1, <3>2, <3>3
  <2> QED
    BY <2>3, <2>4, <2>5 DEF KeptBelow, Above, j
<1>7. kids \in Seq(KeptBelow(i))
  BY <1>3, <1>6, SeqWiden
<1> QED
  BY <1>3, <1>5, <1>7 DEF Family, kids

\* A child of an instance.
LEMMA ChildOf ==
    ASSUME Families, NEW i \in Kept, NEW k \in DOMAIN st[i].kids
    PROVE  /\ DOMAIN st[i].kids = 1..Len(st[i].kids) /\ Len(st[i].kids) \in Nat
           /\ st[i].kids[k] \in KeptBelow(i) /\ st[i].kids[k] \in Kept
           /\ i \in Nat /\ st[i].kids[k] \in Nat /\ i < st[i].kids[k]
<1>1. st[i].kids \in Seq(KeptBelow(i)) /\ Kept \subseteq 1..Len(ax)
  BY KeptIs DEF Families, Family
<1>2. DOMAIN st[i].kids = 1..Len(st[i].kids) /\ Len(st[i].kids) \in Nat
  BY <1>1, LenProperties
<1>3. st[i].kids[k] \in KeptBelow(i)
  BY <1>1, <1>2, ElementOfSeq
<1>4. st[i].kids[k] \in Kept /\ i < st[i].kids[k]
  BY <1>3 DEF KeptBelow, Above
<1>5. Len(ax) \in Nat
  BY TreeParts DEF Families
<1>6. i \in 1..Len(ax) /\ st[i].kids[k] \in 1..Len(ax)
  BY <1>1, <1>4
<1> QED
  BY <1>2, <1>3, <1>4, <1>5, <1>6

\* No instance is a child of two, or twice of one.
LEMMA ChildOnce ==
    ASSUME Families, NEW i \in Kept, NEW k \in DOMAIN st[i].kids,
           NEW j \in Kept, NEW l \in DOMAIN st[j].kids, st[i].kids[k] = st[j].kids[l]
    PROVE  i = j /\ k = l
<1> DEFINE c == st[i].kids[k]
<1>1. /\ c \in KeptBelow(i) /\ c \in KeptBelow(j) /\ i \in Nat /\ j \in Nat /\ c \in Nat
      /\ i < c /\ j < c
  BY ChildOf
<1>2. c <= ax[i].last /\ c <= ax[j].last
  BY <1>1 DEF KeptBelow, Above
<1>3. ax[i].last \in Nat /\ ax[j].last \in Nat
  <2>1. i \in 1..Len(ax) /\ j \in 1..Len(ax) /\ IsTree(ax) /\ Len(ax) \in Nat
    BY KeptIs, TreeParts DEF Families
  <2>2. ax[i].last \in i..Len(ax) /\ ax[j].last \in j..Len(ax)
    BY <2>1, LastBelow
  <2> QED
    BY <2>1, <2>2
<1> HIDE DEF c
<1>4. ~ (i < j)
  BY <1>1, <1>2, <1>3 DEF KeptBelow, Above
<1>5. ~ (j < i)
  BY <1>1, <1>2, <1>3 DEF KeptBelow, Above
<1>6. i = j
  BY <1>1, <1>4, <1>5
<1>7. k \in 1..Len(st[i].kids) /\ l \in 1..Len(st[i].kids)
  BY <1>6, ChildOf
<1>8. (k < l => st[i].kids[k] < st[i].kids[l]) /\ (l < k => st[i].kids[l] < st[i].kids[k])
  BY <1>7 DEF Families, Family
<1>9. st[i].kids[k] = c /\ st[i].kids[l] = c
  BY <1>6 DEF c
<1> QED
  BY <1>1, <1>6, <1>7, <1>8, <1>9

\* Every instance but the root is a child of one.
LEMMA ChildOfSome ==
    ASSUME Families, NEW c \in Kept, c # 1
    PROVE  \E i \in Kept : \E k \in DOMAIN st[i].kids : st[i].kids[k] = c
<1> DEFINE n == Len(ax)
           up == {i \in Kept : Above(i, c)}
<1>1. n \in Nat /\ Kept \subseteq 1..n /\ 1 \in Kept /\ ax[1].last = n /\ IsTree(ax)
  BY KeptIs, TreeParts DEF Families
<1>2. up \in SUBSET (0..n) /\ 1 \in up
  BY <1>1 DEF Above
<1>3. PICK i \in up : \A a \in up : a <= i
  BY <1>1, <1>2, Greatest
<1>4. i \in Kept /\ Above(i, c) /\ i \in 1..n
  BY <1>1, <1>3
<1>5. ASSUME NEW a \in Kept, Above(i, a), Above(a, c) PROVE FALSE
  <2>1. a \in up /\ a \in 1..n
    BY <1>1, <1>5
  <2>2. a <= i /\ i < a
    BY <1>3, <1>5, <2>1 DEF Above
  <2> QED
    BY <1>4, <2>1, <2>2
<1>6. c \in KeptBelow(i)
  BY <1>4, <1>5 DEF KeptBelow
<1>7. \E k \in 1..Len(st[i].kids) : st[i].kids[k] = c
  BY <1>4, <1>6 DEF Families, Family
<1>8. DOMAIN st[i].kids = 1..Len(st[i].kids)
  BY <1>4, LenProperties DEF Families, Family
<1> QED
  BY <1>4, <1>7, <1>8

\* Parent and Place tell whose child an instance is.
LEMMA ParentIs ==
    ASSUME Families, NEW i \in Kept, NEW k \in DOMAIN st[i].kids
    PROVE  Parent(st, st[i].kids[k]) = i /\ Place(st, st[i].kids[k]) = k
<1> DEFINE c == st[i].kids[k]
<1>1. DOMAIN st = Kept
  BY DEF Families
<1>2. \A p \in Kept : c \in Range(st[p].kids) <=> p = i
  BY ChildOnce DEF Range
<1>3. Parent(st, c) = i
  BY <1>1, <1>2 DEF Parent
<1>4. \A l \in DOMAIN st[i].kids : st[i].kids[l] = c <=> l = k
  BY ChildOnce
<1>5. Place(st, c) = k
  BY <1>3, <1>4 DEF Place
<1> QED
  BY <1>3, <1>5
-----------------------------------------------------------------------------
(* The invariant of initStructTree.                                        *)

\* Every structure hash is that of the role and the children's hashes.
Hashed ==
    step # "shash" =>
        \A i \in Kept : st[i].hash =
            [role |-> st[i].role, of |-> [k \in DOMAIN st[i].kids |-> st[st[i].kids[k]].hash]]

\* Every path hash is that of the parent's, its role and the child's place.
RootPath       == <<[role |-> st[1].role, nth |-> 0]>>
ChildPath(i, k) == Append(st[i].path, [role |-> st[i].role, nth |-> k - 1])

Pathed ==
    step \in {"parent", "wrap", "done"} =>
        /\ st[1].path = RootPath
        /\ \A i \in Kept : \A k \in DOMAIN st[i].kids : st[st[i].kids[k]].path = ChildPath(i, k)

\* Every instance but the root knows the path of the one above.
Upped ==
    step \in {"wrap", "done"} =>
        \A i \in Kept : \A k \in DOMAIN st[i].kids : st[st[i].kids[k]].up = st[i].path

\* The list of an instance's children is what is linked, or what is made of that.
Unhashed == [i \in Kept |-> Unset]
AllHash  == [i \in Kept |-> st[i].hash]

Linked ==
    \A i \in Kept :
        st[i].list = IF step = "done" THEN Rounds(Siblings(st[i].kids, AllHash))
                     ELSE Siblings(st[i].kids, Unhashed)

TreeInv == Families /\ Hashed /\ Pathed /\ Upped /\ Linked

\* Nothing was hashed yet.
LEMMA TreeInvInit == TreeInit => TreeInv
<1> SUFFICES ASSUME TreeInit PROVE TreeInv
  OBVIOUS
<1>1. IsTree(ax) /\ st = MakeStructTree(ax) /\ step = "shash"
  BY TreesOK DEF TreeInit
<1> DEFINE below == FilterDescendentsShallow(ax)
<1>2. Kept = {1} \cup {i \in DOMAIN ax : IsNotIgnored(ax[i])}
  BY <1>1, KeptIs
<1>3. st = [i \in Kept |->
               [role |-> ax[i].role, hash |-> Unset, path |-> <<>>, up |-> <<>>,
                kids |-> below[i], list |-> Siblings(below[i], Unhashed)]]
  BY <1>1, <1>2 DEF MakeStructTree, Unhashed
<1> HIDE DEF below
<1>4. ASSUME NEW i \in Kept
      PROVE  /\ IsInstance(st[i]) /\ st[i].kids = below[i]
             /\ st[i].list = Siblings(below[i], Unhashed)
  BY <1>3 DEF IsInstance
<1>5. \A i \in Kept : Family(KeptBelow(i), below[i])
  BY <1>1, FamilyFound DEF below
<1>6. DOMAIN st = Kept
  BY <1>3
<1>7. Families
  BY <1>1, <1>4, <1>5, <1>6 DEF Families
<1>8. Linked
  BY <1>1, <1>4 DEF Linked
<1> QED
  BY <1>1, <1>7, <1>8 DEF TreeInv, Hashed, Pathed, Upped
-----------------------------------------------------------------------------
(* updateSHash.                                                            *)

HashOf(hash, tree, i) ==
    [role |-> tree[i].role, of |-> [k \in DOMAIN tree[i].kids |-> hash[tree[i].kids[k]]]]

Hashing(hash, tree) == hash = [i \in DOMAIN tree |-> HashOf(hash, tree, i)]

\* The hash of an instance depends on those of later ones only.
LEMMA HashOfLater ==
    ASSUME Families, NEW f, NEW g, NEW i \in Kept, \A j \in Kept : i < j => f[j] = g[j]
    PROVE  HashOf(f, st, i) = HashOf(g, st, i)
<1>1. \A k \in DOMAIN st[i].kids : f[st[i].kids[k]] = g[st[i].kids[k]]
  BY ChildOf
<1> QED
  BY <1>1 DEF HashOf

\* So there are such hashes.
LEMMA HashingExists ==
    ASSUME Families
    PROVE  \E f : Hashing(f, st)
<1> DEFINE n == Len(ax)
           R(g, m) == \A i \in Kept : n - m < i => g[i] = HashOf(g, st, i)
           T == {m \in Nat : m <= n => \E g : R(g, m)}
<1>1. n \in Nat /\ DOMAIN st = Kept /\ Kept \subseteq 1..n
  BY TreeParts, KeptIs DEF Families
<1>2. 0 \in T
  <2>1. R(0, 0)
    BY <1>1
  <2> HIDE DEF R
  <2> QED
    BY <2>1
<1>3. ASSUME NEW m \in Nat, m \in T PROVE m + 1 \in T
  <2> SUFFICES ASSUME m + 1 <= n PROVE \E g : R(g, m + 1)
    OBVIOUS
  <2>1. m <= n
    BY <1>1
  <2>2. PICK g : R(g, m)
    BY <1>3, <2>1
  <2> DEFINE h == [i \in Kept |-> IF i = n - m THEN HashOf(g, st, i) ELSE g[i]]
  <2>3. ASSUME NEW i \in Kept, n - (m + 1) < i PROVE h[i] = HashOf(h, st, i)
    <3>1. n - m <= i /\ n - m \in Int /\ i \in Int
      <4> HIDE DEF n, h
      <4> QED
        BY <1>1, <2>3
    <3>2. \A j \in Kept : i < j => g[j] = h[j]
      <4> SUFFICES ASSUME NEW j \in Kept, i < j PROVE j # n - m
        OBVIOUS
      <4>1. j \in Int
        BY <1>1
      <4> HIDE DEF n, h
      <4> QED
        BY <3>1, <4>1
    <3>3. HashOf(g, st, i) = HashOf(h, st, i)
      <4> HIDE DEF h
      <4> QED
        BY <3>2, HashOfLater
    <3>4. CASE i = n - m
      BY <3>3, <3>4
    <3>5. CASE i # n - m
      <4>1. n - m < i
        BY <3>1, <3>5
      <4>2. g[i] = HashOf(g, st, i)
        BY <2>2, <4>1
      <4> QED
        BY <3>3, <3>5, <4>2
    <3> QED
      BY <3>4, <3>5
  <2>4. R(h, m + 1)
    BY <2>3
  <2> HIDE DEF R, h
  <2> QED
    BY <2>4
<1>4. PICK g : R(g, n)
  <2>1. \A m \in Nat : m \in T
    <3> HIDE DEF T
    <3> QED
      BY <1>2, <1>3, Induct
  <2>2. n \in T /\ n <= n
    BY <1>1, <2>1
  <2> HIDE DEF R
  <2> QED
    BY <2>2
<1> DEFINE f == [i \in Kept |-> g[i]]
<1>5. ASSUME NEW i \in Kept PROVE f[i] = HashOf(f, st, i)
  <2>1. n - n < i
    BY <1>1
  <2>2. g[i] = HashOf(g, st, i)
    BY <1>4, <2>1
  <2>3. HashOf(g, st, i) = HashOf(f, st, i)
    <3>1. \A j \in Kept : i < j => g[j] = f[j]
      OBVIOUS
    <3> HIDE DEF f
    <3> QED
      BY <3>1, HashOfLater
  <2> QED
    BY <2>2, <2>3
<1>6. f = [i \in Kept |-> HashOf(f, st, i)]
  <2>1. f = [i \in Kept |-> f[i]]
    OBVIOUS
  <2> HIDE DEF f
  <2> QED
    BY <1>5, <2>1
<1> HIDE DEF f
<1> QED
  BY <1>1, <1>6 DEF Hashing

\* UpdateSHash writes them.
LEMMA UpdateSHashIs ==
    ASSUME Families
    PROVE  \E f : /\ \A i \in Kept : f[i] = HashOf(f, st, i)
                  /\ UpdateSHash(st) = [i \in Kept |-> [st[i] EXCEPT !.hash = f[i]]]
<1> DEFINE f == CHOOSE f : Hashing(f, st)
<1>1. Hashing(f, st)
  BY HashingExists
<1>2. DOMAIN st = Kept
  BY DEF Families
<1>3. UpdateSHash(st) = [i \in Kept |-> [st[i] EXCEPT !.hash = f[i]]]
  BY <1>2 DEF UpdateSHash, Hashing, HashOf
<1> HIDE DEF f
<1>4. f = [i \in Kept |-> HashOf(f, st, i)]
  BY <1>1, <1>2 DEF Hashing
<1>5. \A i \in Kept : f[i] = HashOf(f, st, i)
  <2> DEFINE g == [i \in Kept |-> HashOf(f, st, i)]
  <2>1. \A i \in Kept : g[i] = HashOf(f, st, i)
    OBVIOUS
  <2>2. f = g
    BY <1>4
  <2> HIDE DEF g
  <2> QED
    BY <2>1, <2>2
<1> QED
  BY <1>3, <1>5
-----------------------------------------------------------------------------
(* updatePHash.                                                            *)

PathOf(path, i) ==
    IF i = 1 THEN RootPath
    ELSE Append(path[Parent(st, i)], PathStep(st[Parent(st, i)], Place(st, i)))

Pathing(path) == path = [i \in DOMAIN st |-> PathOf(path, i)]

\* The path of an instance depends on those of earlier ones only.
LEMMA PathOfEarlier ==
    ASSUME Families, NEW f, NEW g, NEW i \in Kept, \A j \in Kept : j < i => f[j] = g[j]
    PROVE  PathOf(f, i) = PathOf(g, i)
<1>1. CASE i = 1
  BY <1>1 DEF PathOf
<1>2. CASE i # 1
  <2>1. PICK p \in Kept : \E k \in DOMAIN st[p].kids : st[p].kids[k] = i
    BY <1>2, ChildOfSome
  <2>2. Parent(st, i) = p /\ p < i
    BY <2>1, ParentIs, ChildOf
  <2> QED
    BY <1>2, <2>2 DEF PathOf
<1> QED
  BY <1>1, <1>2

\* So there are such paths.
LEMMA PathingExists ==
    ASSUME Families
    PROVE  \E f : Pathing(f)
<1> DEFINE n == Len(ax)
           R(g, m) == \A i \in Kept : i <= m => g[i] = PathOf(g, i)
           T == {m \in Nat : \E g : R(g, m)}
<1>1. n \in Nat /\ DOMAIN st = Kept /\ Kept \subseteq 1..n
  BY TreeParts, KeptIs DEF Families
<1>2. 0 \in T
  <2>1. R(0, 0)
    BY <1>1
  <2> HIDE DEF R
  <2> QED
    BY <2>1
<1>3. ASSUME NEW m \in Nat, m \in T PROVE m + 1 \in T
  <2>2. PICK g : R(g, m)
    BY <1>3
  <2> DEFINE h == [i \in Kept |-> IF i = m + 1 THEN PathOf(g, i) ELSE g[i]]
  <2>3. ASSUME NEW i \in Kept, i <= m + 1 PROVE h[i] = PathOf(h, i)
    <3>2. \A j \in Kept : j < i => g[j] = h[j]
      <4> SUFFICES ASSUME NEW j \in Kept, j < i PROVE j # m + 1
        OBVIOUS
      <4>1. j \in Int /\ i \in Int
        BY <1>1
      <4> HIDE DEF n, h
      <4> QED
        BY <2>3, <4>1
    <3>3. PathOf(g, i) = PathOf(h, i)
      <4> HIDE DEF h
      <4> QED
        BY <3>2, PathOfEarlier
    <3>4. CASE i = m + 1
      BY <3>3, <3>4
    <3>5. CASE i # m + 1
      <4>0. i \in Int
        BY <1>1
      <4>1. i <= m
        BY <2>3, <3>5, <4>0
      <4>2. g[i] = PathOf(g, i)
        BY <2>2, <4>1
      <4> QED
        BY <3>3, <3>5, <4>2
    <3> QED
      BY <3>4, <3>5
  <2>4. R(h, m + 1)
    BY <2>3
  <2> HIDE DEF R, h
  <2> QED
    BY <2>4
<1>4. PICK g : R(g, n)
  <2>1. \A m \in Nat : m \in T
    <3> HIDE DEF T
    <3> QED
      BY <1>2, <1>3, Induct
  <2>2. n \in T
    BY <1>1, <2>1
  <2> HIDE DEF R
  <2> QED
    BY <2>2
<1> DEFINE f == [i \in Kept |-> g[i]]
<1>5. ASSUME NEW i \in Kept PROVE f[i] = PathOf(f, i)
  <2>1. i <= n
    BY <1>1
  <2>2. g[i] = PathOf(g, i)
    BY <1>4, <2>1
  <2>3. PathOf(g, i) = PathOf(f, i)
    <3>1. \A j \in Kept : j < i => g[j] = f[j]
      OBVIOUS
    <3> HIDE DEF f
    <3> QED
      BY <3>1, PathOfEarlier
  <2> QED
    BY <2>2, <2>3
<1>6. f = [i \in Kept |-> PathOf(f, i)]
  <2>1. f = [i \in Kept |-> f[i]]
    OBVIOUS
  <2> HIDE DEF f
  <2> QED
    BY <1>5, <2>1
<1> HIDE DEF f
<1> QED
  BY <1>1, <1>6 DEF Pathing

\* UpdatePHash writes them.
LEMMA UpdatePHashIs ==
    ASSUME Families
    PROVE  \E f : /\ \A i \in Kept : f[i] = PathOf(f, i)
                  /\ UpdatePHash(st) = [i \in Kept |-> [st[i] EXCEPT !.path = f[i]]]
<1> DEFINE f == CHOOSE f : Pathing(f)
<1>1. Pathing(f)
  BY PathingExists
<1>2. DOMAIN st = Kept
  BY DEF Families
<1>3. UpdatePHash(st) = [i \in Kept |-> [st[i] EXCEPT !.path = f[i]]]
  BY <1>2 DEF UpdatePHash, Pathing, PathOf, RootPath
<1> HIDE DEF f
<1>4. f = [i \in Kept |-> PathOf(f, i)]
  BY <1>1, <1>2 DEF Pathing
<1>5. \A i \in Kept : f[i] = PathOf(f, i)
  <2> DEFINE g == [i \in Kept |-> PathOf(f, i)]
  <2>1. \A i \in Kept : g[i] = PathOf(f, i)
    OBVIOUS
  <2>2. f = g
    BY <1>4
  <2> HIDE DEF g
  <2> QED
    BY <2>1, <2>2
<1> QED
  BY <1>3, <1>5

\* The place of a child among its siblings is how often its role was counted.
LEMMA PathStepIs ==
    ASSUME NEW node, NEW k \in Nat, k # 0
    PROVE  PathStep(node, k) = [role |-> node.role, nth |-> k - 1]
<1>1. {j \in 1..(k - 1) : ChildRole(node, node.kids[j]) = ChildRole(node, node.kids[k])} = 1..(k - 1)
  BY DEF ChildRole
<1>2. Cardinality(1..(k - 1)) = k - 1
  BY FS_Interval
<1> QED
  BY <1>1, <1>2 DEF PathStep, ChildRole

\* So UpdatePHash makes what Pathed says.
LEMMA ChildPathIs ==
    ASSUME Families, NEW f, \A i \in Kept : f[i] = PathOf(f, i)
    PROVE  /\ f[1] = RootPath
           /\ \A i \in Kept : \A k \in DOMAIN st[i].kids :
                 f[st[i].kids[k]] = Append(f[i], [role |-> st[i].role, nth |-> k - 1])
<1>1. 1 \in Kept /\ Kept \subseteq 1..Len(ax)
  BY KeptIs DEF Families
<1>2. f[1] = RootPath
  BY <1>1 DEF PathOf
<1>3. ASSUME NEW i \in Kept, NEW k \in DOMAIN st[i].kids
      PROVE  f[st[i].kids[k]] = Append(f[i], [role |-> st[i].role, nth |-> k - 1])
  <2> DEFINE c == st[i].kids[k]
  <2>1. c \in Kept /\ c # 1 /\ k \in Nat /\ k # 0
    <3>1. c \in Kept /\ i < c /\ i \in Nat /\ c \in Nat /\ k \in 1..Len(st[i].kids)
      BY ChildOf
    <3>2. i # 0
      BY <1>1
    <3> QED
      BY <3>1, <3>2
  <2>2. Parent(st, c) = i /\ Place(st, c) = k
    BY ParentIs
  <2> HIDE DEF c
  <2>3. f[c] = Append(f[i], PathStep(st[i], k))
    BY <2>1, <2>2 DEF PathOf
  <2>4. PathStep(st[i], k) = [role |-> st[i].role, nth |-> k - 1]
    BY <2>1, PathStepIs
  <2> QED
    BY <2>3, <2>4 DEF c
<1> QED
  BY <1>2, <1>3
-----------------------------------------------------------------------------
(* The loop of makeSyntheticsInner.                                        *)

Looping(g, nodes, k) ==
    \A n \in 0..k : g[n] = IF n = 0 THEN DeleteAdjacent(nodes) ELSE Round(g[n - 1])

\* The function that Rounds computes with exists.
LEMMA LoopingExists ==
    ASSUME NEW nodes, NEW k \in Nat
    PROVE  \E g : Looping(g, nodes, k)
<1> DEFINE T == {n \in Nat : \E g : Looping(g, nodes, n)}
<1>1. 0 \in T
  <2> DEFINE g == [n \in 0..0 |-> DeleteAdjacent(nodes)]
  <2>1. \A n \in 0..0 : n = 0 /\ g[n] = DeleteAdjacent(nodes)
    OBVIOUS
  <2> HIDE DEF g
  <2>2. Looping(g, nodes, 0)
    BY <2>1 DEF Looping
  <2> QED
    BY <2>2
<1>2. ASSUME NEW n \in Nat, n \in T PROVE n + 1 \in T
  <2>1. PICK g : Looping(g, nodes, n)
    BY <1>2
  <2> DEFINE h == [d \in 0..(n + 1) |-> IF d = n + 1 THEN Round(g[n]) ELSE g[d]]
  <2>2. ASSUME NEW d \in 0..(n + 1)
        PROVE  h[d] = IF d = 0 THEN DeleteAdjacent(nodes) ELSE Round(h[d - 1])
    <3>1. CASE d = n + 1
      BY <3>1
    <3>2. CASE d # n + 1
      <4>1. d \in 0..n /\ (d # 0 => d - 1 \in 0..n)
        BY <3>2
      <4>2. g[d] = IF d = 0 THEN DeleteAdjacent(nodes) ELSE Round(g[d - 1])
        BY <2>1, <4>1 DEF Looping
      <4>3. h[d] = g[d] /\ (d # 0 => h[d - 1] = g[d - 1])
        BY <3>2, <4>1
      <4> HIDE DEF h
      <4> QED
        BY <4>1, <4>2, <4>3
    <3> QED
      BY <3>1, <3>2
  <2> HIDE DEF h
  <2>3. Looping(h, nodes, n + 1)
    BY <2>2 DEF Looping
  <2> QED
    BY <2>3
<1> HIDE DEF T
<1>3. \A n \in Nat : n \in T
  BY <1>1, <1>2, Induct
<1> QED
  BY <1>3 DEF T

\* Rounds by it.
LEMMA RoundsBy ==
    ASSUME NEW nodes, NEW k \in Nat, k = Len(nodes)
    PROVE  \E g : Looping(g, nodes, k) /\ Rounds(nodes) = g[k]
<1> DEFINE Loops(g) == g = [n \in 0..k |-> IF n = 0 THEN DeleteAdjacent(nodes) ELSE Round(g[n - 1])]
           f == CHOOSE g : Loops(g)
<1>1. \E g : Loops(g)
  <2>1. PICK h : Looping(h, nodes, k)
    BY LoopingExists
  <2> DEFINE g == [n \in 0..k |-> h[n]]
  <2>2. ASSUME NEW n \in 0..k PROVE g[n] = IF n = 0 THEN DeleteAdjacent(nodes) ELSE Round(g[n - 1])
    <3>1. n # 0 => n - 1 \in 0..k
      OBVIOUS
    <3>2. g[n] = h[n] /\ (n # 0 => g[n - 1] = h[n - 1])
      BY <3>1
    <3>3. h[n] = IF n = 0 THEN DeleteAdjacent(nodes) ELSE Round(h[n - 1])
      BY <2>1 DEF Looping
    <3> HIDE DEF g
    <3> QED
      BY <3>2, <3>3
  <2>3. g = [n \in 0..k |-> g[n]]
    OBVIOUS
  <2> HIDE DEF g
  <2>4. Loops(g)
    BY <2>2, <2>3
  <2> QED
    BY <2>4
<1>2. Loops(f)
  <2> HIDE DEF Loops
  <2> QED
    BY <1>1
<1>3. Rounds(nodes) = f[k]
  BY DEF Rounds
<1> HIDE DEF f
<1>4. Looping(f, nodes, k)
  <2> DEFINE g == [n \in 0..k |-> IF n = 0 THEN DeleteAdjacent(nodes) ELSE Round(f[n - 1])]
  <2>1. \A n \in 0..k : g[n] = IF n = 0 THEN DeleteAdjacent(nodes) ELSE Round(f[n - 1])
    OBVIOUS
  <2>2. f = g
    BY <1>2
  <2> HIDE DEF g
  <2> QED
    BY <2>1, <2>2 DEF Looping
<1> QED
  BY <1>3, <1>4

\* A list without nodes stays as it is.
LEMMA DeleteNothing == DeleteAdjacent(<<>>) = <<>>
<1> DEFINE S == {}
<1>1. Tidy(S) /\ <<>> \in Seq(S) /\ Len(<<>>) = 0
  BY DEF Tidy
<1>2. PICK f : Joins(f, <<>>) /\ DeleteAdjacent(<<>>) = f[1]
  BY <1>1, DeleteAdjacentBy
<1>3. 1 \in 1..(Len(<<>>) + 1) /\ 1 > Len(<<>>)
  BY <1>1
<1>4. f[1] = <<>>
  BY <1>2, <1>3, JoinsAt
<1> QED
  BY <1>2, <1>4

\* A list of which it is known what it stands for.
Fitting(a, top) == \E S : Tidy(S) /\ a \in Seq(S) /\ Fits(a, 0, top)

\* It stays one when runs become lists, ...
LEMMA DeleteFits ==
    ASSUME NEW top \in Nat, NEW a, Fitting(a, top)
    PROVE  Fitting(DeleteAdjacent(a), top)
<1>1. PICK S : Tidy(S) /\ a \in Seq(S) /\ Fits(a, 0, top)
  BY DEF Fitting
<1>2. CASE a = <<>>
  BY <1>1, <1>2, DeleteNothing DEF Fitting
<1>3. CASE a # <<>>
  <2>1. DeleteAdjacent(a) \in Seq(Made(S)) /\ Fits(DeleteAdjacent(a), 0, top)
    BY <1>1, <1>3, DeleteAdjacentIs
  <2>2. Tidy(Made(S))
    BY <1>1, MadeTidy
  <2> QED
    BY <2>1, <2>2 DEF Fitting
<1> QED
  BY <1>2, <1>3

\* ... and in every round.
LEMMA RoundFits ==
    ASSUME NEW top \in Nat, NEW a, Fitting(a, top)
    PROVE  Fitting(Round(a), top)
<1>1. CASE ~ Repeated(a)
  BY <1>1 DEF Round
<1>2. CASE Repeated(a)
  <2>1. PICK S : Tidy(S) /\ a \in Seq(S) /\ Fits(a, 0, top)
    BY DEF Fitting
  <2>2. a # <<>>
    <3>1. Len(a) >= 2
      BY <1>2 DEF Repeated
    <3>2. Len(<<>>) = 0
      OBVIOUS
    <3> QED
      BY <3>1, <3>2
  <2>3. SlideWindow(a) \in Seq(Made(S)) /\ Fits(SlideWindow(a), 0, top)
    BY <2>1, <2>2, SlideWindowIs
  <2>4. Tidy(Made(S))
    BY <2>1, MadeTidy
  <2>5. Fitting(SlideWindow(a), top)
    BY <2>3, <2>4 DEF Fitting
  <2>6. Round(a) = DeleteAdjacent(SlideWindow(a))
    BY <1>2 DEF Round
  <2> QED
    BY <2>5, <2>6, DeleteFits
<1> QED
  BY <1>1, <1>2

\* So it is one after all of them.
LEMMA RoundsFits ==
    ASSUME NEW top \in Nat, NEW a, Fitting(a, top)
    PROVE  Fitting(Rounds(a), top)
<1> DEFINE k == Len(a)
<1>1. k \in Nat
  BY LenProperties DEF Fitting
<1>2. PICK g : Looping(g, a, k) /\ Rounds(a) = g[k]
  BY <1>1, RoundsBy
<1> HIDE DEF k
<1> DEFINE T == {n \in Nat : n <= k => Fitting(g[n], top)}
<1>3. 0 \in T
  <2>1. g[0] = DeleteAdjacent(a)
    BY <1>1, <1>2 DEF Looping
  <2> QED
    BY <2>1, DeleteFits
<1>4. ASSUME NEW n \in Nat, n \in T PROVE n + 1 \in T
  <2> SUFFICES ASSUME n + 1 <= k PROVE Fitting(g[n + 1], top)
    OBVIOUS
  <2>1. n + 1 \in 0..k /\ n + 1 # 0 /\ (n + 1) - 1 = n /\ n <= k
    BY <1>1
  <2>2. g[n + 1] = Round(g[n])
    BY <1>2, <2>1 DEF Looping
  <2>3. Fitting(g[n], top)
    BY <1>4, <2>1
  <2> QED
    BY <2>2, <2>3, RoundFits
<1>5. k \in T
  <2> HIDE DEF T
  <2> QED
    BY <1>1, <1>3, <1>4, Induct
<1> QED
  BY <1>1, <1>2, <1>5
-----------------------------------------------------------------------------
(* Lists of children.                                                      *)

\* What is linked stands for itself.
LEMMA SiblingsAre ==
    ASSUME NEW n \in Nat, NEW kids, DOMAIN kids = 1..n, NEW hash
    PROVE  /\ DOMAIN Siblings(kids, hash) = 1..n
           /\ \A k \in 1..n : Siblings(kids, hash)[k].id = k
           /\ Fitting(Siblings(kids, hash), n) /\ Plains(Siblings(kids, hash))
           /\ Len(Siblings(kids, hash)) = n
<1> DEFINE a == Siblings(kids, hash)
<1>1. a = [k \in 1..n |-> a[k]] /\ DOMAIN a = 1..n /\ \A k \in 1..n : a[k].id = k
  BY DEF Siblings
<1> HIDE DEF a
<1>2. Tidy(Range(a)) /\ a \in Seq(Range(a)) /\ Len(a) = n /\ Plains(a) /\ Fits(a, 0, n)
  BY <1>1, FitsPlaces
<1>3. Fitting(a, n)
  BY <1>2 DEF Fitting
<1> QED
  BY <1>1, <1>2, <1>3 DEF a

\* The same hashes make the same list.
LEMMA SiblingsSame ==
    ASSUME NEW s, NEW t, DOMAIN s = DOMAIN t, NEW f, NEW g,
           \A k \in DOMAIN s : f[s[k]] = g[t[k]]
    PROVE  Siblings(s, f) = Siblings(t, g)
  BY DEF Siblings

\* Through the wrappers the first children are seen; all, before any is wrapped.
LEMMA SeenIs ==
    ASSUME Families, Linked, NEW i \in Kept
    PROVE  \E hi \in 0..Len(st[i].kids) :
              /\ DOMAIN Seen(i) = 1..hi
              /\ \A k \in 1..hi : Seen(i)[k] = st[i].kids[k]
              /\ step # "done" => hi = Len(st[i].kids)
<1> DEFINE kids == st[i].kids
           n == Len(kids)
           list == st[i].list
           leaves == Unwrapped(list, n)
<1>1. n \in Nat /\ DOMAIN kids = 1..n
  BY LenProperties DEF Families, Family
<1> HIDE DEF n
<1>2. Fitting(list, n)
  <2>1. CASE step = "done"
    <3>1. Fitting(Siblings(kids, AllHash), n)
      BY <1>1, SiblingsAre
    <3>2. Fitting(Rounds(Siblings(kids, AllHash)), n)
      BY <1>1, <3>1, RoundsFits
    <3> QED
      BY <2>1, <3>2 DEF Linked
  <2>2. CASE step # "done"
    <3>1. Fitting(Siblings(kids, Unhashed), n)
      BY <1>1, SiblingsAre
    <3> QED
      BY <2>2, <3>1 DEF Linked
  <2> QED
    BY <2>1, <2>2
<1> HIDE DEF list
<1>3. PICK hi \in 0..n : DOMAIN leaves = 1..hi /\ \A k \in 1..hi : leaves[k].id = k
  <2>1. PICK S : Tidy(S) /\ list \in Seq(S) /\ Fits(list, 0, n)
    BY <1>2 DEF Fitting
  <2> QED
    BY <1>1, <2>1, LeavesOf
<1>4. Seen(i) = [k \in DOMAIN leaves |-> kids[leaves[k].id]]
  BY DEF Seen, list, n
<1>5. ASSUME step # "done" PROVE hi = n
  <2>1. list = Siblings(kids, Unhashed)
    BY <1>5 DEF Linked, list
  <2>2. Plains(list) /\ Len(list) = n /\ DOMAIN list = 1..n
    BY <1>1, <2>1, SiblingsAre
  <2>3. PICK S : Tidy(S) /\ list \in Seq(S)
    BY <1>2 DEF Fitting
  <2>4. Unwrapped(list, 0) = list
    BY UnwrappedDef
  <2>5. leaves = list
    BY <1>1, <2>2, <2>3, <2>4, UnwrappedDeeper
  <2>6. 1..hi = 1..n
    BY <1>3, <2>2, <2>5
  <2> QED
    BY <1>1, <1>3, <2>6
<1> HIDE DEF leaves
<1>6. DOMAIN Seen(i) = 1..hi /\ \A k \in 1..hi : Seen(i)[k] = kids[k]
  BY <1>3, <1>4
<1> QED
  BY <1>3, <1>5, <1>6 DEF n
-----------------------------------------------------------------------------
(* The steps.                                                              *)

\* Of an instance one field is changed.
Differs(r, q, field) ==
    /\ IsInstance(q)
    /\ "role" # field => q.role = r.role
    /\ "hash" # field => q.hash = r.hash
    /\ "path" # field => q.path = r.path
    /\ "up" # field   => q.up = r.up
    /\ "kids" # field => q.kids = r.kids
    /\ "list" # field => q.list = r.list

\* The fields named, one by one.
LEMMA RecordSet ==
    ASSUME NEW role, NEW hash, NEW path, NEW up, NEW kids, NEW list, NEW r, NEW v,
           r = [role |-> role, hash |-> hash, path |-> path, up |-> up, kids |-> kids, list |-> list]
    PROVE  /\ [r EXCEPT !.hash = v] =
                 [role |-> role, hash |-> v, path |-> path, up |-> up, kids |-> kids, list |-> list]
           /\ [r EXCEPT !.path = v] =
                 [role |-> role, hash |-> hash, path |-> v, up |-> up, kids |-> kids, list |-> list]
           /\ [r EXCEPT !.up = v] =
                 [role |-> role, hash |-> hash, path |-> path, up |-> v, kids |-> kids, list |-> list]
           /\ [r EXCEPT !.list = v] =
                 [role |-> role, hash |-> hash, path |-> path, up |-> up, kids |-> kids, list |-> v]
  OBVIOUS

LEMMA HashSet ==
    ASSUME NEW r, IsInstance(r), NEW v, NEW q, q = [r EXCEPT !.hash = v]
    PROVE  Differs(r, q, "hash") /\ q.hash = v
<1>1. PICK role, hash, path, up, kids, list :
          r = [role |-> role, hash |-> hash, path |-> path, up |-> up, kids |-> kids, list |-> list]
  BY DEF IsInstance
<1>2. q = [role |-> role, hash |-> v, path |-> path, up |-> up, kids |-> kids, list |-> list]
  BY <1>1, RecordSet
<1>3. IsInstance(q)
  BY <1>2 DEF IsInstance
<1> QED
  BY <1>1, <1>2, <1>3 DEF Differs

LEMMA PathSet ==
    ASSUME NEW r, IsInstance(r), NEW v, NEW q, q = [r EXCEPT !.path = v]
    PROVE  Differs(r, q, "path") /\ q.path = v
<1>1. PICK role, hash, path, up, kids, list :
          r = [role |-> role, hash |-> hash, path |-> path, up |-> up, kids |-> kids, list |-> list]
  BY DEF IsInstance
<1>2. q = [role |-> role, hash |-> hash, path |-> v, up |-> up, kids |-> kids, list |-> list]
  BY <1>1, RecordSet
<1>3. IsInstance(q)
  BY <1>2 DEF IsInstance
<1> QED
  BY <1>1, <1>2, <1>3 DEF Differs

LEMMA UpSet ==
    ASSUME NEW r, IsInstance(r), NEW v, NEW q, q = [r EXCEPT !.up = v]
    PROVE  Differs(r, q, "up") /\ q.up = v
<1>1. PICK role, hash, path, up, kids, list :
          r = [role |-> role, hash |-> hash, path |-> path, up |-> up, kids |-> kids, list |-> list]
  BY DEF IsInstance
<1>2. q = [role |-> role, hash |-> hash, path |-> path, up |-> v, kids |-> kids, list |-> list]
  BY <1>1, RecordSet
<1>3. IsInstance(q)
  BY <1>2 DEF IsInstance
<1> QED
  BY <1>1, <1>2, <1>3 DEF Differs

LEMMA ListSet ==
    ASSUME NEW r, IsInstance(r), NEW v, NEW q, q = [r EXCEPT !.list = v]
    PROVE  Differs(r, q, "list") /\ q.list = v
<1>1. PICK role, hash, path, up, kids, list :
          r = [role |-> role, hash |-> hash, path |-> path, up |-> up, kids |-> kids, list |-> list]
  BY DEF IsInstance
<1>2. q = [role |-> role, hash |-> hash, path |-> path, up |-> up, kids |-> kids, list |-> v]
  BY <1>1, RecordSet
<1>3. IsInstance(q)
  BY <1>2 DEF IsInstance
<1> QED
  BY <1>1, <1>2, <1>3 DEF Differs

\* A step changes one field of all instances.
Sets(field) ==
    /\ ax' = ax /\ DOMAIN st' = Kept
    /\ \A i \in Kept : Differs(st[i], st'[i], field)

\* So the families stay.
LEMMA FamiliesStep ==
    ASSUME Families, NEW field, field # "kids", Sets(field),
           step' \in {"shash", "phash", "parent", "wrap", "done"}
    PROVE  Families' /\ Kept' = Kept /\ \A i \in Kept : st'[i].kids = st[i].kids
<1>1. Kept' = Kept
  BY DEF Sets, Kept, Visible
<1>2. \A i \in Kept : KeptBelow(i)' = KeptBelow(i)
  BY <1>1 DEF Sets, KeptBelow, Above
<1>3. \A i \in Kept : IsInstance(st'[i]) /\ st'[i].kids = st[i].kids
  BY DEF Sets, Differs
<1>4. IsTree(ax')
  BY DEF Sets, Families
<1>5. \A i \in Kept : Family(KeptBelow(i), st[i].kids)
  BY DEF Families
<1>6. \A i \in Kept : Family(KeptBelow(i)', st'[i].kids)
  BY <1>2, <1>3, <1>5
<1> QED
  BY <1>1, <1>3, <1>4, <1>6 DEF Families, Sets

\* What holds of hashes and of paths does so while these stay.
LEMMA HashedStays ==
    ASSUME Families, Hashed, step # "shash", Kept' = Kept,
           \A i \in Kept : /\ st'[i].kids = st[i].kids /\ st'[i].role = st[i].role
                          /\ st'[i].hash = st[i].hash
    PROVE  Hashed'
<1>1. ASSUME NEW i \in Kept
      PROVE  st'[i].hash = [role |-> st'[i].role,
                            of   |-> [k \in DOMAIN st'[i].kids |-> st'[st'[i].kids[k]].hash]]
  <2>1. \A k \in DOMAIN st[i].kids : st'[st[i].kids[k]].hash = st[st[i].kids[k]].hash
    BY ChildOf
  <2>2. [k \in DOMAIN st[i].kids |-> st[st[i].kids[k]].hash]
        = [k \in DOMAIN st'[i].kids |-> st'[st'[i].kids[k]].hash]
    BY <2>1
  <2>3. st[i].hash = [role |-> st[i].role,
                      of   |-> [k \in DOMAIN st[i].kids |-> st[st[i].kids[k]].hash]]
    BY DEF Hashed
  <2> QED
    BY <2>2, <2>3
<1> QED
  BY <1>1 DEF Hashed

LEMMA PathedStays ==
    ASSUME Families, Pathed, step \in {"parent", "wrap"}, Kept' = Kept,
           \A i \in Kept : /\ st'[i].kids = st[i].kids /\ st'[i].role = st[i].role
                          /\ st'[i].path = st[i].path
    PROVE  Pathed'
<1>1. 1 \in Kept
  BY KeptIs DEF Families
<1>2. st'[1].path = RootPath'
  BY <1>1 DEF RootPath, Pathed
<1>3. ASSUME NEW i \in Kept, NEW k \in DOMAIN st[i].kids
      PROVE  st'[st'[i].kids[k]].path = Append(st'[i].path, [role |-> st'[i].role, nth |-> k - 1])
  <2>1. st[i].kids[k] \in Kept
    BY ChildOf
  <2>2. st[st[i].kids[k]].path = Append(st[i].path, [role |-> st[i].role, nth |-> k - 1])
    BY DEF Pathed, ChildPath
  <2> QED
    BY <2>1, <2>2
<1> QED
  BY <1>2, <1>3 DEF Pathed, ChildPath

\* Every step keeps the invariant.
LEMMA HashStructuresKeeps == TreeInv /\ HashStructures => TreeInv'
<1> SUFFICES ASSUME TreeInv, HashStructures PROVE TreeInv'
  OBVIOUS
<1>1. Families /\ Linked /\ step = "shash" /\ step' = "phash" /\ st' = UpdateSHash(st) /\ ax' = ax
  BY DEF TreeInv, HashStructures
<1>2. PICK f : /\ \A i \in Kept : f[i] = HashOf(f, st, i)
               /\ st' = [i \in Kept |-> [st[i] EXCEPT !.hash = f[i]]]
  BY <1>1, UpdateSHashIs
<1>3. ASSUME NEW i \in Kept PROVE Differs(st[i], st'[i], "hash") /\ st'[i].hash = f[i]
  <2>1. IsInstance(st[i]) /\ st'[i] = [st[i] EXCEPT !.hash = f[i]]
    BY <1>1, <1>2 DEF Families
  <2> QED
    BY <2>1, HashSet
<1>4. Sets("hash")
  BY <1>1, <1>2, <1>3 DEF Sets
<1>5. Families' /\ Kept' = Kept /\ \A i \in Kept : st'[i].kids = st[i].kids
  BY <1>1, <1>4, FamiliesStep
<1>6. \A i \in Kept : st'[i].role = st[i].role /\ st'[i].list = st[i].list
  BY <1>3 DEF Differs
<1>7. Linked'
  <2>1. Unhashed' = Unhashed
    BY <1>5 DEF Unhashed
  <2> QED
    BY <1>1, <1>5, <1>6, <2>1 DEF Linked
<1>8. Hashed'
  <2>1. ASSUME NEW i \in Kept
        PROVE  st'[i].hash = [role |-> st'[i].role,
                              of   |-> [k \in DOMAIN st'[i].kids |-> st'[st'[i].kids[k]].hash]]
    <3>1. st'[i].hash = [role |-> st[i].role, of |-> [k \in DOMAIN st[i].kids |-> f[st[i].kids[k]]]]
      BY <1>2, <1>3 DEF HashOf
    <3>2. \A k \in DOMAIN st[i].kids : st'[st[i].kids[k]].hash = f[st[i].kids[k]]
      BY <1>1, <1>3, ChildOf
    <3>3. [k \in DOMAIN st[i].kids |-> f[st[i].kids[k]]]
          = [k \in DOMAIN st'[i].kids |-> st'[st'[i].kids[k]].hash]
      BY <1>5, <3>2
    <3> QED
      BY <1>6, <3>1, <3>3
  <2> QED
    BY <1>5, <2>1 DEF Hashed
<1>9. Pathed' /\ Upped'
  BY <1>1 DEF Pathed, Upped
<1> QED
  BY <1>5, <1>7, <1>8, <1>9 DEF TreeInv

LEMMA HashPathsKeeps == TreeInv /\ HashPaths => TreeInv'
<1> SUFFICES ASSUME TreeInv, HashPaths PROVE TreeInv'
  OBVIOUS
<1>1. /\ Families /\ Linked /\ Hashed /\ step = "phash" /\ step' = "parent"
      /\ st' = UpdatePHash(st) /\ ax' = ax
  BY DEF TreeInv, HashPaths
<1>2. PICK f : /\ \A i \in Kept : f[i] = PathOf(f, i)
               /\ st' = [i \in Kept |-> [st[i] EXCEPT !.path = f[i]]]
  BY <1>1, UpdatePHashIs
<1>3. ASSUME NEW i \in Kept PROVE Differs(st[i], st'[i], "path") /\ st'[i].path = f[i]
  <2>1. IsInstance(st[i]) /\ st'[i] = [st[i] EXCEPT !.path = f[i]]
    BY <1>1, <1>2 DEF Families
  <2> QED
    BY <2>1, PathSet
<1>4. Sets("path")
  BY <1>1, <1>2, <1>3 DEF Sets
<1>5. Families' /\ Kept' = Kept /\ \A i \in Kept : st'[i].kids = st[i].kids
  BY <1>1, <1>4, FamiliesStep
<1>6. \A i \in Kept : st'[i].role = st[i].role /\ st'[i].list = st[i].list
                      /\ st'[i].hash = st[i].hash
  BY <1>3 DEF Differs
<1>7. Linked'
  <2>1. Unhashed' = Unhashed
    BY <1>5 DEF Unhashed
  <2> QED
    BY <1>1, <1>5, <1>6, <2>1 DEF Linked
<1>8. Hashed'
  BY <1>1, <1>5, <1>6, HashedStays
<1>9. Pathed'
  <2>1. /\ f[1] = RootPath
        /\ \A i \in Kept : \A k \in DOMAIN st[i].kids :
              f[st[i].kids[k]] = Append(f[i], [role |-> st[i].role, nth |-> k - 1])
    BY <1>1, <1>2, ChildPathIs
  <2>2. 1 \in Kept
    BY <1>1, KeptIs DEF Families
  <2>3. st'[1].path = RootPath'
    BY <1>3, <1>6, <2>1, <2>2 DEF RootPath
  <2>4. ASSUME NEW i \in Kept, NEW k \in DOMAIN st[i].kids
        PROVE  st'[st'[i].kids[k]].path = Append(st'[i].path, [role |-> st'[i].role, nth |-> k - 1])
    <3>1. st[i].kids[k] \in Kept
      BY <1>1, ChildOf
    <3>2. st'[st[i].kids[k]].path = f[st[i].kids[k]] /\ st'[i].path = f[i]
      BY <1>3, <3>1
    <3> QED
      BY <1>5, <1>6, <2>1, <3>2
  <2> QED
    BY <1>5, <2>3, <2>4 DEF Pathed, ChildPath
<1>10. Upped'
  BY <1>1 DEF Upped
<1> QED
  BY <1>5, <1>7, <1>8, <1>9, <1>10 DEF TreeInv

LEMMA SetParentsKeeps == TreeInv /\ SetParents => TreeInv'
<1> SUFFICES ASSUME TreeInv, SetParents PROVE TreeInv'
  OBVIOUS
<1>1. /\ Families /\ Linked /\ Hashed /\ Pathed /\ step = "parent" /\ step' = "wrap"
      /\ st' = UpdateParentRecursively(st) /\ ax' = ax
  BY DEF TreeInv, SetParents
<1> DEFINE linked(i) == {node.id : node \in Range(st[i].list)}
           up(i) == IF i # 1 /\ Place(st, i) \in linked(Parent(st, i))
                    THEN st[Parent(st, i)].path ELSE <<>>
<1>2. st' = [i \in Kept |-> [st[i] EXCEPT !.up = up(i)]]
  BY <1>1 DEF UpdateParentRecursively, Families
<1> HIDE DEF up
<1>3. ASSUME NEW i \in Kept PROVE Differs(st[i], st'[i], "up") /\ st'[i].up = up(i)
  <2>1. IsInstance(st[i]) /\ st'[i] = [st[i] EXCEPT !.up = up(i)]
    BY <1>1, <1>2 DEF Families
  <2> QED
    BY <2>1, UpSet
<1>4. Sets("up")
  BY <1>1, <1>2, <1>3 DEF Sets
<1>5. Families' /\ Kept' = Kept /\ \A i \in Kept : st'[i].kids = st[i].kids
  BY <1>1, <1>4, FamiliesStep
<1>6. \A i \in Kept : /\ st'[i].role = st[i].role /\ st'[i].list = st[i].list
                      /\ st'[i].hash = st[i].hash /\ st'[i].path = st[i].path
  BY <1>3 DEF Differs
<1>7. Linked'
  <2>1. Unhashed' = Unhashed
    BY <1>5 DEF Unhashed
  <2> QED
    BY <1>1, <1>5, <1>6, <2>1 DEF Linked
<1>8. Hashed'
  BY <1>1, <1>5, <1>6, HashedStays
<1>9. Pathed'
  BY <1>1, <1>5, <1>6, PathedStays
<1>10. Upped'
  <2>1. ASSUME NEW i \in Kept, NEW k \in DOMAIN st[i].kids
        PROVE  st'[st'[i].kids[k]].up = st'[i].path
    <3> DEFINE c == st[i].kids[k]
    <3>1. c \in Kept /\ c # 1 /\ DOMAIN st[i].kids = 1..Len(st[i].kids) /\ Len(st[i].kids) \in Nat
      <4>1. /\ c \in Kept /\ i < c /\ i \in Nat /\ c \in Nat
            /\ DOMAIN st[i].kids = 1..Len(st[i].kids) /\ Len(st[i].kids) \in Nat
        BY <1>1, ChildOf
      <4>2. i # 0
        BY <1>1, KeptIs DEF Families
      <4> QED
        BY <4>1, <4>2
    <3>2. Parent(st, c) = i /\ Place(st, c) = k
      BY <1>1, ParentIs
    <3>3. k \in linked(i)
      <4>1. st[i].list = Siblings(st[i].kids, Unhashed)
        BY <1>1 DEF Linked
      <4>2. k \in DOMAIN st[i].list /\ st[i].list[k].id = k
        BY <3>1, <4>1, SiblingsAre
      <4> QED
        BY <4>2 DEF Range
    <3> HIDE DEF c, linked
    <3>4. up(c) = st[i].path
      BY <3>1, <3>2, <3>3 DEF up
    <3>5. st'[c].up = st[i].path
      BY <1>3, <3>1, <3>4
    <3> QED
      BY <1>5, <1>6, <3>5 DEF c
  <2> QED
    BY <1>5, <2>1 DEF Upped
<1> QED
  BY <1>5, <1>7, <1>8, <1>9, <1>10 DEF TreeInv

LEMMA WrapKeeps == TreeInv /\ Wrap => TreeInv'
<1> SUFFICES ASSUME TreeInv, Wrap PROVE TreeInv'
  OBVIOUS
<1>1. /\ Families /\ Linked /\ Hashed /\ Pathed /\ Upped /\ step = "wrap" /\ step' = "done"
      /\ st' = MakeSynthetics(st) /\ ax' = ax
  BY DEF TreeInv, Wrap
<1>2. st' = [i \in Kept |-> [st[i] EXCEPT !.list = Rounds(Siblings(st[i].kids, AllHash))]]
  BY <1>1 DEF MakeSynthetics, Families, AllHash
<1>3. ASSUME NEW i \in Kept
      PROVE  /\ Differs(st[i], st'[i], "list")
             /\ st'[i].list = Rounds(Siblings(st[i].kids, AllHash))
  <2>1. /\ IsInstance(st[i])
        /\ st'[i] = [st[i] EXCEPT !.list = Rounds(Siblings(st[i].kids, AllHash))]
    BY <1>1, <1>2 DEF Families
  <2> QED
    BY <2>1, ListSet
<1>4. Sets("list")
  BY <1>1, <1>2, <1>3 DEF Sets
<1>5. Families' /\ Kept' = Kept /\ \A i \in Kept : st'[i].kids = st[i].kids
  BY <1>1, <1>4, FamiliesStep
<1>6. \A i \in Kept : /\ st'[i].role = st[i].role /\ st'[i].up = st[i].up
                      /\ st'[i].hash = st[i].hash /\ st'[i].path = st[i].path
  BY <1>3 DEF Differs
<1>7. Linked'
  <2>1. AllHash' = AllHash
    BY <1>5, <1>6 DEF AllHash
  <2> QED
    BY <1>1, <1>3, <1>5, <2>1 DEF Linked
<1>8. Hashed'
  BY <1>1, <1>5, <1>6, HashedStays
<1>9. Pathed'
  BY <1>1, <1>5, <1>6, PathedStays
<1>10. Upped'
  <2>1. ASSUME NEW i \in Kept, NEW k \in DOMAIN st[i].kids
        PROVE  st'[st'[i].kids[k]].up = st'[i].path
    <3>1. st[i].kids[k] \in Kept /\ st[st[i].kids[k]].up = st[i].path
      BY <1>1, ChildOf DEF Upped
    <3> QED
      BY <1>5, <1>6, <3>1
  <2> QED
    BY <1>5, <2>1 DEF Upped
<1> QED
  BY <1>5, <1>7, <1>8, <1>9, <1>10 DEF TreeInv

LEMMA TreeInvariant == TreeSpec => []TreeInv
<1>1. TreeInv /\ [TreeNext]_treeVars => TreeInv'
  <2> SUFFICES ASSUME TreeInv, [TreeNext]_treeVars PROVE TreeInv'
    OBVIOUS
  <2>1. CASE HashStructures
    BY <2>1, HashStructuresKeeps
  <2>2. CASE HashPaths
    BY <2>2, HashPathsKeeps
  <2>3. CASE SetParents
    BY <2>3, SetParentsKeeps
  <2>4. CASE Wrap
    BY <2>4, WrapKeeps
  <2>5. CASE UNCHANGED treeVars
    <3>1. ax' = ax /\ st' = st /\ step' = step
      BY <2>5 DEF treeVars
    <3>2. Kept' = Kept
      BY <3>1 DEF Kept, Visible
    <3>3. \A i \in Kept : KeptBelow(i)' = KeptBelow(i)
      BY <3>1, <3>2 DEF KeptBelow, Above
    <3>4. Families'
      BY <3>1, <3>2, <3>3 DEF TreeInv, Families
    <3>5. Hashed' /\ Upped'
      BY <3>1, <3>2 DEF TreeInv, Hashed, Upped
    <3>6. Pathed'
      BY <3>1, <3>2 DEF TreeInv, Pathed, RootPath, ChildPath
    <3>7. Linked'
      BY <3>1, <3>2 DEF TreeInv, Linked, AllHash, Unhashed
    <3> QED
      BY <3>4, <3>5, <3>6, <3>7 DEF TreeInv
  <2> QED
    BY <2>1, <2>2, <2>3, <2>4, <2>5 DEF TreeNext
<1> QED
  BY <1>1, TreeInvInit, PTL DEF TreeSpec
-----------------------------------------------------------------------------
(* The properties of initStructTree.                                       *)

\* The tree of instances has the nodes that are not transparent, each below the
\* nearest such node above it, in document order; and what wrapping takes away
\* (deleteAdjacent drops the end of a list) are last children only.
THEOREM StructureKeepsNodes == TreeSpec => []KeptNodes
<1>1. TreeInv => KeptNodes
  <2> SUFFICES ASSUME TreeInv PROVE KeptNodes
    OBVIOUS
  <2>1. Families /\ Linked
    BY DEF TreeInv
  <2>2. ASSUME NEW i \in Kept
        PROVE  /\ Range(Seen(i)) \subseteq KeptBelow(i)
               /\ \A k, l \in DOMAIN Seen(i) : k < l => Seen(i)[k] < Seen(i)[l]
               /\ \A j \in KeptBelow(i) \ Range(Seen(i)) :
                     step = "done" /\ \A k \in Range(Seen(i)) : k < j
    <3> DEFINE kids == st[i].kids
               n == Len(kids)
    <3>1. PICK hi \in 0..n : /\ DOMAIN Seen(i) = 1..hi
                             /\ \A k \in 1..hi : Seen(i)[k] = kids[k]
                             /\ step # "done" => hi = n
      BY <2>1, SeenIs
    <3>2. /\ kids \in Seq(KeptBelow(i)) /\ n \in Nat
          /\ \A k, l \in 1..n : k < l => kids[k] < kids[l]
          /\ \A j \in KeptBelow(i) : \E k \in 1..n : kids[k] = j
      BY <2>1, LenProperties DEF Families, Family
    <3>3. \A k \in 1..n : kids[k] \in KeptBelow(i)
      BY <3>2, ElementOfSeq
    <3> HIDE DEF kids, n
    <3>4. hi \in Nat /\ \A k \in 1..hi : k \in 1..n
      BY <3>1, <3>2
    <3>5. Range(Seen(i)) \subseteq KeptBelow(i)
      BY <3>1, <3>3, <3>4 DEF Range
    <3>6. \A k, l \in DOMAIN Seen(i) : k < l => Seen(i)[k] < Seen(i)[l]
      BY <3>1, <3>2, <3>4
    <3>7. ASSUME NEW j \in KeptBelow(i), j \notin Range(Seen(i))
          PROVE  step = "done" /\ \A c \in Range(Seen(i)) : c < j
      <4>1. PICK l \in 1..n : kids[l] = j
        BY <3>2
      <4>2. l \notin 1..hi
        BY <3>1, <3>7, <4>1 DEF Range
      <4>3. step = "done"
        BY <3>1, <4>2
      <4>4. ASSUME NEW k \in 1..hi PROVE Seen(i)[k] < j
        <5>1. k \in 1..n /\ k < l /\ Seen(i)[k] = kids[k]
          BY <3>1, <3>4, <4>2
        <5> QED
          BY <3>2, <4>1, <5>1
      <4> QED
        BY <3>1, <4>3, <4>4 DEF Range
    <3> QED
      BY <3>5, <3>6, <3>7
  <2> QED
    BY <2>1, <2>2 DEF KeptNodes, Families
<1> QED
  BY <1>1, TreeInvariant, PTL

\* The steps a path can have.
Steps == {[role |-> st[i].role, nth |-> n] : i \in Kept, n \in Nat}

\* Append keeps both of its arguments.
LEMMA AppendApart ==
    ASSUME NEW S, NEW s \in Seq(S), NEW t \in Seq(S), NEW d \in S, NEW e \in S,
           Append(s, d) = Append(t, e)
    PROVE  s = t /\ d = e
<1>1. /\ Len(Append(s, d)) = Len(s) + 1 /\ Append(s, d)[Len(s) + 1] = d
      /\ \A k \in 1..Len(s) : Append(s, d)[k] = s[k]
  BY AppendProperties
<1>2. /\ Len(Append(t, e)) = Len(t) + 1 /\ Append(t, e)[Len(t) + 1] = e
      /\ \A k \in 1..Len(t) : Append(t, e)[k] = t[k]
  BY AppendProperties
<1>3. /\ Len(s) \in Nat /\ s = [k \in 1..Len(s) |-> s[k]]
      /\ Len(t) \in Nat /\ t = [k \in 1..Len(t) |-> t[k]]
  BY LenProperties
<1>4. Len(s) = Len(t)
  <2> DEFINE p == Len(s)
             q == Len(t)
  <2>1. p + 1 = q + 1 /\ p \in Nat /\ q \in Nat
    BY <1>1, <1>2, <1>3
  <2> HIDE DEF p, q
  <2>2. p = q
    BY <2>1
  <2> QED
    BY <2>2 DEF p, q
<1>5. \A k \in 1..Len(s) : s[k] = t[k]
  BY <1>1, <1>2, <1>4
<1>6. s = t
  BY <1>3, <1>4, <1>5
<1> QED
  BY <1>1, <1>2, <1>4, <1>6

\* Without what was appended last it is what it was.
LEMMA FrontAppend ==
    ASSUME NEW S, NEW s \in Seq(S), NEW e \in S
    PROVE  Front(Append(s, e)) = s
<1> DEFINE a == Append(s, e)
<1>1. a \in Seq(S) /\ Len(a) = Len(s) + 1 /\ \A k \in 1..Len(s) : a[k] = s[k]
  BY AppendProperties
<1>2. Len(s) \in Nat /\ s = [k \in 1..Len(s) |-> s[k]]
  BY LenProperties
<1> HIDE DEF a
<1>3. Len(a) - 1 = Len(s) /\ Len(s) \in 0..Len(a)
  BY <1>1, <1>2
<1>4. /\ SubSeq(a, 1, Len(s)) \in Seq(S)
      /\ Len(SubSeq(a, 1, Len(s))) = Len(s)
      /\ \A k \in 1..Len(s) : SubSeq(a, 1, Len(s))[k] = a[k]
  <2>1. \A k \in 1..Len(s) : a[k] \in S
    BY <1>1, <1>2, ElementOfSeq
  <2>2. SubSeq(a, 1, Len(s)) = [k \in 1..Len(s) |-> a[k]]
    BY <1>1, <1>2, <1>3
  <2>3. SubSeq(a, 1, Len(s)) = s
    BY <1>1, <1>2, <2>2
  <2> QED
    BY <1>1, <2>3
<1>5. SubSeq(a, 1, Len(s)) = s
  BY <1>1, <1>2, <1>4, LenProperties
<1> QED
  BY <1>3, <1>5 DEF Front, a

\* Paths are sequences of these, only the root's being of one step.
LEMMA PathTyped ==
    ASSUME Families, Pathed, step \in {"parent", "wrap", "done"}, NEW i \in Kept
    PROVE  /\ st[i].path \in Seq(Steps)
           /\ i = 1 => Len(st[i].path) = 1
           /\ i # 1 => Len(st[i].path) > 1
<1> DEFINE Good(j) == /\ st[j].path \in Seq(Steps) /\ Len(st[j].path) > 0
                      /\ j = 1 => Len(st[j].path) = 1
                      /\ j # 1 => Len(st[j].path) > 1
           Bad == {j \in Kept : ~ Good(j)}
<1>1. 1 \in Kept /\ Kept \subseteq 1..Len(ax) /\ Kept \subseteq Nat
  <2>1. Len(ax) \in Nat
    BY TreeParts DEF Families
  <2> QED
    BY <2>1, KeptIs DEF Families
<1>2. Good(1)
  <2>1. st[1].path = RootPath
    BY DEF Pathed
  <2>2. [role |-> st[1].role, nth |-> 0] \in Steps
    BY <1>1 DEF Steps
  <2> QED
    BY <2>1, <2>2 DEF RootPath
<1>3. ASSUME NEW j \in Kept, j # 1, \A p \in Kept : p < j => Good(p) PROVE Good(j)
  <2>1. PICK p \in Kept : \E k \in DOMAIN st[p].kids : st[p].kids[k] = j
    BY <1>3, ChildOfSome
  <2>2. PICK k \in DOMAIN st[p].kids : st[p].kids[k] = j
    BY <2>1
  <2> DEFINE n == k - 1
             e == [role |-> st[p].role, nth |-> n]
  <2>3. p < j /\ k \in Nat /\ k - 1 \in Nat
    <3>1. p < j /\ k \in 1..Len(st[p].kids)
      BY <2>2, ChildOf
    <3> QED
      BY <3>1
  <2>4. st[j].path = Append(st[p].path, e)
    BY <2>2 DEF Pathed, ChildPath
  <2>5. e \in Steps
    <3>1. n \in Nat
      BY <2>3
    <3> HIDE DEF n
    <3> QED
      BY <3>1 DEF Steps
  <2>6. st[p].path \in Seq(Steps) /\ Len(st[p].path) > 0
    BY <1>3, <2>3
  <2> HIDE DEF e
  <2>7. st[j].path \in Seq(Steps) /\ Len(st[j].path) = Len(st[p].path) + 1
    BY <2>4, <2>5, <2>6, AppendProperties
  <2>8. Len(st[p].path) \in Nat
    BY <2>6, LenProperties
  <2> QED
    BY <1>3, <2>6, <2>7, <2>8
<1>4. Bad = {}
  <2> SUFFICES ASSUME Bad # {} PROVE FALSE
    OBVIOUS
  <2>1. Bad \in SUBSET Nat
    <3> HIDE DEF Good
    <3> QED
      BY <1>1
  <2>2. PICK j \in Bad : \A p \in Bad : j <= p
    <3> HIDE DEF Bad
    <3> QED
      BY <2>1, Least
  <2>3. ASSUME NEW p \in Kept, p < j PROVE Good(p)
    <3>1. p \in Nat /\ j \in Nat
      BY <1>1
    <3>2. p \notin Bad
      <4> HIDE DEF Bad
      <4> QED
        BY <2>2, <2>3, <3>1
    <3> QED
      BY <3>2
  <2> HIDE DEF Good
  <2> QED
    BY <1>2, <1>3, <2>2, <2>3
<1> QED
  BY <1>4

\* No two instances of the tree have one path hash: a path tells its root, and
\* a longer one its parent's path, which names one instance, and the child's
\* place there.
THEOREM PathsTell == TreeSpec => []PathsDiffer
<1>1. TreeInv => PathsDiffer
  <2> SUFFICES ASSUME TreeInv, step \in {"parent", "wrap", "done"},
                      NEW a \in Kept, NEW b \in Kept, st[a].path = st[b].path, a # b
               PROVE  FALSE
    BY DEF PathsDiffer, TreeInv, Families
  <2>1. Families /\ Pathed
    BY DEF TreeInv
  <2> DEFINE Bad == {i \in Kept : \E j \in Kept : j # i /\ st[i].path = st[j].path}
  <2>2. Kept \subseteq Nat
    <3>1. Len(ax) \in Nat
      BY <2>1, TreeParts DEF Families
    <3> QED
      BY <2>1, <3>1, KeptIs DEF Families
  <2>3. PICK i \in Bad : \A m \in Bad : i <= m
    <3>1. Bad \in SUBSET Nat /\ Bad # {}
      BY <2>2
    <3> HIDE DEF Bad
    <3> QED
      BY <3>1, Least
  <2>4. PICK j \in Kept : j # i /\ st[i].path = st[j].path
    BY <2>3
  <2>5. i \in Kept
    BY <2>3
  <2>6. i # 1 /\ j # 1
    <3>1. /\ i = 1 => Len(st[i].path) = 1
          /\ i # 1 => Len(st[i].path) > 1
          /\ j = 1 => Len(st[j].path) = 1
          /\ j # 1 => Len(st[j].path) > 1
      BY <2>1, <2>5, PathTyped
    <3> HIDE DEF Bad
    <3>2. CASE i = 1
      <4>1. j # 1
        BY <2>4, <3>2
      <4> DEFINE p == Len(st[j].path)
      <4>2. p > 1
        BY <3>1, <4>1
      <4>3. p = 1
        BY <2>4, <3>1, <3>2
      <4> HIDE DEF p
      <4> QED
        BY <4>2, <4>3
    <3>3. CASE i # 1 /\ j = 1
      <4> DEFINE p == Len(st[i].path)
      <4>2. p > 1
        BY <3>1, <3>3
      <4>3. p = 1
        BY <2>4, <3>1, <3>3
      <4> HIDE DEF p
      <4> QED
        BY <4>2, <4>3
    <3> QED
      BY <3>2, <3>3
  <2>7. PICK p \in Kept : \E k \in DOMAIN st[p].kids : st[p].kids[k] = i
    BY <2>1, <2>5, <2>6, ChildOfSome
  <2>8. PICK k \in DOMAIN st[p].kids : st[p].kids[k] = i
    BY <2>7
  <2>9. PICK q \in Kept : \E l \in DOMAIN st[q].kids : st[q].kids[l] = j
    BY <2>1, <2>6, ChildOfSome
  <2>10. PICK l \in DOMAIN st[q].kids : st[q].kids[l] = j
    BY <2>9
  <2>11. p < i /\ k \in Nat /\ l \in Nat /\ k # 0 /\ l # 0
    <3>1. p < i /\ k \in 1..Len(st[p].kids) /\ l \in 1..Len(st[q].kids)
      BY <2>1, <2>8, <2>10, ChildOf
    <3> QED
      BY <3>1
  <2>12. /\ st[i].path = Append(st[p].path, [role |-> st[p].role, nth |-> k - 1])
         /\ st[j].path = Append(st[q].path, [role |-> st[q].role, nth |-> l - 1])
    BY <2>1, <2>8, <2>10 DEF Pathed, ChildPath
  <2>13. st[p].path = st[q].path /\ k - 1 = l - 1
    <3> DEFINE m == k - 1
               n == l - 1
               d == [role |-> st[p].role, nth |-> m]
               e == [role |-> st[q].role, nth |-> n]
    <3>1. m \in Nat /\ n \in Nat
      BY <2>11
    <3> HIDE DEF m, n
    <3>2. d \in Steps /\ e \in Steps
      BY <3>1 DEF Steps
    <3>3. st[p].path \in Seq(Steps) /\ st[q].path \in Seq(Steps)
      BY <2>1, PathTyped
    <3>4. Append(st[p].path, d) = Append(st[q].path, e)
      BY <2>4, <2>12 DEF m, n
    <3>5. st[p].path = st[q].path /\ d = e
      <4> DEFINE s == st[p].path
                 t == st[q].path
      <4>1. s \in Seq(Steps) /\ t \in Seq(Steps) /\ Append(s, d) = Append(t, e)
        BY <3>3, <3>4
      <4> HIDE DEF Bad, d, e, s, t
      <4>2. s = t /\ d = e
        BY <3>2, <4>1, AppendApart
      <4> QED
        BY <4>2 DEF s, t
    <3>6. d.nth = m /\ e.nth = n
      OBVIOUS
    <3>7. m = n
      BY <3>5, <3>6
    <3> QED
      BY <3>5, <3>7 DEF m, n
  <2>14. p = q
    <3>1. p \notin Bad
      <4>1. p \in Nat /\ i \in Nat
        BY <2>2, <2>5
      <4> HIDE DEF Bad
      <4> QED
        BY <2>3, <2>11, <4>1
    <3> QED
      BY <2>13, <3>1
  <2>15. k = l
    <3> HIDE DEF Bad
    <3> QED
      BY <2>11, <2>13
  <2> QED
    BY <2>4, <2>8, <2>10, <2>14, <2>15
<1> QED
  BY <1>1, TreeInvariant, PTL

\* The parent stored with an instance is the instance above, not the wrapper
\* that it gets into, since updateParentRecursively runs before makeSynthetics.
THEOREM ParentsArePaths == TreeSpec => []ParentPath
<1>1. TreeInv => ParentPath
  <2> SUFFICES ASSUME TreeInv, step \in {"wrap", "done"}, NEW i \in Kept, NEW j \in Range(Seen(i))
               PROVE  st[j].up = st[i].path /\ Front(st[j].path) = st[i].path
    BY DEF ParentPath, TreeInv, Families
  <2>1. Families /\ Linked /\ Pathed /\ Upped /\ step \in {"parent", "wrap", "done"}
    BY DEF TreeInv
  <2>2. PICK k \in DOMAIN st[i].kids : j = st[i].kids[k]
    <3>1. PICK hi \in 0..Len(st[i].kids) : /\ DOMAIN Seen(i) = 1..hi
                                           /\ \A k \in 1..hi : Seen(i)[k] = st[i].kids[k]
      BY <2>1, SeenIs
    <3>2. PICK k \in 1..hi : j = Seen(i)[k]
      BY <3>1 DEF Range
    <3>3. DOMAIN st[i].kids = 1..Len(st[i].kids) /\ Len(st[i].kids) \in Nat
      BY <2>1, LenProperties DEF Families, Family
    <3>4. k \in 1..Len(st[i].kids)
      <4> DEFINE n == Len(st[i].kids)
      <4>1. n \in Nat /\ hi \in 0..n
        BY <3>3
      <4> HIDE DEF n
      <4>2. k \in 1..n
        BY <4>1
      <4> QED
        BY <4>2 DEF n
    <3> QED
      BY <3>1, <3>2, <3>3, <3>4
  <2>3. st[j].up = st[i].path
    BY <2>1, <2>2 DEF Upped
  <2>4. Front(st[j].path) = st[i].path
    <3> DEFINE n == k - 1
               e == [role |-> st[i].role, nth |-> n]
    <3>1. n \in Nat
      <4>1. k \in 1..Len(st[i].kids)
        BY <2>1, LenProperties DEF Families, Family
      <4> QED
        BY <4>1
    <3>2. st[j].path = Append(st[i].path, e)
      BY <2>1, <2>2 DEF Pathed, ChildPath
    <3> HIDE DEF n
    <3>3. e \in Steps
      BY <3>1 DEF Steps
    <3>4. st[i].path \in Seq(Steps)
      BY <2>1, PathTyped
    <3> HIDE DEF e
    <3> QED
      BY <3>2, <3>3, <3>4, FrontAppend
  <2> QED
    BY <2>3, <2>4
<1> QED
  BY <1>1, TreeInvariant, PTL

ShapeOf(shape, i) ==
    [role |-> st[i].role, list |-> st[i].list,
     kids |-> [k \in DOMAIN st[i].kids |-> shape[st[i].kids[k]]]]

Shaping(shape) == shape = [i \in DOMAIN st |-> ShapeOf(shape, i)]

\* The shape of an instance depends on those of later ones only.
LEMMA ShapeOfLater ==
    ASSUME Families, NEW f, NEW g, NEW i \in Kept, \A j \in Kept : i < j => f[j] = g[j]
    PROVE  ShapeOf(f, i) = ShapeOf(g, i)
<1>1. \A k \in DOMAIN st[i].kids : f[st[i].kids[k]] = g[st[i].kids[k]]
  BY ChildOf
<1> QED
  BY <1>1 DEF ShapeOf

\* So there are such shapes.
LEMMA ShapingExists ==
    ASSUME Families
    PROVE  \E f : Shaping(f)
<1> DEFINE n == Len(ax)
           R(g, m) == \A i \in Kept : n - m < i => g[i] = ShapeOf(g, i)
           T == {m \in Nat : m <= n => \E g : R(g, m)}
<1>1. n \in Nat /\ DOMAIN st = Kept /\ Kept \subseteq 1..n
  BY TreeParts, KeptIs DEF Families
<1>2. 0 \in T
  <2>1. R(0, 0)
    BY <1>1
  <2> HIDE DEF R
  <2> QED
    BY <2>1
<1>3. ASSUME NEW m \in Nat, m \in T PROVE m + 1 \in T
  <2> SUFFICES ASSUME m + 1 <= n PROVE \E g : R(g, m + 1)
    OBVIOUS
  <2>1. m <= n
    BY <1>1
  <2>2. PICK g : R(g, m)
    BY <1>3, <2>1
  <2> DEFINE h == [i \in Kept |-> IF i = n - m THEN ShapeOf(g, i) ELSE g[i]]
  <2>3. ASSUME NEW i \in Kept, n - (m + 1) < i PROVE h[i] = ShapeOf(h, i)
    <3>1. n - m <= i /\ n - m \in Int /\ i \in Int
      <4> HIDE DEF n, h
      <4> QED
        BY <1>1, <2>3
    <3>2. \A j \in Kept : i < j => g[j] = h[j]
      <4> SUFFICES ASSUME NEW j \in Kept, i < j PROVE j # n - m
        OBVIOUS
      <4>1. j \in Int
        BY <1>1
      <4> HIDE DEF n, h
      <4> QED
        BY <3>1, <4>1
    <3>3. ShapeOf(g, i) = ShapeOf(h, i)
      <4> HIDE DEF h
      <4> QED
        BY <3>2, ShapeOfLater
    <3>4. CASE i = n - m
      BY <3>3, <3>4
    <3>5. CASE i # n - m
      <4>1. n - m < i
        BY <3>1, <3>5
      <4>2. g[i] = ShapeOf(g, i)
        BY <2>2, <4>1
      <4> QED
        BY <3>3, <3>5, <4>2
    <3> QED
      BY <3>4, <3>5
  <2>4. R(h, m + 1)
    BY <2>3
  <2> HIDE DEF R, h
  <2> QED
    BY <2>4
<1>4. PICK g : R(g, n)
  <2>1. \A m \in Nat : m \in T
    <3> HIDE DEF T
    <3> QED
      BY <1>2, <1>3, Induct
  <2>2. n \in T /\ n <= n
    BY <1>1, <2>1
  <2> HIDE DEF R
  <2> QED
    BY <2>2
<1> DEFINE f == [i \in Kept |-> g[i]]
<1>5. ASSUME NEW i \in Kept PROVE f[i] = ShapeOf(f, i)
  <2>1. n - n < i
    BY <1>1
  <2>2. g[i] = ShapeOf(g, i)
    BY <1>4, <2>1
  <2>3. ShapeOf(g, i) = ShapeOf(f, i)
    <3>1. \A j \in Kept : i < j => g[j] = f[j]
      OBVIOUS
    <3> HIDE DEF f
    <3> QED
      BY <3>1, ShapeOfLater
  <2> QED
    BY <2>2, <2>3
<1>6. f = [i \in Kept |-> ShapeOf(f, i)]
  <2>1. f = [i \in Kept |-> f[i]]
    OBVIOUS
  <2> HIDE DEF f
  <2> QED
    BY <1>5, <2>1
<1> HIDE DEF f
<1> QED
  BY <1>1, <1>6 DEF Shaping

LEMMA ShapesIs ==
    ASSUME Families
    PROVE  \A i \in Kept : Shapes[i] = ShapeOf(Shapes, i)
<1>1. Shapes = CHOOSE f : Shaping(f)
  BY DEF Shapes, Shaping, ShapeOf
<1>2. Shaping(Shapes)
  BY <1>1, ShapingExists
<1> DEFINE g == [i \in Kept |-> ShapeOf(Shapes, i)]
<1>3. \A i \in Kept : g[i] = ShapeOf(Shapes, i)
  OBVIOUS
<1>4. Shapes = g
  BY <1>2 DEF Shaping, Families
<1> HIDE DEF g
<1> QED
  BY <1>3, <1>4

\* A structure hash tells the role and the children's hashes.
LEMMA HashApart ==
    ASSUME NEW r, NEW f, NEW q, NEW g, [role |-> r, of |-> f] = [role |-> q, of |-> g]
    PROVE  r = q /\ f = g
  OBVIOUS

\* Instances with one structure hash have one shape, from the leaves up: the
\* same role, the children's shapes pair by pair, and, as makeSynthetics sees
\* the children's hashes only, the same list made of them.
THEOREM HashesAreShapes == TreeSpec => []HashIsShape
<1>1. TreeInv => HashIsShape
  <2> SUFFICES ASSUME TreeInv, step # "shash"
               PROVE  \A a, b \in Kept : st[a].hash = st[b].hash => Shapes[a] = Shapes[b]
    BY DEF HashIsShape, TreeInv, Families
  <2>1. Families /\ Hashed /\ Linked
    BY DEF TreeInv
  <2> DEFINE n == Len(ax)
             T == {i \in 1..n : i \in Kept =>
                      \A j \in Kept : st[i].hash = st[j].hash => Shapes[i] = Shapes[j]}
  <2>2. n \in Nat /\ Kept \subseteq 1..n
    BY <2>1, TreeParts, KeptIs DEF Families
  <2>3. ASSUME NEW i \in 1..n, \A j \in 1..n : i < j => j \in T PROVE i \in T
    <3> SUFFICES ASSUME i \in Kept, NEW j \in Kept, st[i].hash = st[j].hash
                 PROVE  Shapes[i] = Shapes[j]
      OBVIOUS
    <3>0. st[i].hash = st[j].hash
      OBVIOUS
    <3>1. /\ st[i].role = st[j].role /\ DOMAIN st[i].kids = DOMAIN st[j].kids
          /\ \A k \in DOMAIN st[i].kids : st[st[i].kids[k]].hash = st[st[j].kids[k]].hash
      <4> DEFINE f == [k \in DOMAIN st[i].kids |-> st[st[i].kids[k]].hash]
                 g == [k \in DOMAIN st[j].kids |-> st[st[j].kids[k]].hash]
      <4>1. st[i].hash = [role |-> st[i].role, of |-> f] /\ st[j].hash = [role |-> st[j].role, of |-> g]
        BY <2>1 DEF Hashed
      <4>2. /\ DOMAIN f = DOMAIN st[i].kids /\ DOMAIN g = DOMAIN st[j].kids
            /\ \A k \in DOMAIN st[i].kids : f[k] = st[st[i].kids[k]].hash
            /\ \A k \in DOMAIN st[j].kids : g[k] = st[st[j].kids[k]].hash
        OBVIOUS
      <4> HIDE DEF f, g
      <4>3. [role |-> st[i].role, of |-> f] = [role |-> st[j].role, of |-> g]
        BY <3>0, <4>1
      <4>4. st[i].role = st[j].role /\ f = g
        BY <4>3, HashApart
      <4> QED
        BY <4>2, <4>4
    <3>2. ASSUME NEW k \in DOMAIN st[i].kids
          PROVE  Shapes[st[i].kids[k]] = Shapes[st[j].kids[k]]
      <4>1. /\ st[i].kids[k] \in Kept /\ i < st[i].kids[k]
            /\ st[j].kids[k] \in Kept
        BY <2>1, <3>1, ChildOf
      <4>2. st[i].kids[k] \in T
        BY <2>2, <2>3, <4>1
      <4> QED
        BY <3>1, <4>1, <4>2
    <3>3. st[i].list = st[j].list
      <4>1. CASE step = "done"
        <5>1. \A k \in DOMAIN st[i].kids : AllHash[st[i].kids[k]] = AllHash[st[j].kids[k]]
          <6> SUFFICES ASSUME NEW k \in DOMAIN st[i].kids
                       PROVE  AllHash[st[i].kids[k]] = AllHash[st[j].kids[k]]
            OBVIOUS
          <6>1. st[i].kids[k] \in Kept /\ st[j].kids[k] \in Kept
            BY <2>1, <3>1, ChildOf
          <6> QED
            BY <3>1, <6>1 DEF AllHash
        <5>2. Siblings(st[i].kids, AllHash) = Siblings(st[j].kids, AllHash)
          <6> DEFINE s == st[i].kids
                     t == st[j].kids
          <6>1. DOMAIN s = DOMAIN t /\ \A k \in DOMAIN s : AllHash[s[k]] = AllHash[t[k]]
            BY <3>1, <5>1
          <6> HIDE DEF T, n, s, t
          <6>2. Siblings(s, AllHash) = Siblings(t, AllHash)
            BY <6>1, SiblingsSame
          <6> QED
            BY <6>2 DEF s, t
        <5> QED
          BY <2>1, <4>1, <5>2 DEF Linked
      <4>2. CASE step # "done"
        <5>1. \A k \in DOMAIN st[i].kids : Unhashed[st[i].kids[k]] = Unhashed[st[j].kids[k]]
          <6> SUFFICES ASSUME NEW k \in DOMAIN st[i].kids
                       PROVE  Unhashed[st[i].kids[k]] = Unhashed[st[j].kids[k]]
            OBVIOUS
          <6>1. st[i].kids[k] \in Kept /\ st[j].kids[k] \in Kept
            BY <2>1, <3>1, ChildOf
          <6> QED
            BY <6>1 DEF Unhashed
        <5>2. Siblings(st[i].kids, Unhashed) = Siblings(st[j].kids, Unhashed)
          <6> DEFINE s == st[i].kids
                     t == st[j].kids
          <6>1. DOMAIN s = DOMAIN t /\ \A k \in DOMAIN s : Unhashed[s[k]] = Unhashed[t[k]]
            BY <3>1, <5>1
          <6> HIDE DEF T, n, s, t
          <6>2. Siblings(s, Unhashed) = Siblings(t, Unhashed)
            BY <6>1, SiblingsSame
          <6> QED
            BY <6>2 DEF s, t
        <5> QED
          BY <2>1, <4>2, <5>2 DEF Linked
      <4> QED
        BY <4>1, <4>2
    <3>4. ShapeOf(Shapes, i) = ShapeOf(Shapes, j)
      BY <3>1, <3>2, <3>3 DEF ShapeOf
    <3> QED
      BY <2>1, <3>4, ShapesIs
  <2>4. \A i \in 1..n : i \in T
    <3> HIDE DEF T
    <3> QED
      BY <2>2, <2>3, Descend
  <2> QED
    BY <2>2, <2>4
<1> QED
  BY <1>1, TreeInvariant, PTL
=============================================================================
