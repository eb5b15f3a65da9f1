-------------------------- MODULE InspectorProofs --------------------------
(***************************************************************************)
(* Proofs about Inspector, for pages of any size that change in any way    *)
(* and users who do anything: the panel's objects keep their types, what   *)
(* the panel knows of the page is what the program knows unless an update  *)
(* has overtaken an answer, and to a user who waits it shows the page.     *)
(***************************************************************************)
EXTENDS Inspector, FiniteSetTheorems, SequenceTheorems, TLAPS

-----------------------------------------------------------------------------
(* Induction, and loops.                                                   *)

\* A set of natural numbers has a least element.
LEMMA Least ==
    ASSUME NEW S \in SUBSET Nat, S # {}
    PROVE  \E n \in S : \A m \in S : n <= m
<1> DEFINE upto == {0..n : n \in S}
<1>1. upto \subseteq FiniteSubsetsOf(Nat) /\ upto # {}
  <2> SUFFICES ASSUME NEW n \in S PROVE 0..n \in SUBSET Nat /\ IsFiniteSet(0..n)
    BY DEF FiniteSubsetsOf
  <2> QED
    BY FS_Interval
<1>2. PICK x \in upto : \A y \in upto : ~ (<<y, x>> \in StrictSubsetOrdering(Nat))
  <2> HIDE DEF upto
  <2> QED
    BY <1>1, FS_StrictSubsetOrderingWellFounded, WFMin
<1>3. PICK n \in S : x = 0..n
  OBVIOUS
<1>4. ASSUME NEW m \in S, m < n PROVE FALSE
  <2>1. 0..m \in upto /\ 0..m \in SUBSET Nat /\ 0..n \in SUBSET Nat
    OBVIOUS
  <2>2. 0..m \subseteq 0..n /\ n \in 0..n /\ n \notin 0..m
    BY <1>4
  <2> QED
    BY <1>2, <1>3, <2>1, <2>2 DEF StrictSubsetOrdering
<1> QED
  BY <1>4

\* Induction on natural numbers.
LEMMA Induct ==
    ASSUME NEW S, 0 \in S, \A n \in Nat : n \in S => n + 1 \in S
    PROVE  \A n \in Nat : n \in S
<1> SUFFICES ASSUME NEW k \in Nat, k \notin S PROVE FALSE
  OBVIOUS
<1> DEFINE T == {n \in Nat : n \notin S}
<1>1. PICK n \in T : \A m \in T : n <= m
  <2> T \in SUBSET Nat /\ T # {}
    OBVIOUS
  <2> QED
    BY Least
<1>2. n - 1 \in Nat /\ n - 1 \in S
  BY <1>1
<1> QED
  BY <1>1, <1>2

Ran(f, base, step, k) == f[0] = base /\ \A i \in 1..k : f[i] = step[i][f[i - 1]]

\* What a loop makes of a value, step by step, and that it stays in a set.
LEMMA Run ==
    ASSUME NEW n \in Nat, NEW X, NEW base \in X, NEW step \in [1..n -> [X -> X]]
    PROVE  \E f \in [0..n -> X] : Ran(f, base, step, n)
<1> DEFINE T == {k \in Nat : k <= n => \E f \in [0..k -> X] : Ran(f, base, step, k)}
<1>1. 0 \in T
  <2> DEFINE f == [i \in 0..0 |-> base]
  <2>1. f \in [0..0 -> X] /\ Ran(f, base, step, 0)
    BY DEF Ran
  <2> HIDE DEF f
  <2> QED
    BY <2>1
<1>2. ASSUME NEW k \in Nat, k \in T PROVE k + 1 \in T
  <2> SUFFICES ASSUME k + 1 <= n PROVE \E f \in [0..(k + 1) -> X] : Ran(f, base, step, k + 1)
    OBVIOUS
  <2>1. k <= n /\ k + 1 \in 1..n
    OBVIOUS
  <2>2. PICK g \in [0..k -> X] : Ran(g, base, step, k)
    BY <1>2, <2>1
  <2> DEFINE f == [i \in 0..(k + 1) |-> IF i = k + 1 THEN step[k + 1][g[k]] ELSE g[i]]
  <2>3. step[k + 1][g[k]] \in X
    <3>1. step[k + 1] \in [X -> X] /\ g[k] \in X
      BY <2>1, <2>2
    <3> QED
      BY <3>1
  <2>4. f \in [0..(k + 1) -> X]
    BY <2>2, <2>3
  <2>5. f[0] = base
    BY <2>2 DEF Ran
  <2>6. ASSUME NEW i \in 1..(k + 1) PROVE f[i] = step[i][f[i - 1]]
    <3>1. CASE i = k + 1
      <4>1. f[k + 1] = step[k + 1][g[k]] /\ f[(k + 1) - 1] = g[k]
        OBVIOUS
      <4> HIDE DEF f
      <4> QED
        BY <3>1, <4>1
    <3>2. CASE i # k + 1
      <4>1. i \in 1..k /\ f[i] = g[i] /\ f[i - 1] = g[i - 1]
        BY <3>2
      <4>2. g[i] = step[i][g[i - 1]]
        BY <2>2, <4>1 DEF Ran
      <4> HIDE DEF f
      <4> QED
        BY <4>1, <4>2
    <3> QED
      BY <3>1, <3>2
  <2> HIDE DEF f
  <2> QED
    BY <2>4, <2>5, <2>6 DEF Ran
<1>3. \A k \in Nat : k \in T
  <2> HIDE DEF T
  <2> QED
    BY <1>1, <1>2, Induct
<1> QED
  BY <1>3

\* A loop that has been run stays in the set.
LEMMA Stays ==
    ASSUME NEW n \in Nat, NEW X, NEW f, f[0] \in X,
           \A i \in 1..n : f[i - 1] \in X => f[i] \in X
    PROVE  f[n] \in X
<1> DEFINE T == {k \in Nat : k <= n => f[k] \in X}
<1>1. ASSUME NEW k \in Nat, k \in T PROVE k + 1 \in T
  <2> SUFFICES ASSUME k + 1 <= n PROVE f[k + 1] \in X
    OBVIOUS
  <2>1. k + 1 \in 1..n /\ (k + 1) - 1 = k /\ f[k] \in X
    BY <1>1
  <2> QED
    BY <2>1
<1>2. \A k \in Nat : k \in T
  <2>1. 0 \in T
    OBVIOUS
  <2> HIDE DEF T
  <2> QED
    BY <1>1, <2>1, Induct
<1> QED
  BY <1>2

Flattens(f, ss) == /\ f[0] = <<>> /\ f[Len(ss)] = FlattenSeq(ss)
                   /\ \A i \in 1..Len(ss) : f[i] = f[i - 1] \o ss[i]

\* FlattenSeq appends one list after the other.
LEMMA FlattenRun ==
    ASSUME NEW S, NEW ss \in Seq(Seq(S))
    PROVE  \E f \in [0..Len(ss) -> Seq(S)] : Flattens(f, ss)
<1> DEFINE n == Len(ss)
           P(f) == f = [i \in 1..n |-> IF i = 1 THEN ss[i] ELSE f[i - 1] \o ss[i]]
           g == CHOOSE f : P(f)
           step == [i \in 1..n |-> [s \in Seq(S) |-> IF i = 1 THEN ss[i] ELSE s \o ss[i]]]
<1>1. n \in Nat /\ \A i \in 1..n : ss[i] \in Seq(S)
  BY LenProperties, ElementOfSeq
<1>2. CASE n = 0
  <2> DEFINE f == [i \in 0..0 |-> <<>>]
  <2>1. FlattenSeq(ss) = <<>> /\ <<>> \in Seq(S)
    BY <1>2, EmptySeq DEF FlattenSeq
  <2>2. f \in [0..Len(ss) -> Seq(S)] /\ Flattens(f, ss)
    BY <1>2, <2>1 DEF Flattens
  <2> HIDE DEF f
  <2> QED
    BY <2>2
<1>3. CASE n # 0
  <2>1. FlattenSeq(ss) = g[n]
    BY <1>3 DEF FlattenSeq
  <2>2. \E f : P(f)
    <3>1. step \in [1..n -> [Seq(S) -> Seq(S)]]
      <4>1. ASSUME NEW i \in 1..n, NEW s \in Seq(S)
            PROVE  (IF i = 1 THEN ss[i] ELSE s \o ss[i]) \in Seq(S)
        BY <1>1, ConcatProperties
      <4> QED
        BY <4>1
    <3>2. <<>> \in Seq(S)
      BY EmptySeq
    <3>3. PICK f \in [0..n -> Seq(S)] : Ran(f, <<>>, step, n)
      <4> HIDE DEF step, n
      <4> QED
        BY <1>1, <3>1, <3>2, Run
    <3> DEFINE h == [i \in 1..n |-> f[i]]
    <3>4. ASSUME NEW i \in 1..n PROVE h[i] = IF i = 1 THEN ss[i] ELSE h[i - 1] \o ss[i]
      <4>1. f[i - 1] \in Seq(S)
        <5> i - 1 \in 0..n
          BY <1>1
        <5> QED
          BY <3>3
      <4>. f[i] = step[i][f[i - 1]]
        <5> HIDE DEF step
        <5> QED
          BY <3>3 DEF Ran
      <4>2. f[i] = IF i = 1 THEN ss[i] ELSE f[i - 1] \o ss[i]
        BY <4>1
      <4>3. i # 1 => h[i - 1] = f[i - 1]
        BY <1>1
      <4>4. h[i] = f[i]
        OBVIOUS
      <4> HIDE DEF h, step
      <4> QED
        BY <4>2, <4>3, <4>4
    <3>5. P(h)
      <4>1. h = [i \in 1..n |-> h[i]]
        OBVIOUS
      <4> HIDE DEF h
      <4> QED
        BY <3>4, <4>1
    <3> HIDE DEF P, h
    <3> QED
      BY <3>5
  <2>3. P(g)
    <3> HIDE DEF P
    <3> QED
      BY <2>2
  <2>4. \A i \in 1..n : g[i] = IF i = 1 THEN ss[i] ELSE g[i - 1] \o ss[i]
    <3> HIDE DEF g
    <3> QED
      BY <2>3
  <2> DEFINE h == [i \in 0..n |-> IF i = 0 THEN <<>> ELSE g[i]]
  <2>5. h[0] = <<>> /\ h[n] = g[n]
    BY <1>1, <1>3
  <2>6. ASSUME NEW i \in 1..n, h[i - 1] \in Seq(S) PROVE h[i] = h[i - 1] \o ss[i] /\ h[i] \in Seq(S)
    <3>1. IF i = 1 THEN h[i - 1] = <<>> ELSE h[i - 1] = g[i - 1]
      BY <1>1
    <3>2. h[i] = g[i]
      BY <1>1
    <3>3. ss[i] \in Seq(S)
      BY <1>1
    <3>4. g[i] = IF i = 1 THEN ss[i] ELSE g[i - 1] \o ss[i]
      BY <2>4
    <3>5. <<>> \o ss[i] = ss[i]
      BY <3>3, ConcatEmptySeq
    <3>6. h[i - 1] \o ss[i] \in Seq(S)
      BY <2>6, <3>3, ConcatProperties
    <3> HIDE DEF h, g
    <3> QED
      BY <3>1, <3>2, <3>4, <3>5, <3>6
  <2>7. ASSUME NEW k \in 0..n PROVE h[k] \in Seq(S)
    <3>1. h[0] \in Seq(S)
      BY <2>5, EmptySeq
    <3>2. k \in Nat /\ \A i \in 1..k : i \in 1..n
      BY <1>1
    <3> HIDE DEF h, g, n
    <3> QED
      BY <2>6, <3>1, <3>2, Stays
  <2>8. h \in [0..n -> Seq(S)]
    <3>1. h = [i \in 0..n |-> h[i]]
      OBVIOUS
    <3> HIDE DEF h, g, n
    <3> QED
      BY <2>7, <3>1
  <2>9. \A i \in 1..n : h[i] = h[i - 1] \o ss[i]
    <3> SUFFICES ASSUME NEW i \in 1..n PROVE h[i] = h[i - 1] \o ss[i]
      OBVIOUS
    <3> i - 1 \in 0..n
      BY <1>1
    <3> HIDE DEF h, g, n
    <3> QED
      BY <2>6, <2>7
  <2>10. h[0] = <<>> /\ h[n] = FlattenSeq(ss)
    BY <2>1, <2>5
  <2> HIDE DEF h, g
  <2>11. Flattens(h, ss)
    BY <2>9, <2>10 DEF Flattens
  <2> QED
    BY <2>8, <2>11
<1> QED
  BY <1>2, <1>3

\* What FlattenSeq makes of lists is a list.
LEMMA FlattenType ==
    ASSUME NEW S, NEW ss \in Seq(Seq(S))
    PROVE  FlattenSeq(ss) \in Seq(S)
<1>1. PICK f \in [0..Len(ss) -> Seq(S)] : Flattens(f, ss)
  BY FlattenRun
<1>2. Len(ss) \in 0..Len(ss)
  BY LenProperties
<1> QED
  BY <1>1, <1>2 DEF Flattens
-----------------------------------------------------------------------------
(* The panel's lists.                                                      *)

\* A list without the first occurrence of a value is a list.
LEMMA RemoveFirstType ==
    ASSUME NEW S, NEW s \in Seq(S), NEW e
    PROVE  RemoveFirst(s, e) \in Seq(S)
<1> DEFINE I == {i \in 1..Len(s) : s[i] = e}
<1>1. CASE I = {}
  <2> QED
    BY <1>1 DEF RemoveFirst
<1>2. CASE I # {}
  <2>1. PICK i \in I : \A j \in I : i <= j
    <3> I \in SUBSET Nat
      OBVIOUS
    <3> HIDE DEF I
    <3> QED
      BY <1>2, Least
  <2>2. Min(I) \in 1..Len(s)
    BY <2>1 DEF Min
  <2>3. RemoveFirst(s, e) = SubSeq(s, 1, Min(I) - 1) \o SubSeq(s, Min(I) + 1, Len(s))
    BY <1>2 DEF RemoveFirst, RemoveAt, SelectInSeq
  <2>4. Len(s) \in Nat
    BY LenProperties
  <2> HIDE DEF I
  <2>5. SubSeq(s, 1, Min(I) - 1) \in Seq(S) /\ SubSeq(s, Min(I) + 1, Len(s)) \in Seq(S)
    BY <2>2, <2>4, SubSeqProperties
  <2> QED
    BY <2>3, <2>5, ConcatProperties
<1> QED
  BY <1>1, <1>2

\* The elements of a list are of its type.
LEMMA RangeType ==
    ASSUME NEW S, NEW s \in Seq(S)
    PROVE  Range(s) \subseteq S /\ DOMAIN s = 1..Len(s) /\ Len(s) \in Nat
<1>1. s \in [1..Len(s) -> S] /\ Len(s) \in Nat
  BY LenProperties
<1> QED
  BY <1>1 DEF Range

Ids == UNION {DOMAIN d : d \in Docs}
Few == {s \in SUBSET Ids : \A a, b \in s : a = b}   \* a node, or none
AllInfos == [id : Ids, parent : Few, kids : Seq(Ids)]
Objects  == [id : Ids, parent : Few, kids : Seq(Ids), box : Seq(Nat)]
Info(o)  == [id |-> o.id, parent |-> o.parent, kids |-> o.kids]

Shapes == [objs : Seq(Objects), map : UNION {[T -> Nat] : T \in SUBSET Ids},
           top : Seq(Nat), threw : BOOLEAN]

\* What a handler may have made of the panel, if all that Tree.nodes leads to was
\* made of some infos.
Doms(F) ==
    {d \in Shapes :
        /\ \A n \in DOMAIN d.objs : d.objs[n].box \in Seq(DOMAIN d.objs)
        /\ d.top \in Seq(DOMAIN d.objs)
        /\ \A id \in DOMAIN d.map :
              /\ d.map[id] \in DOMAIN d.objs
              /\ d.objs[d.map[id]].id = id /\ Info(d.objs[d.map[id]]) \in F}

\* An exception changes nothing else.
LEMMA ThrowType ==
    ASSUME NEW F, NEW d \in Doms(F)
    PROVE  Throw(d) \in Doms(F)
BY DEF Throw, Doms, Shapes

\* Nor does another content of Tree.root.
LEMMA TopType ==
    ASSUME NEW F, NEW d \in Doms(F), NEW t \in Seq(DOMAIN d.objs)
    PROVE  [d EXCEPT !.top = t] \in Doms(F)
<1>1. DOMAIN d.objs \subseteq Nat
  <2> d.objs \in Seq(Objects)
    BY DEF Doms, Shapes
  <2> QED
    BY RangeType
<1>2. t \in Seq(Nat)
  BY <1>1, SeqMonotonic
<1> QED
  BY <1>2 DEF Doms, Shapes

\* Nor does another content of a container.
LEMMA BoxType ==
    ASSUME NEW F, NEW d \in Doms(F), NEW m \in DOMAIN d.objs, NEW b \in Seq(DOMAIN d.objs)
    PROVE  [d EXCEPT !.objs = [d.objs EXCEPT ![m].box = b]] \in Doms(F)
<1> DEFINE os == [d.objs EXCEPT ![m].box = b]
           e  == [d EXCEPT !.objs = os]
<1>1. /\ d.objs \in Seq(Objects) /\ d.map \in UNION {[T -> Nat] : T \in SUBSET Ids}
      /\ d.top \in Seq(Nat) /\ d.threw \in BOOLEAN /\ d \in Shapes
  BY DEF Doms, Shapes
<1>2. DOMAIN d.objs = 1..Len(d.objs) /\ Len(d.objs) \in Nat
  BY <1>1, RangeType
<1>3. b \in Seq(Nat)
  <2> DOMAIN d.objs \subseteq Nat
    BY <1>2
  <2> QED
    BY SeqMonotonic
<1>4. \A n \in DOMAIN d.objs : d.objs[n] \in Objects
  BY <1>1, <1>2, ElementOfSeq
<1>5. DOMAIN os = DOMAIN d.objs
  OBVIOUS
<1>6. ASSUME NEW n \in DOMAIN d.objs
      PROVE  /\ os[n] \in Objects /\ Info(os[n]) = Info(d.objs[n])
             /\ os[n].box = IF n = m THEN b ELSE d.objs[n].box
  <2>1. d.objs[n] \in Objects
    BY <1>4
  <2>2. os[n] = IF n = m THEN [d.objs[n] EXCEPT !.box = b] ELSE d.objs[n]
    OBVIOUS
  <2> HIDE DEF os
  <2>3. CASE n # m
    BY <2>1, <2>2, <2>3
  <2>4. CASE n = m
    <3>1. os[n] = [d.objs[n] EXCEPT !.box = b]
      BY <2>2, <2>4
    <3> QED
      BY <2>1, <2>4, <3>1, <1>3 DEF Objects, Info
  <2> QED
    BY <2>3, <2>4
<1>7. os \in Seq(Objects)
  <2> os \in [1..Len(d.objs) -> Objects]
    <3>1. os = [n \in DOMAIN d.objs |-> os[n]]
      OBVIOUS
    <3> HIDE DEF os
    <3> QED
      BY <1>2, <1>6, <3>1
  <2> HIDE DEF os
  <2> QED
    BY <1>2, SeqDef
<1>8. /\ e \in Shapes /\ e.objs = os /\ e.map = d.map /\ e.top = d.top
  <2>1. e = [objs |-> os, map |-> d.map, top |-> d.top, threw |-> d.threw]
    <3>1. PICK a, b1, c, t : d = [objs |-> a, map |-> b1, top |-> c, threw |-> t]
      BY <1>1 DEF Shapes
    <3> HIDE DEF os
    <3> QED
      BY <3>1
  <2> HIDE DEF e, os
  <2> QED
    BY <1>1, <1>7, <2>1 DEF Shapes
<1> HIDE DEF e, os
<1>9. \A n \in DOMAIN os : os[n].box \in Seq(DOMAIN os)
  BY <1>5, <1>6 DEF Doms
<1>10. ASSUME NEW id \in DOMAIN d.map
       PROVE  d.map[id] \in DOMAIN os /\ os[d.map[id]].id = id /\ Info(os[d.map[id]]) \in F
  <2>1. d.map[id] \in DOMAIN d.objs /\ d.objs[d.map[id]].id = id /\ Info(d.objs[d.map[id]]) \in F
    BY DEF Doms
  <2>2. Info(os[d.map[id]]) = Info(d.objs[d.map[id]])
    BY <1>6, <2>1
  <2>3. os[d.map[id]].id = d.objs[d.map[id]].id
    BY <2>2 DEF Info
  <2> QED
    BY <1>5, <2>1, <2>2, <2>3
<1>11. d.top \in Seq(DOMAIN os)
  BY <1>5 DEF Doms
<1> QED
  <2> e \in Doms(F)
    BY <1>8, <1>9, <1>10, <1>11 DEF Doms
  <2> QED
    BY DEF e, os
-----------------------------------------------------------------------------
(* What Tree.add and TreeNode.detach make of the panel.                    *)

Made(d, info) ==
    [d EXCEPT !.objs = Append(@, [id |-> info.id, parent |-> info.parent,
                                  kids |-> info.kids, box |-> <<>>]),
              !.map = [id \in DOMAIN @ \cup {info.id} |->
                          IF id = info.id THEN Len(d.objs) + 1 ELSE @[id]]]

\* The new object, which Tree.nodes has for its id, and all that was there before.
LEMMA MadeType ==
    ASSUME NEW F \in SUBSET AllInfos, NEW d \in Doms(F), NEW info \in F
    PROVE  /\ Made(d, info) \in Doms(F)
           /\ Made(d, info).top = d.top /\ Made(d, info).threw = d.threw
           /\ DOMAIN Made(d, info).objs = 1..(Len(d.objs) + 1) /\ Len(d.objs) \in Nat
           /\ LET o == Made(d, info).objs[Len(d.objs) + 1]
              IN  Info(o) = info /\ o.parent = info.parent /\ o.box = <<>>
           /\ \A i \in 1..Len(d.objs) : Made(d, info).objs[i] = d.objs[i]
           /\ DOMAIN Made(d, info).map = DOMAIN d.map \cup {info.id}
           /\ Made(d, info).map[info.id] = Len(d.objs) + 1
           /\ \A id \in DOMAIN d.map : id # info.id => Made(d, info).map[id] = d.map[id]
<1> DEFINE n  == Len(d.objs) + 1
           o  == [id |-> info.id, parent |-> info.parent, kids |-> info.kids, box |-> <<>>]
           os == Append(d.objs, o)
           mp == [id \in DOMAIN d.map \cup {info.id} |-> IF id = info.id THEN n ELSE d.map[id]]
           e  == [objs |-> os, map |-> mp, top |-> d.top, threw |-> d.threw]
<1>1. /\ d.objs \in Seq(Objects) /\ d.map \in UNION {[T -> Nat] : T \in SUBSET Ids}
      /\ d.top \in Seq(Nat) /\ d.threw \in BOOLEAN /\ d \in Shapes
  BY DEF Doms, Shapes
<1>2. DOMAIN d.objs = 1..Len(d.objs) /\ Len(d.objs) \in Nat
  BY <1>1, RangeType
<1>3. Made(d, info) = e
  <2>1. PICK a, b, c, t : d = [objs |-> a, map |-> b, top |-> c, threw |-> t]
    BY <1>1 DEF Shapes
  <2>2. Made(d, info) = [d EXCEPT !.objs = os, !.map = mp]
    BY DEF Made
  <2> HIDE DEF os, mp
  <2> QED
    BY <2>1, <2>2
<1>4. info \in AllInfos
  OBVIOUS
<1>5. o \in Objects /\ Info(o) = info
  BY <1>4, EmptySeq DEF Objects, AllInfos, Info
<1> HIDE DEF o
<1>6. /\ os \in Seq(Objects) /\ DOMAIN os = 1..n
      /\ os[n] = o /\ \A i \in 1..Len(d.objs) : os[i] = d.objs[i]
  <2>1. os \in Seq(Objects) /\ Len(os) = n /\ os[n] = o /\ \A i \in 1..Len(d.objs) : os[i] = d.objs[i]
    BY <1>1, <1>5, AppendProperties
  <2> HIDE DEF os
  <2> QED
    BY <2>1, LenProperties
<1> HIDE DEF os
<1>7. PICK T \in SUBSET Ids : d.map \in [T -> Nat]
  BY <1>1
<1>8. mp \in [T \cup {info.id} -> Nat] /\ T \cup {info.id} \in SUBSET Ids
  <2>1. info.id \in Ids
    BY <1>4 DEF AllInfos
  <2> QED
    BY <1>2, <1>7, <2>1
<1>9. e \in Shapes
  <2>1. mp \in UNION {[U -> Nat] : U \in SUBSET Ids}
    BY <1>8
  <2> HIDE DEF mp
  <2> QED
    BY <1>1, <1>6, <2>1 DEF Shapes
<1>10. DOMAIN d.objs \subseteq DOMAIN os
  BY <1>2, <1>6
<1>11. ASSUME NEW i \in DOMAIN os PROVE os[i].box \in Seq(DOMAIN os)
  <2>1. CASE i = n
    <3>1. os[i].box = <<>>
      BY <1>6, <2>1 DEF o
    <3> QED
      BY <3>1, EmptySeq
  <2>2. CASE i # n
    <3>1. i \in DOMAIN d.objs
      BY <1>2, <1>6, <2>2
    <3>2. os[i] = d.objs[i]
      BY <1>2, <1>6, <3>1
    <3>3. d.objs[i].box \in Seq(DOMAIN d.objs)
      BY <3>1 DEF Doms
    <3> QED
      BY <1>10, <3>2, <3>3, SeqMonotonic
  <2> QED
    BY <2>1, <2>2
<1>12. d.top \in Seq(DOMAIN os)
  <2> d.top \in Seq(DOMAIN d.objs)
    BY DEF Doms
  <2> QED
    BY <1>10, SeqMonotonic
<1>13. ASSUME NEW id \in DOMAIN mp
       PROVE  mp[id] \in DOMAIN os /\ os[mp[id]].id = id /\ Info(os[mp[id]]) \in F
  <2>1. CASE id = info.id
    <3>1. mp[id] = n /\ n \in DOMAIN os
      BY <1>2, <1>6, <2>1
    <3>2. os[mp[id]] = o
      BY <1>6, <3>1
    <3>3. o.id = info.id
      BY DEF o
    <3> QED
      BY <1>5, <2>1, <3>1, <3>2, <3>3
  <2>2. CASE id # info.id
    <3>1. id \in DOMAIN d.map /\ mp[id] = d.map[id]
      BY <2>2
    <3>2. d.map[id] \in DOMAIN d.objs /\ d.objs[d.map[id]].id = id /\ Info(d.objs[d.map[id]]) \in F
      BY <3>1 DEF Doms
    <3>3. os[d.map[id]] = d.objs[d.map[id]]
      BY <1>2, <1>6, <3>2
    <3> QED
      BY <1>10, <3>1, <3>2, <3>3
  <2> QED
    BY <2>1, <2>2
<1>14. e \in Doms(F)
  <2> HIDE DEF mp
  <2>1. e.objs = os /\ e.map = mp /\ e.top = d.top
    OBVIOUS
  <2> HIDE DEF e
  <2> QED
    BY <1>9, <1>11, <1>12, <1>13, <2>1 DEF Doms
<1>15. Info(os[n]) = info /\ os[n].parent = info.parent /\ os[n].box = <<>>
  <2> o.parent = info.parent /\ o.box = <<>>
    BY DEF o
  <2> QED
    BY <1>5, <1>6
<1>16. /\ Made(d, info).objs = os /\ Made(d, info).map = mp
       /\ Made(d, info).top = d.top /\ Made(d, info).threw = d.threw
  <2> HIDE DEF mp
  <2> QED
    BY <1>3
<1>17. /\ DOMAIN mp = DOMAIN d.map \cup {info.id} /\ mp[info.id] = n
       /\ \A id \in DOMAIN d.map : id # info.id => mp[id] = d.map[id]
  OBVIOUS
<1>18. Made(d, info) \in Doms(F)
  BY <1>3, <1>14
<1> HIDE DEF mp, e
<1> QED
  BY <1>2, <1>6, <1>15, <1>16, <1>17, <1>18

\* An object that has its parent in Tree.nodes belongs into an object's container.
LEMMA OwnerType ==
    ASSUME NEW F, NEW d \in Doms(F), NEW n \in DOMAIN d.objs, ~NoParent(d, n), ~Unknown(d, n)
    PROVE  Owner(d, n) \in DOMAIN d.objs
<1>1. d.objs \in Seq(Objects)
  BY DEF Doms, Shapes
<1>2. d.objs[n] \in Objects
  <2> n \in 1..Len(d.objs)
    BY <1>1, RangeType
  <2> QED
    BY <1>1, ElementOfSeq
<1>3. d.objs[n].parent \in Few
  BY <1>2 DEF Objects
<1>4. (CHOOSE p \in d.objs[n].parent : TRUE) \in DOMAIN d.map
  <2>1. PICK p \in d.objs[n].parent : p \in DOMAIN d.map
    BY DEF NoParent, Unknown
  <2> QED
    BY <1>3, <2>1 DEF Few
<1> QED
  BY <1>4 DEF Owner, Doms

\* An element that has been added keeps the panel's types.
LEMMA AddType ==
    ASSUME NEW F \in SUBSET AllInfos, NEW d \in Doms(F), NEW info \in F
    PROVE  add(d, info) \in Doms(F)
<1> DEFINE n == Len(d.objs) + 1
           made == Made(d, info)
<1>1. /\ made \in Doms(F) /\ made.top = d.top
      /\ DOMAIN made.objs = 1..n /\ n \in DOMAIN made.objs /\ Len(d.objs) \in Nat
  BY MadeType
<1>2. add(d, info) =
        IF d.threw THEN d
        ELSE CASE NoParent(made, n) -> [made EXCEPT !.top = Append(@, n)]
               [] Unknown(made, n)  -> Throw(made)
               [] OTHER             -> [made EXCEPT !.objs[Owner(made, n)].box = Append(@, n)]
  BY DEF add, Made
<1> HIDE DEF made
<1>3. [made EXCEPT !.top = Append(@, n)] \in Doms(F)
  <2>1. Append(made.top, n) \in Seq(DOMAIN made.objs)
    <3> made.top \in Seq(DOMAIN made.objs)
      BY <1>1 DEF Doms
    <3> QED
      BY <1>1, AppendProperties
  <2>2. [made EXCEPT !.top = Append(made.top, n)] \in Doms(F)
    BY <1>1, <2>1, TopType
  <2> QED
    BY <1>1, <2>2 DEF Doms, Shapes
<1>4. Throw(made) \in Doms(F)
  BY <1>1, ThrowType
<1>5. ASSUME ~NoParent(made, n), ~Unknown(made, n)
      PROVE  [made EXCEPT !.objs[Owner(made, n)].box = Append(@, n)] \in Doms(F)
  <2> DEFINE m == Owner(made, n)
  <2>1. m \in DOMAIN made.objs
    BY <1>1, <1>5, OwnerType
  <2> HIDE DEF m
  <2>2. Append(made.objs[m].box, n) \in Seq(DOMAIN made.objs)
    <3> made.objs[m].box \in Seq(DOMAIN made.objs)
      BY <1>1, <2>1 DEF Doms
    <3> QED
      BY <1>1, AppendProperties
  <2>3. [made EXCEPT !.objs = [made.objs EXCEPT ![m].box = Append(made.objs[m].box, n)]] \in Doms(F)
    BY <1>1, <2>1, <2>2, BoxType
  <2>4. [made EXCEPT !.objs[m].box = Append(@, n)]
        = [made EXCEPT !.objs = [made.objs EXCEPT ![m].box = Append(made.objs[m].box, n)]]
    OBVIOUS
  <2> QED
    BY <2>3, <2>4 DEF m
<1> QED
  <2>1. CASE d.threw
    BY <1>2, <2>1
  <2>2. CASE ~d.threw /\ NoParent(made, n)
    BY <1>2, <1>3, <2>2 DEF NoParent, Unknown
  <2>3. CASE ~d.threw /\ ~NoParent(made, n) /\ Unknown(made, n)
    BY <1>2, <1>4, <2>3
  <2>4. CASE ~d.threw /\ ~NoParent(made, n) /\ ~Unknown(made, n)
    BY <1>2, <1>5, <2>4
  <2> QED
    BY <2>1, <2>2, <2>3, <2>4

\* So does one that has been detached.
LEMMA DetachType ==
    ASSUME NEW F, NEW d \in Doms(F), NEW id
    PROVE  detach(d, id) \in Doms(F)
<1> DEFINE n == d.map[id]
<1>1. detach(d, id) =
        IF d.threw \/ id \notin DOMAIN d.map THEN d
        ELSE CASE NoParent(d, n) /\ n \in Range(d.top) -> [d EXCEPT !.top = RemoveFirst(@, n)]
               [] ~NoParent(d, n) /\ ~Unknown(d, n) /\ n \in Range(d.objs[Owner(d, n)].box) ->
                      [d EXCEPT !.objs[Owner(d, n)].box = RemoveFirst(@, n)]
               [] OTHER -> Throw(d)
  BY DEF detach
<1>2. id \in DOMAIN d.map => n \in DOMAIN d.objs
  BY DEF Doms
<1> HIDE DEF n
<1>3. [d EXCEPT !.top = RemoveFirst(@, n)] \in Doms(F)
  <2>1. RemoveFirst(d.top, n) \in Seq(DOMAIN d.objs)
    BY RemoveFirstType DEF Doms
  <2>2. [d EXCEPT !.top = RemoveFirst(d.top, n)] \in Doms(F)
    BY <2>1, TopType
  <2> QED
    BY <2>2 DEF Doms, Shapes
<1>4. ASSUME id \in DOMAIN d.map, ~NoParent(d, n), ~Unknown(d, n)
      PROVE  [d EXCEPT !.objs[Owner(d, n)].box = RemoveFirst(@, n)] \in Doms(F)
  <2> DEFINE m == Owner(d, n)
  <2>1. m \in DOMAIN d.objs
    BY <1>2, <1>4, OwnerType
  <2> HIDE DEF m
  <2>2. RemoveFirst(d.objs[m].box, n) \in Seq(DOMAIN d.objs)
    <3> d.objs[m].box \in Seq(DOMAIN d.objs)
      BY <2>1 DEF Doms
    <3> QED
      BY RemoveFirstType
  <2>3. [d EXCEPT !.objs = [d.objs EXCEPT ![m].box = RemoveFirst(d.objs[m].box, n)]] \in Doms(F)
    BY <2>1, <2>2, BoxType
  <2>4. [d EXCEPT !.objs[m].box = RemoveFirst(@, n)]
        = [d EXCEPT !.objs = [d.objs EXCEPT ![m].box = RemoveFirst(d.objs[m].box, n)]]
    OBVIOUS
  <2> QED
    BY <2>3, <2>4 DEF m
<1>5. Throw(d) \in Doms(F)
  BY ThrowType
<1> DEFINE inTop == NoParent(d, n) /\ n \in Range(d.top)
           inBox == ~NoParent(d, n) /\ ~Unknown(d, n) /\ n \in Range(d.objs[Owner(d, n)].box)
<1> QED
  <2>1. CASE d.threw \/ id \notin DOMAIN d.map
    BY <1>1, <2>1
  <2>2. CASE ~ (d.threw \/ id \notin DOMAIN d.map) /\ inTop
    BY <1>1, <1>3, <2>2
  <2>3. CASE ~ (d.threw \/ id \notin DOMAIN d.map) /\ inBox
    BY <1>1, <1>4, <2>3
  <2>4. CASE ~ (d.threw \/ id \notin DOMAIN d.map) /\ ~inTop /\ ~inBox
    BY <1>1, <1>5, <2>4
  <2> QED
    BY <2>1, <2>2, <2>3, <2>4

Adds(f, d, infos) == /\ f[0] = d /\ f[Len(infos)] = Added(d, infos)
                     /\ \A i \in 1..Len(infos) : f[i] = add(f[i - 1], infos[i])

\* A handler's loop over the infos of an answer adds one after the other.
LEMMA AddedRun ==
    ASSUME NEW F \in SUBSET AllInfos, NEW d \in Doms(F), NEW infos \in Seq(F)
    PROVE  \E f : Adds(f, d, infos)
<1> DEFINE n == Len(infos)
           P(f) == f = [i \in 0..n |-> IF i = 0 THEN d ELSE add(f[i - 1], infos[i])]
           g == CHOOSE f : P(f)
           step == [i \in 1..n |-> [e \in Doms(F) |-> add(e, infos[i])]]
<1>1. n \in Nat /\ \A i \in 1..n : infos[i] \in F
  BY LenProperties, ElementOfSeq
<1>2. Added(d, infos) = g[n]
  BY DEF Added
<1>3. \E f : P(f)
  <2>1. step \in [1..n -> [Doms(F) -> Doms(F)]]
    BY <1>1, AddType
  <2>2. PICK f \in [0..n -> Doms(F)] : Ran(f, d, step, n)
    <3> HIDE DEF step, n
    <3> QED
      BY <1>1, <2>1, Run
  <2>3. f[0] = d
    BY <2>2 DEF Ran
  <2>4. ASSUME NEW i \in 1..n PROVE f[i] = add(f[i - 1], infos[i])
    <3>1. f[i - 1] \in Doms(F)
      <4> i - 1 \in 0..n
        BY <1>1
      <4> QED
        BY <2>2
    <3>2. f[i] = step[i][f[i - 1]]
      <4> HIDE DEF step
      <4> QED
        BY <2>2 DEF Ran
    <3> QED
      BY <3>1, <3>2
  <2>5. P(f)
    <3>1. f = [i \in 0..n |-> f[i]]
      BY <2>2
    <3>2. ASSUME NEW i \in 0..n PROVE f[i] = IF i = 0 THEN d ELSE add(f[i - 1], infos[i])
      <4> i = 0 \/ i \in 1..n
        BY <1>1
      <4> QED
        BY <2>3, <2>4
    <3> HIDE DEF n, step
    <3> QED
      BY <3>1, <3>2
  <2> HIDE DEF P
  <2> QED
    BY <2>5
<1>4. P(g)
  <2> HIDE DEF P
  <2> QED
    BY <1>3
<1>5. \A i \in 0..n : g[i] = IF i = 0 THEN d ELSE add(g[i - 1], infos[i])
  <2> HIDE DEF g
  <2> QED
    BY <1>4
<1> HIDE DEF g, n
<1>6. g[0] = d /\ \A i \in 1..n : g[i] = add(g[i - 1], infos[i])
  BY <1>1, <1>5
<1>7. Adds(g, d, infos)
  BY <1>2, <1>6 DEF Adds, n
<1> QED
  BY <1>7

\* What it makes of the panel has its types.
LEMMA AddedType ==
    ASSUME NEW F \in SUBSET AllInfos, NEW d \in Doms(F), NEW infos \in Seq(F)
    PROVE  Added(d, infos) \in Doms(F)
<1>1. PICK f : Adds(f, d, infos)
  BY AddedRun
<1>2. Len(infos) \in Nat /\ \A i \in 1..Len(infos) : infos[i] \in F
  BY LenProperties, ElementOfSeq
<1> DEFINE D == Doms(F)
<1>3. f[0] \in D
  BY <1>1 DEF Adds
<1>4. ASSUME NEW i \in 1..Len(infos), f[i - 1] \in D PROVE f[i] \in D
  BY <1>1, <1>2, <1>4, AddType DEF Adds
<1>5. f[Len(infos)] \in D
  <2> HIDE DEF D
  <2> QED
    BY <1>2, <1>3, <1>4, Stays
<1> QED
  BY <1>1, <1>5 DEF Adds

\* A handler's loop over ids.
LEMMA DetachedType ==
    ASSUME NEW F, NEW d \in Doms(F), NEW ids \in Seq(Ids)
    PROVE  Detached(d, ids) \in Doms(F)
<1> DEFINE n == Len(ids)
           P(f) == f = [i \in 0..n |-> IF i = 0 THEN d ELSE detach(f[i - 1], ids[i])]
           g == CHOOSE f : P(f)
           step == [i \in 1..n |-> [e \in Doms(F) |-> detach(e, ids[i])]]
<1>1. n \in Nat
  BY LenProperties
<1>2. Detached(d, ids) = g[n]
  BY DEF Detached
<1>3. \E f : P(f)
  <2>1. step \in [1..n -> [Doms(F) -> Doms(F)]]
    BY DetachType
  <2>2. PICK f \in [0..n -> Doms(F)] : Ran(f, d, step, n)
    <3> HIDE DEF step, n
    <3> QED
      BY <1>1, <2>1, Run
  <2>3. f[0] = d
    BY <2>2 DEF Ran
  <2>4. ASSUME NEW i \in 1..n PROVE f[i] = detach(f[i - 1], ids[i])
    <3>1. f[i - 1] \in Doms(F)
      <4> i - 1 \in 0..n
        BY <1>1
      <4> QED
        BY <2>2
    <3>2. f[i] = step[i][f[i - 1]]
      <4> HIDE DEF step
      <4> QED
        BY <2>2 DEF Ran
    <3> QED
      BY <3>1, <3>2
  <2>5. P(f)
    <3>1. f = [i \in 0..n |-> f[i]]
      BY <2>2
    <3>2. ASSUME NEW i \in 0..n PROVE f[i] = IF i = 0 THEN d ELSE detach(f[i - 1], ids[i])
      <4> i = 0 \/ i \in 1..n
        BY <1>1
      <4> QED
        BY <2>3, <2>4
    <3> HIDE DEF n, step
    <3> QED
      BY <3>1, <3>2
  <2> HIDE DEF P
  <2> QED
    BY <2>5
<1>4. P(g)
  <2> HIDE DEF P
  <2> QED
    BY <1>3
<1>5. \A i \in 0..n : g[i] = IF i = 0 THEN d ELSE detach(g[i - 1], ids[i])
  <2> HIDE DEF g
  <2> QED
    BY <1>4
<1> HIDE DEF g, n
<1>6. g[0] \in Doms(F)
  BY <1>1, <1>5
<1>7. ASSUME NEW i \in 1..n, g[i - 1] \in Doms(F) PROVE g[i] \in Doms(F)
  <2>1. g[i] = detach(g[i - 1], ids[i])
    BY <1>1, <1>5
  <2> QED
    BY <1>1, <1>7, <2>1, DetachType
<1> QED
  BY <1>1, <1>2, <1>6, <1>7, Stays
-----------------------------------------------------------------------------
(* What the program answers.                                               *)

Now == {NewNodeInfo(i) : i \in DOMAIN doc}

\* Nobody has two parents.
LEMMA OneParent ==
    ASSUME NEW d \in Docs, NEW p \in DOMAIN d, NEW q \in DOMAIN d,
           Range(d[p]) \cap Range(d[q]) # {}
    PROVE  p = q
<1>1. \A i \in DOMAIN d[p], j \in DOMAIN d[q] : d[p][i] = d[q][j] => p = q /\ i = j
  BY DocsOK
<1> QED
  BY <1>1 DEF Range

\* The page has a tree, and each of its nodes at most one parent.
LEMMA DocType ==
    ASSUME doc \in Docs
    PROVE  /\ IsFiniteSet(DOMAIN doc) /\ DOMAIN doc \subseteq Ids
           /\ \A i \in DOMAIN doc :
                 /\ doc[i] \in Seq(DOMAIN doc) /\ doc[i] \in Seq(Ids)
                 /\ Parent(i) \in Few /\ Parent(i) \subseteq DOMAIN doc
           /\ Root \in DOMAIN doc
<1>1. DOMAIN doc \subseteq Ids
  BY DEF Ids
<1>2. /\ IsFiniteSet(DOMAIN doc) /\ doc \in [DOMAIN doc -> Seq(DOMAIN doc)]
      /\ \A p, q \in DOMAIN doc : Range(doc[p]) \cap Range(doc[q]) # {} => p = q
  BY DocsOK, OneParent
<1>3. \A i \in DOMAIN doc : doc[i] \in Seq(DOMAIN doc)
  BY <1>2
<1>4. \A i \in DOMAIN doc : doc[i] \in Seq(Ids)
  BY <1>1, <1>3, SeqMonotonic
<1>5. ASSUME NEW i \in DOMAIN doc PROVE Parent(i) \in Few /\ Parent(i) \subseteq DOMAIN doc
  <2>1. Parent(i) \subseteq DOMAIN doc
    BY DEF Parent
  <2>2. ASSUME NEW a \in Parent(i), NEW b \in Parent(i) PROVE a = b
    BY <1>2, <2>2 DEF Parent
  <2> QED
    BY <1>1, <2>1, <2>2 DEF Few
<1>6. Root \in DOMAIN doc
  <2>1. PICK root \in DOMAIN doc : Tops(doc) = {root}
    BY DocsOK
  <2>2. Parent(root) = {}
    BY <2>1 DEF Tops, Parent
  <2> QED
    BY <2>2 DEF Root
<1> QED
  BY <1>1, <1>2, <1>3, <1>4, <1>5, <1>6

\* Infos have their types.
LEMMA NowType ==
    ASSUME doc \in Docs
    PROVE  Now \in SUBSET AllInfos
<1> SUFFICES ASSUME NEW i \in DOMAIN doc PROVE NewNodeInfo(i) \in AllInfos
  BY DEF Now
<1> QED
  BY DocType DEF NewNodeInfo, AllInfos

\* The infos of what is below a node, given those of the levels below.
Kids(x, i) == [k \in DOMAIN doc[i] |-> x[doc[i][k]]]

\* What expandLevels computes for all nodes, level by level.
IsLevels(g, levels) ==
    /\ g \in [0..levels -> [DOMAIN doc -> Seq(Now)]]
    /\ \A i \in DOMAIN doc : g[0][i] = <<>> /\ g[levels][i] = expandLevels(i, levels)
    /\ \A l \in 1..levels, i \in DOMAIN doc :
          g[l][i] = <<NewNodeInfo(i)>> \o FlattenSeq(Kids(g[l - 1], i))

\* The lists of the levels below are lists of infos of nodes.
LEMMA KidsType ==
    ASSUME doc \in Docs, NEW x \in [DOMAIN doc -> Seq(Now)], NEW i \in DOMAIN doc
    PROVE  Kids(x, i) \in Seq(Seq(Now)) /\ Len(Kids(x, i)) = Len(doc[i])
<1> DEFINE ss == Kids(x, i)
<1>1. doc[i] \in Seq(DOMAIN doc)
  BY DocType
<1>2. DOMAIN doc[i] = 1..Len(doc[i]) /\ Len(doc[i]) \in Nat
  BY <1>1, LenProperties
<1>3. ASSUME NEW k \in 1..Len(doc[i]) PROVE x[doc[i][k]] \in Seq(Now)
  <2> doc[i][k] \in DOMAIN doc
    BY <1>1, ElementOfSeq
  <2> QED
    OBVIOUS
<1>4. ss \in [1..Len(doc[i]) -> Seq(Now)]
  BY <1>2, <1>3 DEF Kids
<1> HIDE DEF ss
<1>5. ss \in Seq(Seq(Now))
  BY <1>2, <1>4, SeqDef
<1>6. Len(ss) = Len(doc[i])
  BY <1>2, <1>4, <1>5, LenProperties
<1> QED
  BY <1>5, <1>6 DEF ss

\* expandLevels sends the node and what is below it.
LEMMA LevelsRun ==
    ASSUME doc \in Docs, NEW levels \in Nat
    PROVE  \E g : IsLevels(g, levels)
<1> DEFINE X == [DOMAIN doc -> Seq(Now)]
           none == [i \in DOMAIN doc |-> <<>>]
           E(x, i) == <<NewNodeInfo(i)>> \o FlattenSeq([k \in DOMAIN doc[i] |-> x[doc[i][k]]])
           P(f) == f = [l \in 0..levels |-> [i \in DOMAIN doc |->
                           IF l = 0 THEN <<>> ELSE E(f[l - 1], i)]]
           g == CHOOSE f : P(f)
           step == [l \in 1..levels |-> [x \in X |-> [i \in DOMAIN doc |-> E(x, i)]]]
<1>1. ASSUME NEW x \in X, NEW i \in DOMAIN doc PROVE E(x, i) \in Seq(Now)
  <2>1. E(x, i) = <<NewNodeInfo(i)>> \o FlattenSeq(Kids(x, i))
    BY DEF Kids
  <2>2. FlattenSeq(Kids(x, i)) \in Seq(Now)
    BY KidsType, FlattenType
  <2>3. <<NewNodeInfo(i)>> \in Seq(Now)
    <3> NewNodeInfo(i) \in Now
      BY DEF Now
    <3> QED
      OBVIOUS
  <2> HIDE DEF E
  <2> QED
    BY <2>1, <2>2, <2>3, ConcatProperties
<1>2. none \in X
  BY EmptySeq
<1>3. \A id : expandLevels(id, levels) = g[levels][id]
  BY DEF expandLevels
<1> HIDE DEF E
<1>4. \E f : P(f)
  <2>1. step \in [1..levels -> [X -> X]]
    BY <1>1
  <2>2. PICK f \in [0..levels -> X] : Ran(f, none, step, levels)
    <3> HIDE DEF step, X, none
    <3> QED
      BY <1>2, <2>1, Run
  <2>3. f[0] = none
    BY <2>2 DEF Ran
  <2>4. ASSUME NEW l \in 1..levels PROVE f[l] = [i \in DOMAIN doc |-> E(f[l - 1], i)]
    <3>1. f[l - 1] \in X
      <4> l - 1 \in 0..levels
        OBVIOUS
      <4> QED
        BY <2>2
    <3>2. f[l] = step[l][f[l - 1]]
      <4> HIDE DEF step
      <4> QED
        BY <2>2 DEF Ran
    <3> QED
      BY <3>1, <3>2
  <2>5. P(f)
    <3> DEFINE F(l) == [i \in DOMAIN doc |-> IF l = 0 THEN <<>> ELSE E(f[l - 1], i)]
    <3>1. f = [l \in 0..levels |-> f[l]]
      BY <2>2
    <3>2. ASSUME NEW l \in 0..levels PROVE f[l] = F(l)
      <4>1. CASE l = 0
        BY <2>3, <4>1
      <4>2. CASE l # 0
        <5> l \in 1..levels
          BY <4>2
        <5> QED
          BY <2>4, <4>2
      <4> QED
        BY <4>1, <4>2
    <3>3. f = [l \in 0..levels |-> F(l)]
      <4> HIDE DEF F
      <4> QED
        BY <3>1, <3>2
    <3> QED
      BY <3>3
  <2> HIDE DEF P
  <2> QED
    BY <2>5
<1>5. P(g)
  <2> HIDE DEF P
  <2> QED
    BY <1>4
<1>6. \A l \in 0..levels : g[l] = [i \in DOMAIN doc |-> IF l = 0 THEN <<>> ELSE E(g[l - 1], i)]
  <2> HIDE DEF g
  <2> QED
    BY <1>5
<1> HIDE DEF g, P, step
<1>7. g[0] \in X /\ \A i \in DOMAIN doc : g[0][i] = <<>>
  <2> g[0] = [i \in DOMAIN doc |-> IF 0 = 0 THEN <<>> ELSE E(g[0 - 1], i)]
    BY <1>6
  <2> QED
    BY <1>2
<1>8. ASSUME NEW l \in 1..levels
      PROVE  /\ g[l] = [i \in DOMAIN doc |-> E(g[l - 1], i)]
             /\ g[l - 1] \in X => g[l] \in X
  <2>1. g[l] = [i \in DOMAIN doc |-> IF l = 0 THEN <<>> ELSE E(g[l - 1], i)]
    BY <1>6
  <2>2. g[l - 1] \in X => \A i \in DOMAIN doc : E(g[l - 1], i) \in Seq(Now)
    BY <1>1
  <2> QED
    BY <2>1, <2>2
<1>9. ASSUME NEW k \in 0..levels PROVE g[k] \in X
  <2>1. k \in Nat /\ \A i \in 1..k : i \in 1..levels
    OBVIOUS
  <2> HIDE DEF X
  <2> QED
    BY <1>7, <1>8, <2>1, Stays
<1>10. g \in [0..levels -> X]
  <2> g = [l \in 0..levels |-> g[l]]
    BY <1>5 DEF P
  <2> HIDE DEF X
  <2> QED
    BY <1>9
<1>11. \A l \in 1..levels, i \in DOMAIN doc :
          g[l][i] = <<NewNodeInfo(i)>> \o FlattenSeq(Kids(g[l - 1], i))
  BY <1>8 DEF E, Kids
<1>12. IsLevels(g, levels)
  BY <1>3, <1>7, <1>10, <1>11 DEF IsLevels
<1> QED
  BY <1>12

\* They are infos of nodes.
LEMMA LevelsType ==
    ASSUME doc \in Docs, NEW id \in DOMAIN doc, NEW levels \in Nat
    PROVE  expandLevels(id, levels) \in Seq(Now)
<1>1. PICK g : IsLevels(g, levels)
  BY LevelsRun
<1>2. g[levels] \in [DOMAIN doc -> Seq(Now)] /\ expandLevels(id, levels) = g[levels][id]
  BY <1>1 DEF IsLevels
<1> QED
  BY <1>2

\* The siblings of a node that has a parent are nodes.
LEMMA SiblingsType ==
    ASSUME doc \in Docs, NEW id \in DOMAIN doc, Parent(id) # {}
    PROVE  Siblings(id) \in Seq(Now)
<1> DEFINE p  == CHOOSE q \in Parent(id) : TRUE
           at == CHOOSE i \in DOMAIN doc[p] : doc[p][i] = id
           n  == Len(doc[p]) - at + 1
<1>1. p \in DOMAIN doc /\ id \in Range(doc[p])
  <2> p \in Parent(id)
    OBVIOUS
  <2> QED
    BY DEF Parent
<1>2. Siblings(id) = [i \in 1..n |-> NewNodeInfo(doc[p][at + i - 1])]
  BY DEF Siblings
<1> HIDE DEF p
<1>3. doc[p] \in Seq(DOMAIN doc)
  BY <1>1, DocType
<1>4. DOMAIN doc[p] = 1..Len(doc[p]) /\ Len(doc[p]) \in Nat
  BY <1>3, LenProperties
<1>5. at \in DOMAIN doc[p]
  <2> \E i \in DOMAIN doc[p] : doc[p][i] = id
    BY <1>1 DEF Range
  <2> QED
    OBVIOUS
<1> HIDE DEF at
<1>6. n \in Nat
  BY <1>4, <1>5
<1>7. ASSUME NEW i \in 1..n PROVE NewNodeInfo(doc[p][at + i - 1]) \in Now
  <2>1. at + i - 1 \in 1..Len(doc[p])
    BY <1>4, <1>5
  <2>2. doc[p][at + i - 1] \in DOMAIN doc
    BY <1>3, <2>1, ElementOfSeq
  <2> QED
    BY <2>2 DEF Now
<1> HIDE DEF n
<1>8. Siblings(id) \in [1..n -> Now]
  BY <1>2, <1>7
<1> QED
  BY <1>6, <1>8, SeqDef

\* So does expandTo.
LEMMA ToType ==
    ASSUME doc \in Docs, NEW id \in DOMAIN doc
    PROVE  expandTo(id) \in Seq(Now)
<1> DEFINE X == [DOMAIN doc -> Seq(Now)]
           levels == Cardinality(DOMAIN doc)
           none == [i \in DOMAIN doc |-> <<>>]
           E(x, i) == IF Parent(i) = {} THEN <<NewNodeInfo(i)>>
                      ELSE x[CHOOSE p \in Parent(i) : TRUE] \o Siblings(i)
           P(f) == f = [l \in 0..levels |-> [i \in DOMAIN doc |->
                           IF l = 0 THEN <<>> ELSE E(f[l - 1], i)]]
           g == CHOOSE f : P(f)
           step == [l \in 1..levels |-> [x \in X |-> [i \in DOMAIN doc |-> E(x, i)]]]
<1>1. ASSUME NEW x \in X, NEW i \in DOMAIN doc PROVE E(x, i) \in Seq(Now)
  <2>1. CASE Parent(i) = {}
    <3> NewNodeInfo(i) \in Now
      BY DEF Now
    <3> <<NewNodeInfo(i)>> \in Seq(Now)
      OBVIOUS
    <3> QED
      BY <2>1
  <2>2. CASE Parent(i) # {}
    <3> DEFINE p == CHOOSE q \in Parent(i) : TRUE
    <3>1. p \in DOMAIN doc
      <4> p \in Parent(i) /\ Parent(i) \subseteq DOMAIN doc
        BY <2>2, DocType
      <4> QED
        OBVIOUS
    <3>2. x[p] \in Seq(Now) /\ Siblings(i) \in Seq(Now)
      BY <2>2, <3>1, SiblingsType
    <3>3. x[p] \o Siblings(i) \in Seq(Now)
      BY <3>2, ConcatProperties
    <3> QED
      BY <2>2, <3>3
  <2> QED
    BY <2>1, <2>2
<1>2. none \in X
  BY EmptySeq
<1>3. expandTo(id) = g[levels][id]
  BY DEF expandTo
<1>. levels \in Nat
  BY DocType, FS_CardinalityType
<1> HIDE DEF E, levels
<1>4. \E f : P(f)
  <2>1. step \in [1..levels -> [X -> X]]
    BY <1>1
  <2>2. PICK f \in [0..levels -> X] : Ran(f, none, step, levels)
    <3> HIDE DEF step, X, none
    <3> QED
      BY <1>2, <2>1, Run
  <2>3. f[0] = none
    BY <2>2 DEF Ran
  <2>4. ASSUME NEW l \in 1..levels PROVE f[l] = [i \in DOMAIN doc |-> E(f[l - 1], i)]
    <3>1. f[l - 1] \in X
      <4> l - 1 \in 0..levels
        OBVIOUS
      <4> QED
        BY <2>2
    <3>2. f[l] = step[l][f[l - 1]]
      <4> HIDE DEF step
      <4> QED
        BY <2>2 DEF Ran
    <3> QED
      BY <3>1, <3>2
  <2>5. P(f)
    <3> DEFINE F(l) == [i \in DOMAIN doc |-> IF l = 0 THEN <<>> ELSE E(f[l - 1], i)]
    <3>1. f = [l \in 0..levels |-> f[l]]
      BY <2>2
    <3>2. ASSUME NEW l \in 0..levels PROVE f[l] = F(l)
      <4>1. CASE l = 0
        BY <2>3, <4>1
      <4>2. CASE l # 0
        <5> l \in 1..levels
          BY <4>2
        <5> QED
          BY <2>4, <4>2
      <4> QED
        BY <4>1, <4>2
    <3>3. f = [l \in 0..levels |-> F(l)]
      <4> HIDE DEF F
      <4> QED
        BY <3>1, <3>2
    <3> QED
      BY <3>3
  <2> HIDE DEF P
  <2> QED
    BY <2>5
<1>5. P(g)
  <2> HIDE DEF P
  <2> QED
    BY <1>4
<1>6. \A l \in 0..levels : g[l] = [i \in DOMAIN doc |-> IF l = 0 THEN <<>> ELSE E(g[l - 1], i)]
  <2> HIDE DEF g
  <2> QED
    BY <1>5
<1> HIDE DEF g, P, step
<1>7. g[0] \in X
  <2> g[0] = [i \in DOMAIN doc |-> IF 0 = 0 THEN <<>> ELSE E(g[0 - 1], i)]
    BY <1>6
  <2> QED
    BY <1>2
<1>8. ASSUME NEW l \in 1..levels, g[l - 1] \in X PROVE g[l] \in X
  <2>1. g[l] = [i \in DOMAIN doc |-> IF l = 0 THEN <<>> ELSE E(g[l - 1], i)]
    BY <1>6
  <2>2. \A i \in DOMAIN doc : E(g[l - 1], i) \in Seq(Now)
    BY <1>1, <1>8
  <2> QED
    BY <2>1, <2>2
<1>9. g[levels] \in X
  <2> HIDE DEF X
  <2> QED
    BY <1>7, <1>8, Stays
<1> QED
  BY <1>3, <1>9
-----------------------------------------------------------------------------
(* What a change of the page reaches.                                      *)

\* What is below some nodes of a tree, and who has a node as a child.
Reached(d, ids) ==
    {i \in DOMAIN d : \A S \in SUBSET DOMAIN d : ids \subseteq S /\ Closed(d, S) => i \in S}
Over(d, i) == {p \in DOMAIN d : i \in Range(d[p])}

\* The nodes themselves and their children are among what is below them.
LEMMA ReachedClosed ==
    ASSUME NEW d \in Docs, NEW ids \in SUBSET DOMAIN d
    PROVE  /\ ids \subseteq Reached(d, ids) /\ Reached(d, ids) \subseteq DOMAIN d
           /\ Closed(d, Reached(d, ids))
           /\ ids = {} => Reached(d, ids) = {}
<1>1. ids \subseteq Reached(d, ids) /\ Reached(d, ids) \subseteq DOMAIN d
  BY DEF Reached
<1>2. ASSUME NEW p \in Reached(d, ids), NEW k \in Range(d[p]) PROVE k \in Reached(d, ids)
  <2>1. k \in DOMAIN d
    <3> p \in DOMAIN d /\ d[p] \in Seq(DOMAIN d)
      BY <1>1, DocsOK
    <3> QED
      BY RangeType
  <2>2. ASSUME NEW S \in SUBSET DOMAIN d, ids \subseteq S, Closed(d, S) PROVE k \in S
    <3> p \in S
      BY <2>2 DEF Reached
    <3> QED
      BY <2>2 DEF Closed
  <2> QED
    BY <2>1, <2>2 DEF Reached
<1>3. ids = {} => Reached(d, ids) = {}
  <2> Closed(d, {})
    BY DEF Closed
  <2> QED
    BY DEF Reached
<1> QED
  BY <1>1, <1>2, <1>3 DEF Closed

\* A node that is not below one with other children than before was there before,
\* with the same children and the same parent: from the root to it nothing has
\* changed.
LEMMA Unchanged ==
    ASSUME NEW old \in Docs, NEW new \in Docs, NEW id \in DOMAIN new,
           id \notin Reached(new, {i \in DOMAIN old \cap DOMAIN new : old[i] # new[i]})
    PROVE  id \in DOMAIN old /\ old[id] = new[id] /\ Over(old, id) = Over(new, id)
<1> DEFINE other == {i \in DOMAIN old \cap DOMAIN new : old[i] # new[i]}
           same(i) == i \in DOMAIN old /\ old[i] = new[i] /\ Over(old, i) = Over(new, i)
           S == {i \in DOMAIN new : i \in Reached(new, other) \/ same(i)}
<1>1. /\ other \subseteq Reached(new, other) /\ Reached(new, other) \subseteq DOMAIN new
      /\ Closed(new, Reached(new, other))
  <2> other \in SUBSET DOMAIN new
    OBVIOUS
  <2> HIDE DEF other
  <2> QED
    BY ReachedClosed
<1>2. Tops(new) \subseteq S
  <2>1. PICK root \in DOMAIN new : Tops(old) = {root} /\ Tops(new) = {root}
    BY DocsOK
  <2>2. Over(old, root) = {} /\ Over(new, root) = {} /\ root \in DOMAIN old
    BY <2>1 DEF Tops, Over
  <2>3. root \in S
    BY <1>1, <2>2
  <2> QED
    BY <2>1, <2>3
<1>3. ASSUME NEW p \in S, NEW k \in Range(new[p]) PROVE k \in S
  <2>1. CASE p \in Reached(new, other)
    BY <1>1, <2>1 DEF Closed
  <2>2. CASE same(p)
    <3>1. p \in DOMAIN old /\ p \in DOMAIN new /\ old[p] = new[p] /\ k \in Range(old[p])
      BY <2>2
    <3>2. k \in DOMAIN old /\ k \in DOMAIN new
      <4> old[p] \in Seq(DOMAIN old) /\ new[p] \in Seq(DOMAIN new)
        BY <3>1, DocsOK
      <4> QED
        BY <3>1, RangeType
    <3>3. Over(old, k) = {p}
      <4>1. \A q \in DOMAIN old : k \in Range(old[q]) => q = p
        <5> \A q \in DOMAIN old : Range(old[p]) \cap Range(old[q]) # {} => p = q
          BY <3>1, OneParent
        <5> QED
          BY <3>1
      <4> QED
        BY <3>1, <4>1 DEF Over
    <3>4. Over(new, k) = {p}
      <4>1. \A q \in DOMAIN new : k \in Range(new[q]) => q = p
        <5> \A q \in DOMAIN new : Range(new[p]) \cap Range(new[q]) # {} => p = q
          BY <3>1, OneParent
        <5> QED
          BY <1>3
      <4> QED
        BY <1>3, <3>1, <4>1 DEF Over
    <3>5. CASE k \in other
      BY <1>1, <3>2, <3>5
    <3>6. CASE k \notin other
      BY <3>2, <3>3, <3>4, <3>6
    <3> QED
      BY <3>5, <3>6
  <2> QED
    BY <2>1, <2>2
<1>4. S = DOMAIN new
  <2>1. S \in SUBSET DOMAIN new /\ Closed(new, S)
    <3> S \in SUBSET DOMAIN new
      OBVIOUS
    <3> HIDE DEF S
    <3> QED
      BY <1>3 DEF Closed
  <2> HIDE DEF S
  <2> QED
    BY <1>2, <2>1, DocsOK
<1> QED
  BY <1>4
-----------------------------------------------------------------------------
(* The invariant.                                                          *)

\* What is known of a node that is in the page is what the program knows, unless
\* the node is below one the page has not been told of.
Fresh(info) ==
    info.id \in DOMAIN doc => info = NewNodeInfo(info.id) \/ info.id \in Beneath(pending)

\* What the panel may have been told, until an update overtakes an answer.
Good == {info \in AllInfos : overtaken \/ Fresh(info)}

Single(S) == \A a, b \in S : a = b

\* The program and the calls.
Calling ==
    /\ doc \in Docs /\ pending \in SUBSET DOMAIN doc /\ state \in Few
    /\ calls \in [levels : Seq(Few), to : Seq(Few)]
    /\ answer \in [levels : SUBSET Seq(AllInfos), to : SUBSET Seq(AllInfos)]
    /\ Single(answer.levels) /\ Single(answer.to)
    /\ answer.levels # {} => calls.levels # <<>>
    /\ answer.to # {} => calls.to # <<>>
    /\ actions \in 0..MaxActions /\ patches \in 0..MaxPatches /\ overtaken \in BOOLEAN

\* What Tree.nodes leads to and what is on its way has been right since.
Known ==
    /\ Dom \in Doms(Good)
    /\ answer.levels \subseteq Seq(Good) /\ answer.to \subseteq Seq(Good)

Inv == Calling /\ Known

\* What is computed now is good.
LEMMA NowGood ==
    ASSUME doc \in Docs
    PROVE  Now \subseteq Good
<1> SUFFICES ASSUME NEW i \in DOMAIN doc PROVE NewNodeInfo(i) \in Good
  BY DEF Now
<1>1. NewNodeInfo(i) \in AllInfos
  BY NowType DEF Now
<1>2. NewNodeInfo(i).id = i
  BY DEF NewNodeInfo
<1> QED
  BY <1>1, <1>2 DEF Good, Fresh

\* What is good stays good while the page does not change and no update is sent.
LEMMA GoodSame ==
    ASSUME UNCHANGED <<doc, pending, overtaken>>
    PROVE  Good' = Good
BY DEF Good, Fresh, NewNodeInfo, Parent, Beneath

\* And when the page changes.
LEMMA GoodPatched ==
    ASSUME Inv, NEW d \in Docs, Patch(d)
    PROVE  Good \subseteq Good'
<1> SUFFICES ASSUME NEW info \in AllInfos, Fresh(info), info.id \in DOMAIN d,
                    info.id \notin Reached(d, pending')
             PROVE  info = NewNodeInfo(info.id)'
  <2>1. doc' = d /\ overtaken' = overtaken
    BY DEF Patch
  <2>2. Beneath(pending)' = Reached(d, pending')
    BY <2>1 DEF Beneath, Reached
  <2> QED
    BY <2>1, <2>2 DEF Good, Fresh
<1>1. doc' = d /\ pending = {} /\ pending' = {id \in DOMAIN doc \cap DOMAIN d : doc[id] # d[id]}
  BY DEF Patch
<1>2. doc \in Docs
  BY DEF Inv, Calling
<1> DEFINE id == info.id
<1>3. id \in DOMAIN doc /\ doc[id] = d[id] /\ Over(doc, id) = Over(d, id)
  <2> HIDE DEF id
  <2> QED
    BY <1>1, <1>2, Unchanged DEF id
<1>4. Beneath(pending) = {}
  <2> Reached(doc, {}) = {}
    BY <1>2, ReachedClosed
  <2> QED
    BY <1>1 DEF Beneath, Reached
<1>5. info = NewNodeInfo(id)
  BY <1>3, <1>4 DEF Fresh
<1>6. NewNodeInfo(id) = NewNodeInfo(id)'
  BY <1>1, <1>3 DEF NewNodeInfo, Parent, Over
<1> QED
  BY <1>5, <1>6

\* Larger sets of infos allow more.
LEMMA DomsGrow ==
    ASSUME NEW F, NEW G, F \subseteq G
    PROVE  Doms(F) \subseteq Doms(G)
BY DEF Doms

\* The panel's variables.
LEMMA DomIs ==
    ASSUME Dom \in Shapes
    PROVE  /\ objs \in Seq(Objects) /\ DOMAIN objs = 1..Len(objs) /\ Len(objs) \in Nat
           /\ map \in UNION {[T -> Nat] : T \in SUBSET Ids} /\ top \in Seq(Nat)
           /\ \A n \in DOMAIN objs : objs[n] \in Objects
<1>1. objs \in Seq(Objects) /\ map \in UNION {[T -> Nat] : T \in SUBSET Ids} /\ top \in Seq(Nat)
  BY DEF Dom, Shapes
<1>2. DOMAIN objs = 1..Len(objs) /\ Len(objs) \in Nat
  BY <1>1, RangeType
<1> QED
  BY <1>1, <1>2, ElementOfSeq

\* A handler that has not changed the program leaves the panel as it made it.
LEMMA BecomesDom ==
    ASSUME NEW F, NEW d \in Doms(F), Becomes(d)
    PROVE  Dom' \in Doms(F)
<1>1. d \in Shapes
  BY DEF Doms
<1>2. Dom'.objs = d.objs /\ Dom'.map = d.map /\ Dom'.top = d.top
  BY DEF Dom, Becomes
<1>3. Dom' \in Shapes
  <2>1. Dom' = [objs |-> d.objs, map |-> d.map, top |-> d.top, threw |-> FALSE]
    BY DEF Becomes, Dom
  <2> QED
    BY <1>1, <2>1 DEF Shapes
<1> QED
  BY <1>2, <1>3 DEF Doms
-----------------------------------------------------------------------------
(* The initial states.                                                     *)

LEMMA InitInv ==
    Init => Inv
<1> SUFFICES ASSUME Init PROVE Inv
  OBVIOUS
<1> USE DEF Init
<1>1. Calling
  <2>1. {} \in Few
    BY DEF Few
  <2>2. calls \in [levels : Seq(Few), to : Seq(Few)]
    BY <2>1, EmptySeq
  <2>3. 0 \in 0..MaxActions /\ 0 \in 0..MaxPatches
    BY BoundsOK
  <2> QED
    BY <2>1, <2>2, <2>3 DEF Calling, Single
<1>2. Dom \in Doms(Good)
  <2>1. DOMAIN << >> = {}
    OBVIOUS
  <2>2. << >> \in UNION {[T -> Nat] : T \in SUBSET Ids}
    <3> << >> \in [{} -> Nat]
      BY <2>1
    <3> QED
      OBVIOUS
  <2>3. Dom \in Shapes
    BY <2>2, EmptySeq DEF Dom, Shapes
  <2>4. top \in Seq(DOMAIN objs)
    BY EmptySeq
  <2> QED
    BY <2>1, <2>3, <2>4 DEF Dom, Doms
<1>3. answer.levels \subseteq Seq(Good) /\ answer.to \subseteq Seq(Good)
  OBVIOUS
<1> QED
  BY <1>1, <1>2, <1>3 DEF Inv, Known
-----------------------------------------------------------------------------
(* The steps.                                                              *)

\* A click opens or closes a node.
LEMMA ClickInv ==
    ASSUME Inv, NEW n \in DOMAIN objs, Click(n)
    PROVE  Inv'
<1>1. Good' = Good
  BY GoodSame DEF Click, server
<1>2. Dom \in Doms(Good) /\ Dom \in Shapes
  BY DEF Inv, Known, Doms
<1>3. objs[n] \in Objects
  BY <1>2, DomIs
<1>4. /\ calls.levels \in Seq(Few) /\ calls.to \in Seq(Few)
      /\ calls \in [levels : Seq(Few), to : Seq(Few)]
  BY DEF Inv, Calling
<1>5. calls' = calls \/ calls' = [calls EXCEPT !.levels = Append(@, {objs[n].id})]
  BY <1>4 DEF Click
<1>6. /\ calls' \in [levels : Seq(Few), to : Seq(Few)]
      /\ calls'.to = calls.to /\ calls.levels # <<>> => calls'.levels # <<>>
  <2>1. {objs[n].id} \in Few
    BY <1>3 DEF Few, Objects
  <2> DEFINE ls == Append(calls.levels, {objs[n].id})
  <2>2. ls \in Seq(Few) /\ ls # <<>>
    BY <1>4, <2>1, AppendProperties
  <2>3. calls' = calls \/ calls' = [levels |-> ls, to |-> calls.to]
    BY <1>4, <1>5
  <2> HIDE DEF ls
  <2> QED
    BY <1>4, <2>2, <2>3
<1>7. Calling'
  <2>1. actions' \in 0..MaxActions
    BY BoundsOK DEF Click, Inv, Calling
  <2> QED
    BY <1>6, <2>1 DEF Click, Inv, Calling, server, Single
<1>8. Dom' \in Doms(Good)
  <2>1. CASE objs' = objs
    <3> Dom' = Dom
      BY <2>1 DEF Dom, Click
    <3> QED
      BY <1>2
  <2>2. CASE objs' = [objs EXCEPT ![n].box = <<>>]
    <3>1. n \in DOMAIN Dom.objs /\ <<>> \in Seq(DOMAIN Dom.objs)
      BY EmptySeq DEF Dom
    <3>2. [Dom EXCEPT !.objs = [Dom.objs EXCEPT ![n].box = <<>>]] \in Doms(Good)
      BY <1>2, <3>1, BoxType
    <3> DEFINE e == [Dom EXCEPT !.objs = [Dom.objs EXCEPT ![n].box = <<>>]]
    <3>3. e.objs = objs' /\ e.map = map /\ e.top = top
      BY <2>2 DEF Dom
    <3> HIDE DEF e
    <3>4. Becomes(e)
      BY <3>3 DEF Becomes, Click
    <3> QED
      BY <3>2, <3>4, BecomesDom DEF e
  <2> QED
    BY <2>1, <2>2 DEF Click
<1> QED
  BY <1>1, <1>7, <1>8 DEF Inv, Known, Click

\* The mouse.
LEMMA HoverInv ==
    ASSUME Inv, NEW id \in DOMAIN doc, Hover(id)
    PROVE  Inv'
<1>1. Good' = Good
  BY GoodSame DEF Hover, server
<1>2. {id} \in Few
  BY DocType DEF Few, Inv, Calling
<1>3. Calling'
  BY <1>2 DEF Hover, Inv, Calling, server, rpc, Single
<1>4. Dom' = Dom
  BY DEF Dom, Hover, panel
<1> QED
  BY <1>1, <1>3, <1>4 DEF Inv, Known, Hover, rpc

\* The key.
LEMMA AltCInv ==
    ASSUME Inv, AltC
    PROVE  Inv'
<1>1. Good' = Good
  BY GoodSame DEF AltC, server
<1>2. calls \in [levels : Seq(Few), to : Seq(Few)] /\ state \in Few
  BY DEF Inv, Calling
<1>3. /\ calls' \in [levels : Seq(Few), to : Seq(Few)]
      /\ calls'.levels = calls.levels /\ calls'.to # <<>>
  <2> DEFINE to == Append(calls.to, state)
  <2>1. to \in Seq(Few) /\ to # <<>>
    BY <1>2, AppendProperties
  <2>2. calls' = [levels |-> calls.levels, to |-> to]
    BY <1>2 DEF AltC
  <2> HIDE DEF to
  <2> QED
    BY <1>2, <2>1, <2>2
<1>4. Calling'
  <2>1. actions' \in 0..MaxActions
    BY BoundsOK DEF AltC, Inv, Calling
  <2> QED
    BY <1>3, <2>1 DEF AltC, Inv, Calling, server, Single
<1>5. Dom' = Dom
  BY DEF Dom, AltC, panel
<1> QED
  BY <1>1, <1>4, <1>5 DEF Inv, Known, AltC

\* The program answers expandLevels.
LEMMA AnswerLevelsInv ==
    ASSUME Inv, AnswerLevels
    PROVE  Inv'
<1>1. Good' = Good
  BY GoodSame DEF AnswerLevels, server
<1>2. /\ doc \in Docs /\ calls.levels \in Seq(Few) /\ calls.levels # <<>>
      /\ answer \in [levels : SUBSET Seq(AllInfos), to : SUBSET Seq(AllInfos)]
  BY DEF Inv, Calling, AnswerLevels
<1> DEFINE asked == Head(calls.levels)
           now == IF asked = {} THEN {expandLevels(Root, 10)}
                  ELSE IF asked \subseteq DOMAIN doc THEN {expandLevels(id, 2) : id \in asked}
                  ELSE {<<>>}
<1>3. asked \in Few
  BY <1>2, HeadTailProperties
<1>4. Single(now)
  BY <1>3 DEF Few, Single
<1>5. now \in SUBSET Seq(Good)
  <2>1. Root \in DOMAIN doc /\ Now \subseteq Good
    BY <1>2, DocType, NowGood
  <2>2. expandLevels(Root, 10) \in Seq(Good)
    <3> expandLevels(Root, 10) \in Seq(Now)
      BY <1>2, <2>1, LevelsType
    <3> QED
      BY <2>1, SeqMonotonic
  <2>3. ASSUME NEW id \in DOMAIN doc PROVE expandLevels(id, 2) \in Seq(Good)
    <3> expandLevels(id, 2) \in Seq(Now)
      BY <1>2, LevelsType
    <3> QED
      BY <2>1, SeqMonotonic
  <2>4. <<>> \in Seq(Good)
    BY EmptySeq
  <2> HIDE DEF asked
  <2> QED
    BY <2>2, <2>3, <2>4
<1>6. answer' = [answer EXCEPT !.levels = now]
  BY DEF AnswerLevels
<1> HIDE DEF now
<1>7. now \in SUBSET Seq(AllInfos)
  <2> Good \subseteq AllInfos
    BY DEF Good
  <2> QED
    BY <1>5, SeqMonotonic
<1>8. answer' = [levels |-> now, to |-> answer.to]
  BY <1>2, <1>6
<1>. UNCHANGED <<doc, pending, state, calls, actions, patches, overtaken>>
  BY DEF AnswerLevels, server
<1>9. Calling'
  <2> HIDE DEF asked
  <2> QED
    BY <1>2, <1>4, <1>7, <1>8 DEF Inv, Calling, Single
<1>10. Dom' = Dom
  BY DEF Dom, AnswerLevels, panel
<1> QED
  BY <1>1, <1>5, <1>8, <1>9, <1>10 DEF Inv, Known, AnswerLevels

\* The program answers expandTo.
LEMMA AnswerToInv ==
    ASSUME Inv, AnswerTo
    PROVE  Inv'
<1>1. Good' = Good
  BY GoodSame DEF AnswerTo
<1>2. /\ doc \in Docs /\ calls.to \in Seq(Few) /\ calls.to # <<>>
      /\ answer \in [levels : SUBSET Seq(AllInfos), to : SUBSET Seq(AllInfos)]
  BY DEF Inv, Calling, AnswerTo
<1> DEFINE asked == Head(calls.to)
           now == IF asked \subseteq DOMAIN doc THEN {expandTo(id) : id \in asked} ELSE answer.to
<1>3. asked \in Few
  BY <1>2, HeadTailProperties
<1>4. Single(now)
  BY <1>3 DEF Few, Single, Inv, Calling
<1>5. now \in SUBSET Seq(Good)
  <2>1. Now \subseteq Good
    BY <1>2, NowGood
  <2>2. ASSUME NEW id \in DOMAIN doc PROVE expandTo(id) \in Seq(Good)
    <3> expandTo(id) \in Seq(Now)
      BY <1>2, ToType
    <3> QED
      BY <2>1, SeqMonotonic
  <2>3. answer.to \subseteq Seq(Good)
    BY DEF Inv, Known
  <2> HIDE DEF asked
  <2> QED
    BY <2>2, <2>3
<1>6. answer' = [levels |-> answer.levels, to |-> now]
  <2>1. answer' = [answer EXCEPT !.to = now]
    BY <1>2 DEF AnswerTo
  <2> HIDE DEF now
  <2> QED
    BY <1>2, <2>1
<1> HIDE DEF now
<1>7. now \in SUBSET Seq(AllInfos)
  <2> Good \subseteq AllInfos
    BY DEF Good
  <2> QED
    BY <1>5, SeqMonotonic
<1>8. Calling'
  BY <1>2, <1>4, <1>6, <1>7 DEF AnswerTo, Inv, Calling, Single
<1>9. Dom' = Dom
  BY DEF Dom, AnswerTo, panel
<1> QED
  BY <1>1, <1>5, <1>6, <1>8, <1>9 DEF Inv, Known, AnswerTo

\* The page handles an answer to expandLevels.
LEMMA AddLevelsInv ==
    ASSUME Inv, NEW infos \in answer.levels, AddLevels(infos)
    PROVE  Inv'
<1>1. Good' = Good
  BY GoodSame DEF AddLevels, Answered, server
<1>2. /\ calls \in [levels : Seq(Few), to : Seq(Few)] /\ calls.levels # <<>>
      /\ answer \in [levels : SUBSET Seq(AllInfos), to : SUBSET Seq(AllInfos)]
      /\ infos \in Seq(Good) /\ Dom \in Doms(Good) /\ Good \in SUBSET AllInfos
  BY DEF Inv, Calling, Known, Good
<1>3. Tail(calls.levels) \in Seq(Few)
  BY <1>2, HeadTailProperties
<1>4. /\ calls' = [levels |-> Tail(calls.levels), to |-> calls.to]
      /\ answer' = [levels |-> {}, to |-> answer.to]
  BY <1>2 DEF AddLevels, Answered
<1>. UNCHANGED <<doc, pending, state, actions, patches, overtaken>>
  BY DEF AddLevels, Answered, server
<1>5. Calling'
  BY <1>2, <1>3, <1>4 DEF Inv, Calling, Single
<1>6. Dom' \in Doms(Good)
  <2> DEFINE list == IF Head(calls.levels) = {} \/ infos = <<>> THEN infos ELSE Tail(infos)
  <2>1. list \in Seq(Good)
    BY <1>2, HeadTailProperties
  <2>2. Becomes(Added(Dom, list))
    BY DEF AddLevels
  <2> HIDE DEF list
  <2>3. Added(Dom, list) \in Doms(Good)
    BY <1>2, <2>1, AddedType
  <2> QED
    BY <2>2, <2>3, BecomesDom
<1> QED
  BY <1>1, <1>4, <1>5, <1>6 DEF Inv, Known

\* The page handles an answer to expandTo.
LEMMA ShowInfosInv ==
    ASSUME Inv, NEW infos \in answer.to, ShowInfos(infos)
    PROVE  Inv'
<1>1. Good' = Good
  BY GoodSame DEF ShowInfos, Answered, server
<1>2. /\ calls \in [levels : Seq(Few), to : Seq(Few)] /\ calls.to # <<>>
      /\ answer \in [levels : SUBSET Seq(AllInfos), to : SUBSET Seq(AllInfos)]
      /\ infos \in Seq(Good) /\ Dom \in Doms(Good) /\ Good \in SUBSET AllInfos
  BY DEF Inv, Calling, Known, Good
<1>3. Tail(calls.to) \in Seq(Few)
  BY <1>2, HeadTailProperties
<1>4. /\ calls' = [levels |-> calls.levels, to |-> Tail(calls.to)]
      /\ answer' = [levels |-> answer.levels, to |-> {}]
  BY <1>2 DEF ShowInfos, Answered
<1>. UNCHANGED <<doc, pending, state, actions, patches, overtaken>>
  BY DEF ShowInfos, Answered, server
<1>5. Calling'
  BY <1>2, <1>3, <1>4 DEF Inv, Calling, Single
<1>6. Dom' \in Doms(Good)
  <2> DEFINE ids == [i \in DOMAIN infos |-> infos[Len(infos) - i + 1].id]
  <2>1. ids \in Seq(Ids)
    <3>1. DOMAIN infos = 1..Len(infos) /\ Len(infos) \in Nat
      BY <1>2, LenProperties
    <3>2. ASSUME NEW i \in 1..Len(infos) PROVE infos[Len(infos) - i + 1].id \in Ids
      <4>1. Len(infos) - i + 1 \in 1..Len(infos)
        BY <3>1
      <4>2. infos[Len(infos) - i + 1] \in Good
        BY <1>2, <4>1, ElementOfSeq
      <4> QED
        BY <1>2, <4>2 DEF AllInfos
    <3>3. ids \in [1..Len(infos) -> Ids]
      BY <3>1, <3>2
    <3> HIDE DEF ids
    <3> QED
      BY <3>1, <3>3, SeqDef
  <2>2. Becomes(Added(Detached(Dom, ids), infos))
    BY DEF ShowInfos
  <2> HIDE DEF ids
  <2>3. Detached(Dom, ids) \in Doms(Good)
    BY <1>2, <2>1, DetachedType
  <2>4. Added(Detached(Dom, ids), infos) \in Doms(Good)
    BY <1>2, <2>3, AddedType
  <2> QED
    BY <2>2, <2>4, BecomesDom
<1> QED
  BY <1>1, <1>4, <1>5, <1>6 DEF Inv, Known

\* The page changes.
LEMMA PatchInv ==
    ASSUME Inv, NEW d \in Docs, Patch(d)
    PROVE  Inv'
<1>1. Good \subseteq Good'
  BY GoodPatched
<1>2. Calling'
  <2>1. patches' \in 0..MaxPatches
    BY BoundsOK DEF Patch, Inv, Calling
  <2>2. doc' \in Docs /\ pending' \in SUBSET DOMAIN doc'
    BY DEF Patch
  <2> QED
    BY <2>1, <2>2 DEF Patch, Inv, Calling, rpc, Single
<1>3. Dom' \in Doms(Good')
  <2>1. Dom' = Dom
    BY DEF Dom, Patch, panel
  <2>2. Dom \in Doms(Good)
    BY DEF Inv, Known
  <2> QED
    BY <1>1, <2>1, <2>2, DomsGrow
<1>4. answer'.levels \subseteq Seq(Good') /\ answer'.to \subseteq Seq(Good')
  <2>1. answer' = answer /\ answer.levels \subseteq Seq(Good) /\ answer.to \subseteq Seq(Good)
    BY DEF Patch, rpc, Inv, Known
  <2>2. \A s \in Seq(Good) : s \in Seq(Good')
    BY <1>1, SeqMonotonic
  <2> QED
    BY <2>1, <2>2
<1> QED
  BY <1>2, <1>3, <1>4 DEF Inv, Known

\* What an update sends is what the program knows.
LEMMA updateInv ==
    ASSUME Inv, updateInspectorTree
    PROVE  Inv'
<1> DEFINE ids == Beneath(pending)
           os  == update(ids)
<1>1. /\ doc \in Docs /\ pending \subseteq DOMAIN doc /\ Dom \in Doms(Good) /\ Dom \in Shapes
      /\ answer.levels \subseteq Seq(Good) /\ answer.to \subseteq Seq(Good)
      /\ overtaken \in BOOLEAN
  BY DEF Inv, Calling, Known, Doms
<1>2. /\ objs' = os /\ map' = map /\ top' = top /\ pending' = {}
      /\ UNCHANGED <<doc, state, calls, answer, actions, patches>>
      /\ overtaken' = (overtaken \/ \E infos \in answer.levels \cup answer.to : Contradicted(infos))
  BY DEF updateInspectorTree, rpc
<1>3. overtaken' \in BOOLEAN /\ (overtaken => overtaken')
  BY <1>1, <1>2
<1>4. ids \subseteq DOMAIN doc
  BY DEF Beneath
<1> HIDE DEF ids
<1>5. ASSUME NEW info \in AllInfos,
             overtaken' \/ (info.id \in DOMAIN doc => info = NewNodeInfo(info.id))
      PROVE  info \in Good'
  <2>1. NewNodeInfo(info.id)' = NewNodeInfo(info.id)
    BY <1>2 DEF NewNodeInfo, Parent
  <2> QED
    BY <1>2, <1>5, <2>1 DEF Good, Fresh
<1>6. /\ objs \in Seq(Objects) /\ DOMAIN objs = 1..Len(objs) /\ Len(objs) \in Nat
      /\ map \in UNION {[T -> Nat] : T \in SUBSET Ids} /\ top \in Seq(Nat)
      /\ \A n \in DOMAIN objs : objs[n] \in Objects
  BY <1>1, DomIs
<1>7. /\ \A n \in DOMAIN objs : objs[n].box \in Seq(DOMAIN objs)
      /\ top \in Seq(DOMAIN objs)
      /\ \A id \in DOMAIN map : /\ map[id] \in DOMAIN objs
                                /\ objs[map[id]].id = id /\ Info(objs[map[id]]) \in Good
  BY <1>1 DEF Doms, Dom
<1>8. DOMAIN os = DOMAIN objs
  BY DEF update
<1>9. ASSUME NEW n \in DOMAIN objs
      PROVE  /\ os[n] \in Objects /\ os[n].id = objs[n].id /\ os[n].box = objs[n].box
             /\ IF objs[n].id \in ids \cap DOMAIN map /\ n = map[objs[n].id]
                THEN Info(os[n]) = NewNodeInfo(objs[n].id) ELSE os[n] = objs[n]
  <2> DEFINE id == objs[n].id
  <2>1. objs[n] \in Objects
    BY <1>6
  <2>2. CASE id \in ids \cap DOMAIN map /\ n = map[id]
    <3>1. os[n] = [objs[n] EXCEPT !.parent = Parent(id), !.kids = doc[id]]
      BY <2>2 DEF update
    <3>2. Parent(id) \in Few /\ doc[id] \in Seq(Ids)
      BY <1>1, <1>4, <2>2, DocType
    <3>3. PICK a, p, k, b : objs[n] = [id |-> a, parent |-> p, kids |-> k, box |-> b]
      BY <2>1 DEF Objects
    <3>4. os[n] = [id |-> id, parent |-> Parent(id), kids |-> doc[id], box |-> objs[n].box]
      BY <3>1, <3>3
    <3>5. id \in Ids /\ objs[n].box \in Seq(Nat)
      BY <2>1 DEF Objects
    <3> HIDE DEF os, id
    <3>6. os[n] \in Objects /\ os[n].id = id /\ os[n].box = objs[n].box
      BY <3>2, <3>4, <3>5 DEF Objects
    <3>7. Info(os[n]) = NewNodeInfo(id)
      BY <3>4 DEF Info, NewNodeInfo
    <3> QED
      BY <2>2, <3>6, <3>7 DEF id
  <2>3. CASE ~ (id \in ids \cap DOMAIN map /\ n = map[id])
    <3>1. os[n] = objs[n]
      BY <2>3 DEF update
    <3> HIDE DEF os
    <3> QED
      BY <2>1, <2>3, <3>1
  <2> QED
    BY <2>2, <2>3
<1>10. os \in Seq(Objects)
  <2>1. os = [n \in DOMAIN objs |-> os[n]]
    BY DEF update
  <2> HIDE DEF os
  <2>2. os \in [1..Len(objs) -> Objects]
    BY <1>6, <1>9, <2>1
  <2> QED
    BY <1>6, <2>2, SeqDef
<1> HIDE DEF os
<1>11. Dom' \in Doms(Good')
  <2>1. Dom'.objs = os /\ Dom'.map = map /\ Dom'.top = top
    BY <1>2 DEF Dom
  <2>2. Dom' \in Shapes
    <3> Dom' = [objs |-> os, map |-> map, top |-> top, threw |-> FALSE]
      BY <1>2 DEF Dom
    <3> QED
      BY <1>6, <1>10 DEF Shapes
  <2>3. \A n \in DOMAIN os : os[n].box \in Seq(DOMAIN os)
    BY <1>7, <1>8, <1>9
  <2>4. ASSUME NEW id \in DOMAIN map
        PROVE  map[id] \in DOMAIN os /\ os[map[id]].id = id /\ Info(os[map[id]]) \in Good'
    <3> DEFINE n == map[id]
    <3>1. n \in DOMAIN objs /\ objs[n].id = id /\ Info(objs[n]) \in Good
      BY <1>7
    <3>2. os[n].id = id
      BY <1>9, <3>1
    <3>3. Info(os[n]) \in Good'
      <4>1. CASE id \in ids
        <5>1. Info(os[n]) = NewNodeInfo(id)
          BY <1>9, <3>1, <4>1
        <5>2. NewNodeInfo(id) \in AllInfos /\ NewNodeInfo(id).id = id
          BY <1>1, <1>4, <4>1, NowType DEF Now, NewNodeInfo
        <5> QED
          BY <1>5, <5>1, <5>2
      <4>2. CASE id \notin ids
        <5>1. os[n] = objs[n]
          BY <1>9, <3>1, <4>2
        <5>2. Info(objs[n]) \in AllInfos /\ Info(objs[n]).id = id
          BY <3>1 DEF Good, Info
        <5>3. overtaken \/ (id \in DOMAIN doc => Info(objs[n]) = NewNodeInfo(id))
          BY <3>1, <4>2, <5>2 DEF Good, Fresh, ids
        <5> QED
          BY <1>3, <1>5, <5>1, <5>2, <5>3
      <4> QED
        BY <4>1, <4>2
    <3> QED
      BY <1>8, <3>1, <3>2, <3>3
  <2> QED
    BY <1>7, <1>8, <2>1, <2>2, <2>3, <2>4 DEF Doms
<1>12. ASSUME NEW infos \in answer.levels \cup answer.to PROVE infos \in Seq(Good')
  <2>1. infos \in Seq(Good)
    BY <1>1
  <2>2. infos \in [1..Len(infos) -> Good] /\ Len(infos) \in Nat /\ DOMAIN infos = 1..Len(infos)
    BY <2>1, LenProperties
  <2>3. ASSUME NEW i \in 1..Len(infos) PROVE infos[i] \in Good'
    <3>1. infos[i] \in AllInfos
      BY <2>2 DEF Good
    <3>2. overtaken' \/ infos[i] = NewNodeInfo(infos[i].id)
      BY <1>2, <2>2 DEF Contradicted
    <3> QED
      BY <1>5, <3>1, <3>2
  <2>4. infos \in [1..Len(infos) -> Good']
    BY <2>2, <2>3
  <2> QED
    BY <2>2, <2>4, SeqDef
<1>13. Calling'
  BY <1>2, <1>3 DEF Inv, Calling, Single
<1> QED
  BY <1>2, <1>11, <1>12, <1>13 DEF Inv, Known

\* Every step keeps the invariant.
LEMMA NextInv ==
    ASSUME Inv, [Next]_vars
    PROVE  Inv'
<1>1. ASSUME NEW n \in DOMAIN objs, Click(n) PROVE Inv'
  BY <1>1, ClickInv
<1>2. ASSUME NEW id \in DOMAIN doc, Hover(id) PROVE Inv'
  BY <1>2, HoverInv
<1>3. CASE AltC
  BY <1>3, AltCInv
<1>4. CASE AnswerLevels
  BY <1>4, AnswerLevelsInv
<1>5. CASE AnswerTo
  BY <1>5, AnswerToInv
<1>6. CASE Deliver
  <2>1. ASSUME NEW infos \in answer.levels, AddLevels(infos) PROVE Inv'
    BY <2>1, AddLevelsInv
  <2>2. ASSUME NEW infos \in answer.to, ShowInfos(infos) PROVE Inv'
    BY <2>2, ShowInfosInv
  <2> QED
    BY <1>6, <2>1, <2>2 DEF Deliver
<1>7. ASSUME NEW d \in Docs, Patch(d) PROVE Inv'
  BY <1>7, PatchInv
<1>8. CASE updateInspectorTree
  BY <1>8, updateInv
<1>9. CASE UNCHANGED vars
  <2>1. Good' = Good
    BY <1>9, GoodSame DEF vars, server
  <2>2. Dom' = Dom
    BY <1>9 DEF vars, panel, Dom
  <2>3. Calling'
    BY <1>9 DEF vars, server, rpc, Inv, Calling, Single
  <2> QED
    BY <1>9, <2>1, <2>2, <2>3 DEF vars, rpc, Inv, Known
<1> QED
  BY <1>1, <1>2, <1>3, <1>4, <1>5, <1>6, <1>7, <1>8, <1>9 DEF Next

\* The invariant holds in every reachable state.
LEMMA Invariant ==
    Spec => []Inv
<1>1. Init => Inv
  BY InitInv
<1>2. Inv /\ [Next]_vars => Inv'
  BY NextInv
<1> QED
  BY <1>1, <1>2, PTL DEF Spec
-----------------------------------------------------------------------------

\* A set of which all members are the same has at most one.
LEMMA SingleCard ==
    ASSUME NEW S, Single(S)
    PROVE  Cardinality(S) <= 1
<1>1. CASE S = {}
  BY <1>1, FS_EmptySet
<1>2. CASE S # {}
  <2>1. PICK x : S = {x}
    BY <1>2 DEF Single
  <2> QED
    BY <2>1, FS_Singleton
<1> QED
  BY <1>1, <1>2

\* Whatever page there is and whatever the user does, every object of the panel is
\* of a node, Tree.nodes leads from an id to the object of that id, every element
\* in a container or in Tree.root is one that was made, and of each of the two
\* calls at most one answer is on its way (rod serves them one after the other).
THEOREM KeepsTypes ==
    Spec => []TypeOK
<1>1. Inv => TypeOK
  <2> SUFFICES ASSUME Inv PROVE TypeOK
    OBVIOUS
  <2>1. Dom \in Doms(Good) /\ Dom \in Shapes
    BY DEF Inv, Known, Doms
  <2>2. /\ doc \in Docs /\ pending \subseteq DOMAIN doc /\ state \subseteq Ids
        /\ actions \in 0..MaxActions /\ patches \in 0..MaxPatches
    BY DEF Inv, Calling, Few
  <2>3. ASSUME NEW n \in DOMAIN objs
        PROVE  /\ objs[n].id \in Ids /\ objs[n].parent \subseteq Ids
               /\ objs[n].kids \in Seq(Ids) /\ objs[n].box \in Seq(DOMAIN objs)
    <3>1. objs[n] \in Objects
      BY <2>1, DomIs
    <3>2. objs[n].box \in Seq(DOMAIN objs)
      BY <2>1 DEF Doms, Dom
    <3> QED
      BY <3>1, <3>2 DEF Objects, Few
  <2>4. /\ DOMAIN map \subseteq Ids /\ top \in Seq(DOMAIN objs)
        /\ \A id \in DOMAIN map : objs[map[id]].id = id
    <3>1. DOMAIN map \subseteq Ids
      BY <2>1, DomIs
    <3> QED
      BY <2>1, <3>1 DEF Doms, Dom
  <2>5. Cardinality(answer.levels) <= 1 /\ Cardinality(answer.to) <= 1
    BY SingleCard DEF Inv, Calling
  <2> QED
    BY <2>2, <2>3, <2>4, <2>5 DEF TypeOK, Ids
<1> QED
  BY <1>1, Invariant, PTL

\* On every page, after any changes of it and whatever the user does, what the
\* panel knows of the nodes of the page is what the program knows once an update
\* has been sent, unless an update has overtaken an answer that it contradicts.
THEOREM StaysFresh ==
    Spec => []MapFresh
<1>1. Inv => MapFresh
  <2> SUFFICES ASSUME Inv, pending = {}, ~overtaken, NEW id \in DOMAIN map \cap DOMAIN doc
               PROVE  [id |-> id, parent |-> objs[map[id]].parent, kids |-> objs[map[id]].kids]
                      = NewNodeInfo(id)
    BY DEF MapFresh
  <2>1. objs[map[id]].id = id /\ Info(objs[map[id]]) \in Good
    BY DEF Inv, Known, Doms, Dom
  <2>2. Beneath(pending) = {}
    <3> doc \in Docs
      BY DEF Inv, Calling
    <3> Reached(doc, {}) = {}
      BY ReachedClosed
    <3> QED
      BY DEF Beneath, Reached
  <2>3. Info(objs[map[id]]).id = id
    BY <2>1 DEF Info
  <2>4. Info(objs[map[id]]) = NewNodeInfo(id)
    BY <2>1, <2>2, <2>3 DEF Good, Fresh
  <2> QED
    BY <2>1, <2>4 DEF Info
<1> QED
  BY <1>1, Invariant, PTL
-----------------------------------------------------------------------------
(* What is below a node, on a page that does not change.                   *)

\* What is below nodes is in every set that has the nodes and is closed.
LEMMA ReachedLeast ==
    ASSUME NEW d, NEW ids, NEW S \in SUBSET DOMAIN d, ids \subseteq S, Closed(d, S)
    PROVE  Reached(d, ids) \subseteq S
BY DEF Reached

\* What is below nodes is one of them or has its parent below them.
LEMMA ReachedFrom ==
    ASSUME NEW d \in Docs, NEW ids \in SUBSET DOMAIN d, NEW x \in Reached(d, ids), x \notin ids
    PROVE  \E p \in Reached(d, ids) : x \in Range(d[p])
<1> SUFFICES ASSUME \A p \in Reached(d, ids) : x \notin Range(d[p]) PROVE FALSE
  OBVIOUS
<1> DEFINE S == Reached(d, ids) \ {x}
<1>1. /\ ids \subseteq Reached(d, ids) /\ Reached(d, ids) \subseteq DOMAIN d
      /\ Closed(d, Reached(d, ids))
  BY ReachedClosed
<1>2. S \in SUBSET DOMAIN d /\ ids \subseteq S
  BY <1>1
<1>3. Closed(d, S)
  BY <1>1 DEF Closed
<1>4. Reached(d, ids) \subseteq S
  <2> HIDE DEF S
  <2> QED
    BY <1>2, <1>3, ReachedLeast
<1> QED
  BY <1>4

\* A child of a node is a node.
LEMMA ChildType ==
    ASSUME NEW d \in Docs, NEW p \in DOMAIN d
    PROVE  Range(d[p]) \subseteq DOMAIN d
<1> d[p] \in Seq(DOMAIN d)
  BY DocsOK
<1> QED
  BY RangeType

\* What is below a child of a node is below the node.
LEMMA ReachedDown ==
    ASSUME NEW d \in Docs, NEW p \in DOMAIN d, NEW k \in Range(d[p])
    PROVE  Reached(d, {k}) \subseteq Reached(d, {p})
<1>1. k \in DOMAIN d
  BY ChildType
<1>2. {p} \in SUBSET DOMAIN d
  OBVIOUS
<1>3. /\ p \in Reached(d, {p}) /\ Reached(d, {p}) \in SUBSET DOMAIN d
      /\ Closed(d, Reached(d, {p}))
  BY <1>2, ReachedClosed
<1>4. k \in Reached(d, {p})
  BY <1>3 DEF Closed
<1> QED
  BY <1>3, <1>4, ReachedLeast

\* No node is below itself.
LEMMA Acyclic ==
    ASSUME NEW d \in Docs, NEW i \in DOMAIN d, NEW k \in Range(d[i])
    PROVE  i \notin Reached(d, {k})
<1> DEFINE S == {x \in DOMAIN d : \A c \in Range(d[x]) : x \notin Reached(d, {c})}
<1>1. \A x \in DOMAIN d : \A c \in Range(d[x]) : c \in DOMAIN d /\ {c} \in SUBSET DOMAIN d
  <2> SUFFICES ASSUME NEW x \in DOMAIN d, NEW c \in Range(d[x]) PROVE c \in DOMAIN d
    OBVIOUS
  <2> QED
    BY ChildType
<1>2. Tops(d) \subseteq S
  <2> SUFFICES ASSUME NEW x \in Tops(d), NEW c \in Range(d[x]), x \in Reached(d, {c}) PROVE FALSE
    BY DEF Tops
  <2>1. x \in DOMAIN d /\ \A p \in DOMAIN d : x \notin Range(d[p])
    BY DEF Tops
  <2>2. x # c
    BY <2>1
  <2>3. {c} \in SUBSET DOMAIN d
    BY <1>1, <2>1
  <2>4. PICK p \in Reached(d, {c}) : x \in Range(d[p])
    BY <2>2, <2>3, ReachedFrom
  <2> QED
    BY <2>1, <2>3, <2>4, ReachedClosed
<1>3. Closed(d, S)
  <2> SUFFICES ASSUME NEW p \in S, NEW c \in Range(d[p]), c \notin S PROVE FALSE
    BY DEF Closed
  <2>1. c \in DOMAIN d
    BY <1>1
  <2>2. PICK e \in Range(d[c]) : c \in Reached(d, {e})
    BY <2>1
  <2>3. e \in DOMAIN d /\ {e} \in SUBSET DOMAIN d
    BY <1>1, <2>1
  <2>4. p \notin Reached(d, {c})
    OBVIOUS
  <2>5. CASE c = e
    <3>1. c \in Range(d[c])
      BY <2>2, <2>5
    <3>2. p = c
      BY <2>1, <3>1, OneParent
    <3>3. c \in Reached(d, {c})
      BY <2>1, ReachedClosed
    <3> QED
      BY <2>4, <3>2, <3>3
  <2>6. CASE c # e
    <3>1. PICK q \in Reached(d, {e}) : c \in Range(d[q])
      BY <2>2, <2>3, <2>6, ReachedFrom
    <3>2. q \in DOMAIN d
      BY <2>3, ReachedClosed
    <3>3. q = p
      BY <3>1, <3>2, OneParent
    <3>4. p \in Reached(d, {c})
      BY <2>1, <2>2, <3>1, <3>3, ReachedDown
    <3> QED
      BY <2>4, <3>4
  <2> QED
    BY <2>5, <2>6
<1>4. S = DOMAIN d
  <2> S \in SUBSET DOMAIN d
    OBVIOUS
  <2> HIDE DEF S
  <2> QED
    BY <1>2, <1>3, DocsOK
<1> QED
  BY <1>4

\* Below the root is everything.
LEMMA ReachedRoot ==
    ASSUME doc \in Docs
    PROVE  Parent(Root) = {} /\ Reached(doc, {Root}) = DOMAIN doc
<1>1. PICK root \in DOMAIN doc : Tops(doc) = {root}
  BY DocsOK
<1>2. Parent(root) = {}
  BY <1>1 DEF Tops, Parent
<1>3. Root \in DOMAIN doc /\ Parent(Root) = {}
  BY <1>2 DEF Root
<1>4. Tops(doc) \subseteq {Root}
  <2> Root \in Tops(doc)
    BY <1>3 DEF Tops, Parent
  <2> QED
    BY <1>1
<1>5. {Root} \in SUBSET DOMAIN doc
  BY <1>3
<1>6. /\ Tops(doc) \subseteq Reached(doc, {Root}) /\ Reached(doc, {Root}) \subseteq DOMAIN doc
      /\ Closed(doc, Reached(doc, {Root}))
  BY <1>4, <1>5, ReachedClosed
<1> QED
  BY <1>3, <1>6, DocsOK
-----------------------------------------------------------------------------
(* Adding one list after another.                                          *)

\* What is added is added as if it were one list.
LEMMA AddedConcat ==
    ASSUME NEW F \in SUBSET AllInfos, NEW d \in Doms(F), NEW s \in Seq(F), NEW t \in Seq(F)
    PROVE  Added(d, s \o t) = Added(Added(d, s), t)
<1>1. Added(d, s) \in Doms(F)
  BY AddedType
<1>2. /\ s \o t \in Seq(F) /\ Len(s \o t) = Len(s) + Len(t)
      /\ Len(s) \in Nat /\ Len(t) \in Nat
      /\ \A i \in 1..Len(s) : (s \o t)[i] = s[i]
      /\ \A i \in 1..Len(t) : (s \o t)[Len(s) + i] = t[i]
  BY ConcatProperties, LenProperties
<1>3. PICK f : Adds(f, d, s)
  BY AddedRun
<1>4. PICK g : Adds(g, Added(d, s), t)
  BY <1>1, AddedRun
<1>5. PICK h : Adds(h, d, s \o t)
  BY <1>2, AddedRun
<1> DEFINE st == s \o t
<1> HIDE DEF st
<1>6. /\ h[0] = d /\ h[Len(s) + Len(t)] = Added(d, s \o t)
      /\ \A i \in 1..(Len(s) + Len(t)) : h[i] = add(h[i - 1], st[i])
  BY <1>2, <1>5 DEF Adds, st
<1>7. h[Len(s)] = Added(d, s)
  <2> DEFINE T == {k \in Nat : k <= Len(s) => h[k] = f[k]}
  <2>1. 0 \in T
    BY <1>3, <1>6 DEF Adds
  <2>2. ASSUME NEW k \in Nat, k \in T PROVE k + 1 \in T
    <3> SUFFICES ASSUME k + 1 <= Len(s) PROVE h[k + 1] = f[k + 1]
      OBVIOUS
    <3>1. k + 1 \in 1..Len(s) /\ k + 1 \in 1..(Len(s) + Len(t)) /\ (k + 1) - 1 = k /\ h[k] = f[k]
      BY <1>2, <2>2
    <3>2. h[k + 1] = add(h[k], st[k + 1])
      BY <1>6, <3>1
    <3>3. f[k + 1] = add(f[k], s[k + 1])
      BY <1>3, <3>1 DEF Adds
    <3>4. st[k + 1] = s[k + 1]
      BY <1>2, <3>1 DEF st
    <3> QED
      BY <3>1, <3>2, <3>3, <3>4
  <2>3. \A k \in Nat : k \in T
    <3> HIDE DEF T
    <3> QED
      BY <2>1, <2>2, Induct
  <2> QED
    BY <1>2, <1>3, <2>3 DEF Adds
<1>8. h[Len(s) + Len(t)] = g[Len(t)]
  <2> DEFINE T == {k \in Nat : k <= Len(t) => h[Len(s) + k] = g[k]}
  <2>1. 0 \in T
    BY <1>2, <1>4, <1>7 DEF Adds
  <2>2. ASSUME NEW k \in Nat, k \in T PROVE k + 1 \in T
    <3> SUFFICES ASSUME k + 1 <= Len(t) PROVE h[Len(s) + (k + 1)] = g[k + 1]
      OBVIOUS
    <3>1. /\ k + 1 \in 1..Len(t) /\ (k + 1) - 1 = k /\ h[Len(s) + k] = g[k]
          /\ Len(s) + (k + 1) \in 1..(Len(s) + Len(t)) /\ (Len(s) + (k + 1)) - 1 = Len(s) + k
      BY <1>2, <2>2
    <3>2. h[Len(s) + (k + 1)] = add(h[Len(s) + k], st[Len(s) + (k + 1)])
      BY <1>6, <3>1
    <3>3. g[k + 1] = add(g[k], t[k + 1])
      BY <1>4, <3>1 DEF Adds
    <3>4. st[Len(s) + (k + 1)] = t[k + 1]
      BY <1>2, <3>1 DEF st
    <3> QED
      BY <3>1, <3>2, <3>3, <3>4
  <2>3. \A k \in Nat : k \in T
    <3> HIDE DEF T
    <3> QED
      BY <2>1, <2>2, Induct
  <2> QED
    BY <1>2, <2>3
<1> QED
  BY <1>4, <1>6, <1>8 DEF Adds

\* Adding one, or none.
LEMMA AddedOne ==
    ASSUME NEW F \in SUBSET AllInfos, NEW d \in Doms(F), NEW info \in F
    PROVE  Added(d, <<info>>) = add(d, info) /\ Added(d, <<>>) = d
<1>1. Added(d, <<>>) = d
  <2>1. <<>> \in Seq(F) /\ Len(<<>>) = 0
    BY EmptySeq
  <2>2. PICK f : Adds(f, d, <<>>)
    BY <2>1, AddedRun
  <2> QED
    BY <2>1, <2>2 DEF Adds
<1>2. Added(d, <<info>>) = add(d, info)
  <2>1. <<info>> \in Seq(F) /\ Len(<<info>>) = 1 /\ <<info>>[1] = info
    OBVIOUS
  <2>2. PICK f : Adds(f, d, <<info>>)
    BY <2>1, AddedRun
  <2> DEFINE one == <<info>>
  <2> HIDE DEF one
  <2>3. f[0] = d /\ f[1] = Added(d, one) /\ \A i \in 1..1 : f[i] = add(f[i - 1], one[i])
    BY <2>1, <2>2 DEF Adds, one
  <2>4. 1 \in 1..1 /\ 1 - 1 = 0
    OBVIOUS
  <2>5. f[1] = add(f[1 - 1], one[1])
    BY <2>3, <2>4
  <2> QED
    BY <2>1, <2>3, <2>4, <2>5 DEF one
<1> QED
  BY <1>1, <1>2
-----------------------------------------------------------------------------
(* Adding a node to a panel that shows part of the page.                   *)

Box(d, id) == d.objs[d.map[id]].box

\* Every node in the panel has the first of its children, and Tree.root the root
\* or nothing.
Filled(d, id) ==
    /\ Len(Box(d, id)) <= Len(doc[id])
    /\ \A j \in 1..Len(Box(d, id)) :
          doc[id][j] \in DOMAIN d.map /\ Box(d, id)[j] = d.map[doc[id][j]]

Partial(d) ==
    /\ d \in Doms(Now) /\ ~d.threw
    /\ \A id \in DOMAIN d.map : Filled(d, id)
    /\ d.top = <<>> \/ (Root \in DOMAIN d.map /\ d.top = <<d.map[Root]>>)

\* It has all of them or none.
Whole(d, id) == Len(Box(d, id)) \in {0, Len(doc[id])}

\* What Tree.nodes leads to.
LEMMA InMap ==
    ASSUME doc \in Docs, NEW d \in Doms(Now), NEW id \in DOMAIN d.map
    PROVE  /\ id \in DOMAIN doc /\ doc[id] \in Seq(DOMAIN doc) /\ Len(doc[id]) \in Nat
           /\ d.map[id] \in DOMAIN d.objs /\ DOMAIN d.objs = 1..Len(d.objs) /\ Len(d.objs) \in Nat
           /\ d.objs[d.map[id]].id = id /\ Info(d.objs[d.map[id]]) = NewNodeInfo(id)
           /\ Box(d, id) \in Seq(DOMAIN d.objs) /\ Len(Box(d, id)) \in Nat
<1>1. /\ d.map[id] \in DOMAIN d.objs /\ d.objs[d.map[id]].id = id
      /\ Info(d.objs[d.map[id]]) \in Now /\ d.objs[d.map[id]].box \in Seq(DOMAIN d.objs)
  BY DEF Doms
<1>2. d.objs \in Seq(Objects)
  BY DEF Doms, Shapes
<1>3. DOMAIN d.objs = 1..Len(d.objs) /\ Len(d.objs) \in Nat
  BY <1>2, RangeType
<1>4. PICK i \in DOMAIN doc : Info(d.objs[d.map[id]]) = NewNodeInfo(i)
  BY <1>1 DEF Now
<1>5. i = id
  BY <1>1, <1>4 DEF Info, NewNodeInfo
<1>6. doc[id] \in Seq(DOMAIN doc) /\ Len(doc[id]) \in Nat
  BY <1>4, <1>5, DocType, LenProperties
<1>7. Box(d, id) \in Seq(DOMAIN d.objs) /\ Len(Box(d, id)) \in Nat
  BY <1>1, LenProperties DEF Box
<1> QED
  BY <1>1, <1>3, <1>4, <1>5, <1>6, <1>7

\* A child is added behind those that its parent has.
LEMMA AddChild ==
    ASSUME doc \in Docs, NEW d, Partial(d), NEW p \in DOMAIN d.map, NEW j \in 1..Len(doc[p]),
           Len(Box(d, p)) = j - 1
    PROVE  LET k == doc[p][j]
               e == add(d, NewNodeInfo(k))
           IN  /\ Partial(e) /\ DOMAIN e.map = DOMAIN d.map \cup {k}
               /\ Len(Box(e, k)) = 0 /\ Len(Box(e, p)) = j
               /\ \A x \in DOMAIN d.map \ {k, p} : Len(Box(e, x)) = Len(Box(d, x))
<1> DEFINE k == doc[p][j]
           n == Len(d.objs) + 1
           made == Made(d, NewNodeInfo(k))
           m == d.map[p]
           os == [made.objs EXCEPT ![m].box = Append(made.objs[m].box, n)]
           e == add(d, NewNodeInfo(k))
<1>1. d \in Doms(Now) /\ ~d.threw /\ Now \in SUBSET AllInfos
  BY NowType DEF Partial
<1>2. /\ p \in DOMAIN doc /\ doc[p] \in Seq(DOMAIN doc) /\ m \in DOMAIN d.objs
      /\ DOMAIN d.objs = 1..Len(d.objs) /\ Len(d.objs) \in Nat /\ Len(doc[p]) \in Nat
      /\ Box(d, p) \in Seq(DOMAIN d.objs)
  BY <1>1, InMap
<1>3. k \in DOMAIN doc /\ k \in Range(doc[p])
  <2> j \in DOMAIN doc[p]
    BY <1>2, LenProperties
  <2> QED
    BY <1>2, ElementOfSeq DEF Range
<1>4. p # k
  <2>1. k \in Reached(doc, {k})
    <3> {k} \in SUBSET DOMAIN doc
      BY <1>3
    <3> QED
      BY ReachedClosed
  <2> QED
    BY <1>2, <1>3, <2>1, Acyclic
<1>5. Parent(k) = {p}
  <2>1. \A q \in DOMAIN doc : k \in Range(doc[q]) => q = p
    BY <1>2, <1>3, OneParent
  <2> QED
    BY <1>2, <1>3, <2>1 DEF Parent
<1> HIDE DEF k
<1>6. NewNodeInfo(k) \in Now /\ NewNodeInfo(k).id = k /\ NewNodeInfo(k).parent = {p}
  BY <1>3, <1>5 DEF Now, NewNodeInfo
<1>7. /\ made \in Doms(Now) /\ made.top = d.top /\ made.threw = d.threw
      /\ DOMAIN made.objs = 1..n
      /\ made.objs[n].parent = {p} /\ made.objs[n].box = <<>>
      /\ \A i \in 1..Len(d.objs) : made.objs[i] = d.objs[i]
      /\ DOMAIN made.map = DOMAIN d.map \cup {k} /\ made.map[k] = n
      /\ \A id \in DOMAIN d.map : id # k => made.map[id] = d.map[id]
  BY <1>1, <1>6, MadeType
<1>8. /\ ~NoParent(made, n) /\ ~Unknown(made, n) /\ Owner(made, n) = m
  <2>1. made.objs[n].parent = {p} /\ p \in DOMAIN made.map /\ made.map[p] = m
    BY <1>4, <1>7
  <2> HIDE DEF made, n, m
  <2>2. (CHOOSE q \in made.objs[n].parent : TRUE) = p
    BY <2>1
  <2> QED
    BY <2>1, <2>2 DEF NoParent, Unknown, Owner
<1>9. e = [made EXCEPT !.objs[m].box = Append(@, n)]
  <2>1. e = IF d.threw THEN d
            ELSE CASE NoParent(made, n) -> [made EXCEPT !.top = Append(@, n)]
                   [] Unknown(made, n)  -> Throw(made)
                   [] OTHER             -> [made EXCEPT !.objs[Owner(made, n)].box = Append(@, n)]
    BY DEF add, Made
  <2> HIDE DEF made, n, m, e
  <2> QED
    BY <1>1, <1>8, <2>1
<1>10. e \in Doms(Now)
  BY <1>1, <1>6, AddType
<1>11. m \in DOMAIN made.objs /\ n \in DOMAIN made.objs /\ m # n
  BY <1>2, <1>7
<1>12. e.objs = os /\ e.map = made.map /\ e.top = d.top /\ ~e.threw
  <2>1. PICK a, b, c, t : made = [objs |-> a, map |-> b, top |-> c, threw |-> t]
    BY <1>7 DEF Doms, Shapes
  <2>2. e = [objs |-> os, map |-> b, top |-> c, threw |-> t]
    <3> HIDE DEF made, n, m, e
    <3> QED
      BY <1>9, <2>1
  <2>3. made.map = b /\ made.top = c /\ made.threw = t
    <3> HIDE DEF made
    <3> QED
      BY <2>1
  <2> HIDE DEF made, e, os
  <2>4. e.objs = os /\ e.map = b /\ e.top = c /\ e.threw = t
    BY <2>2
  <2> QED
    BY <1>1, <1>7, <2>3, <2>4
<1>13. \A i \in DOMAIN made.objs :
          os[i].box = IF i = m THEN Append(made.objs[m].box, n) ELSE made.objs[i].box
  <2> SUFFICES ASSUME NEW i \in DOMAIN made.objs
               PROVE  os[i].box = IF i = m THEN Append(made.objs[m].box, n) ELSE made.objs[i].box
    OBVIOUS
  <2>1. made.objs[i] \in Objects
    <3>1. made.objs \in Seq(Objects)
      BY <1>7 DEF Doms, Shapes
    <3>2. i \in 1..Len(made.objs)
      BY <3>1, RangeType
    <3> QED
      BY <3>1, <3>2, ElementOfSeq
  <2>2. os[i] = IF i = m THEN [made.objs[i] EXCEPT !.box = Append(made.objs[m].box, n)] ELSE made.objs[i]
    <3> HIDE DEF made, n, m
    <3> QED
      OBVIOUS
  <2> HIDE DEF os, made, n, m
  <2> QED
    BY <2>1, <2>2 DEF Objects
<1> HIDE DEF os, made, e
<1>14. DOMAIN e.map = DOMAIN d.map \cup {k}
  BY <1>7, <1>12
<1>15. Box(e, k) = <<>> /\ Len(Box(e, k)) = 0
  BY <1>7, <1>11, <1>12, <1>13, EmptySeq DEF Box
<1>16. Box(e, p) = Append(Box(d, p), n)
  <2>1. e.map[p] = m
    BY <1>4, <1>7, <1>12
  <2>2. made.objs[m] = d.objs[m]
    BY <1>2, <1>7
  <2> QED
    BY <1>11, <1>12, <1>13, <2>1, <2>2 DEF Box
<1>17. ASSUME NEW x \in DOMAIN d.map, x # k, x # p PROVE Box(e, x) = Box(d, x)
  <2>1. e.map[x] = d.map[x]
    BY <1>7, <1>12, <1>17
  <2>2. d.map[x] \in 1..Len(d.objs) /\ d.objs[d.map[x]].id = x
    BY <1>1, InMap
  <2>3. d.objs[m].id = p
    BY <1>1, InMap
  <2>4. d.map[x] # m
    BY <1>17, <2>2, <2>3
  <2>5. d.map[x] \in DOMAIN made.objs /\ made.objs[d.map[x]] = d.objs[d.map[x]]
    BY <1>2, <1>7, <2>2
  <2> HIDE DEF m
  <2> QED
    BY <1>12, <1>13, <2>1, <2>4, <2>5 DEF Box
<1>18. n \in DOMAIN e.objs /\ n \in Nat /\ Len(Box(d, p)) + 1 = j
  <2>1. DOMAIN os = DOMAIN made.objs
    BY DEF os
  <2> QED
    BY <1>2, <1>7, <1>11, <1>12, <2>1
<1>19. /\ Len(Box(e, p)) = j /\ Box(e, p)[j] = n
       /\ \A i \in 1..(j - 1) : Box(e, p)[i] = Box(d, p)[i]
  <2>1. Box(d, p) \in Seq(Nat)
    <3> DOMAIN d.objs \subseteq Nat
      BY <1>2
    <3> QED
      BY <1>2, SeqMonotonic
  <2> QED
    BY <1>16, <1>18, <2>1, AppendProperties
<1> HIDE DEF n, m
<1>20. ASSUME NEW x \in DOMAIN e.map PROVE Filled(e, x)
  <2>1. CASE x = k
    BY <1>2, <1>3, <1>15, <2>1, DocType, LenProperties DEF Filled
  <2>2. CASE x = p
    <3>1. ASSUME NEW i \in 1..Len(Box(e, p))
          PROVE  doc[p][i] \in DOMAIN e.map /\ Box(e, p)[i] = e.map[doc[p][i]]
      <4>1. CASE i = j
        <5>1. doc[p][i] = k
          BY <4>1 DEF k
        <5> QED
          BY <1>7, <1>12, <1>14, <1>19, <4>1, <5>1
      <4>2. CASE i # j
        <5>1. i \in 1..(j - 1) /\ i \in 1..Len(Box(d, p))
          BY <1>19, <4>2
        <5>2. doc[p][i] \in DOMAIN d.map /\ Box(d, p)[i] = d.map[doc[p][i]]
          BY <5>1 DEF Partial, Filled
        <5>3. doc[p][i] # k
          <6>1. i \in DOMAIN doc[p] /\ j \in DOMAIN doc[p]
            BY <1>2, <5>1, LenProperties
          <6> QED
            BY <1>2, <4>2, <6>1, DocsOK DEF k
        <5> QED
          BY <1>7, <1>12, <1>14, <1>19, <5>1, <5>2, <5>3
      <4> QED
        BY <4>1, <4>2
    <3>2. Len(Box(e, p)) <= Len(doc[p])
      BY <1>2, <1>19
    <3> QED
      BY <2>2, <3>1, <3>2 DEF Filled
  <2>3. CASE x # k /\ x # p
    <3>1. x \in DOMAIN d.map /\ Box(e, x) = Box(d, x)
      BY <1>14, <1>17, <2>3
    <3>2. Filled(d, x) /\ x \in DOMAIN doc
      BY <1>1, <3>1, InMap DEF Partial
    <3>3. ASSUME NEW i \in 1..Len(Box(d, x)) PROVE doc[x][i] # k
      <4>1. i \in DOMAIN doc[x]
        <5> doc[x] \in Seq(DOMAIN doc) /\ Len(Box(d, x)) \in Nat /\ Len(Box(d, x)) <= Len(doc[x])
          BY <1>1, <3>1, <3>2, InMap DEF Filled
        <5> QED
          BY LenProperties
      <4>2. ASSUME doc[x][i] = k PROVE FALSE
        <5> k \in Range(doc[x])
          BY <4>1, <4>2 DEF Range
        <5> x = p
          BY <1>2, <1>3, <3>2, OneParent
        <5> QED
          BY <2>3
      <4> QED
        BY <4>2
    <3> QED
      BY <1>7, <1>12, <1>14, <3>1, <3>2, <3>3 DEF Filled
  <2> QED
    BY <2>1, <2>2, <2>3
<1>21. e.top = <<>> \/ (Root \in DOMAIN e.map /\ e.top = <<e.map[Root]>>)
  <2>1. Root # k
    BY <1>5, ReachedRoot
  <2> QED
    BY <1>7, <1>12, <1>14, <2>1 DEF Partial
<1>22. Partial(e)
  BY <1>10, <1>12, <1>20, <1>21 DEF Partial
<1> QED
  BY <1>14, <1>15, <1>17, <1>19, <1>22 DEF k, e

\* The root is added to an empty Tree.root.
LEMMA AddRoot ==
    ASSUME doc \in Docs, NEW d, Partial(d), d.top = <<>>
    PROVE  LET e == add(d, NewNodeInfo(Root))
           IN  /\ Partial(e) /\ DOMAIN e.map = DOMAIN d.map \cup {Root}
               /\ Len(Box(e, Root)) = 0
               /\ \A x \in DOMAIN d.map \ {Root} : Len(Box(e, x)) = Len(Box(d, x))
<1> DEFINE k == Root
           n == Len(d.objs) + 1
           made == Made(d, NewNodeInfo(k))
           e == add(d, NewNodeInfo(k))
<1>1. d \in Doms(Now) /\ ~d.threw /\ Now \in SUBSET AllInfos
  BY NowType DEF Partial
<1>2. k \in DOMAIN doc /\ Parent(k) = {}
  BY DocType, ReachedRoot
<1> HIDE DEF k
<1>3. NewNodeInfo(k) \in Now /\ NewNodeInfo(k).id = k /\ NewNodeInfo(k).parent = {}
  BY <1>2 DEF Now, NewNodeInfo
<1>4. /\ made \in Doms(Now) /\ made.top = d.top /\ made.threw = d.threw
      /\ DOMAIN made.objs = 1..n /\ Len(d.objs) \in Nat
      /\ made.objs[n].parent = {} /\ made.objs[n].box = <<>>
      /\ \A i \in 1..Len(d.objs) : made.objs[i] = d.objs[i]
      /\ DOMAIN made.map = DOMAIN d.map \cup {k} /\ made.map[k] = n
      /\ \A id \in DOMAIN d.map : id # k => made.map[id] = d.map[id]
  BY <1>1, <1>3, MadeType
<1>5. e = [made EXCEPT !.top = Append(@, n)]
  <2>1. e = IF d.threw THEN d
            ELSE CASE NoParent(made, n) -> [made EXCEPT !.top = Append(@, n)]
                   [] Unknown(made, n)  -> Throw(made)
                   [] OTHER             -> [made EXCEPT !.objs[Owner(made, n)].box = Append(@, n)]
    BY DEF add, Made
  <2>2. NoParent(made, n) /\ ~Unknown(made, n)
    BY <1>4 DEF NoParent, Unknown
  <2> HIDE DEF made, n, e
  <2> QED
    BY <1>1, <2>1, <2>2
<1>6. e \in Doms(Now)
  BY <1>1, <1>3, AddType
<1>7. e.objs = made.objs /\ e.map = made.map /\ e.top = <<n>> /\ ~e.threw
  <2>1. PICK a, b, c, t : made = [objs |-> a, map |-> b, top |-> c, threw |-> t]
    BY <1>4 DEF Doms, Shapes
  <2> DEFINE tp == Append(made.top, n)
  <2>2. e = [objs |-> a, map |-> b, top |-> tp, threw |-> t]
    <3> HIDE DEF made, n, e
    <3> QED
      BY <1>5, <2>1
  <2>3. tp = <<n>>
    BY <1>4
  <2> HIDE DEF tp
  <2>4. made.objs = a /\ made.map = b /\ made.threw = t
    <3> HIDE DEF made
    <3> QED
      BY <2>1
  <2> HIDE DEF made, e
  <2>5. e.objs = a /\ e.map = b /\ e.top = tp /\ e.threw = t
    BY <2>2
  <2> QED
    BY <1>1, <1>4, <2>3, <2>4, <2>5
<1> HIDE DEF made, e
<1>8. DOMAIN e.map = DOMAIN d.map \cup {k} /\ e.map[k] = n
  BY <1>4, <1>7
<1>9. Box(e, k) = <<>> /\ Len(Box(e, k)) = 0
  BY <1>4, <1>7, EmptySeq DEF Box
<1>10. ASSUME NEW x \in DOMAIN d.map, x # k PROVE Box(e, x) = Box(d, x)
  <2>1. e.map[x] = d.map[x]
    BY <1>4, <1>7, <1>10
  <2>2. d.map[x] \in 1..Len(d.objs)
    BY <1>1, InMap
  <2> QED
    BY <1>4, <1>7, <2>1, <2>2 DEF Box
<1>11. ASSUME NEW x \in DOMAIN e.map PROVE Filled(e, x)
  <2>1. CASE x = k
    <3> Len(doc[k]) \in Nat
      BY <1>2, DocType, LenProperties
    <3> QED
      BY <1>9, <2>1 DEF Filled
  <2>2. CASE x # k
    <3>1. x \in DOMAIN d.map /\ Box(e, x) = Box(d, x)
      BY <1>8, <1>10, <2>2
    <3>2. Filled(d, x) /\ x \in DOMAIN doc /\ doc[x] \in Seq(DOMAIN doc)
      BY <1>1, <3>1, InMap DEF Partial
    <3>3. ASSUME NEW i \in 1..Len(Box(d, x)) PROVE doc[x][i] # k
      <4>1. i \in DOMAIN doc[x]
        <5> Len(Box(d, x)) \in Nat /\ Len(Box(d, x)) <= Len(doc[x])
          BY <1>1, <3>1, <3>2, InMap DEF Filled
        <5> QED
          BY <3>2, LenProperties
      <4> QED
        BY <1>2, <3>2, <4>1 DEF Parent, Range
    <3> QED
      BY <1>4, <1>7, <1>8, <3>1, <3>2, <3>3 DEF Filled
  <2> QED
    BY <2>1, <2>2
<1>12. Partial(e)
  <2> k = Root
    BY DEF k
  <2> QED
    BY <1>6, <1>7, <1>8, <1>11 DEF Partial
<1> QED
  BY <1>8, <1>9, <1>10, <1>12 DEF k, e
-----------------------------------------------------------------------------
(* Adding what is below a node.                                            *)

Under(i) == Reached(doc, {i})

\* A panel into which the node can be put, in which what is below it has all
\* of its children or none.
Ready(d, i) ==
    /\ Partial(d)
    /\ IF i = Root THEN d.top = <<>>
       ELSE \E p \in DOMAIN d.map : \E j \in 1..Len(doc[p]) :
               doc[p][j] = i /\ Len(Box(d, p)) = j - 1
    /\ \A x \in DOMAIN d.map \cap Under(i) : Whole(d, x)

\* Only what is below the node has been added, and that has all of its children
\* or none.
Spread(d, e, i) ==
    /\ Partial(e)
    /\ DOMAIN d.map \subseteq DOMAIN e.map /\ DOMAIN e.map \subseteq DOMAIN d.map \cup Under(i)
    /\ \A x \in DOMAIN e.map \cap Under(i) : Whole(e, x)

\* The node's parent has one child more, nothing else but what is below the node
\* has changed.
Effect(d, e, i) ==
    /\ Spread(d, e, i)
    /\ \A x \in DOMAIN d.map \ Under(i) :
          Len(Box(e, x)) = IF i \in Range(doc[x]) THEN Len(Box(d, x)) + 1 ELSE Len(Box(d, x))

Places(g, l) ==
    \A i \in DOMAIN doc : \A d \in Doms(Now) : Ready(d, i) => Effect(d, Added(d, g[l][i]), i)

\* The lists of a node's children are added below it, one after the other.
LEMMA AddKids ==
    ASSUME doc \in Docs, NEW levels \in Nat, NEW g, IsLevels(g, levels),
           NEW l \in 0..levels, l = 0 \/ Places(g, l),
           NEW i \in DOMAIN doc, NEW d, Partial(d), i \in DOMAIN d.map, Len(Box(d, i)) = 0,
           \A x \in DOMAIN d.map \cap Under(i) : Whole(d, x)
    PROVE  LET e == Added(d, FlattenSeq(Kids(g[l], i)))
           IN  /\ Spread(d, e, i)
               /\ \A x \in DOMAIN d.map \ Under(i) : Len(Box(e, x)) = Len(Box(d, x))
<1> DEFINE ss == Kids(g[l], i)
           m == Len(doc[i])
<1>1. /\ Now \in SUBSET AllInfos /\ d \in Doms(Now)
      /\ g[l] \in [DOMAIN doc -> Seq(Now)]
  BY NowType DEF IsLevels, Partial
<1>2. /\ doc[i] \in Seq(DOMAIN doc) /\ m \in Nat /\ DOMAIN doc[i] = 1..m
      /\ ss \in Seq(Seq(Now)) /\ Len(ss) = m
  BY <1>1, DocType, KidsType, LenProperties
<1>3. \A c \in 1..m : ss[c] = g[l][doc[i][c]]
  BY <1>2 DEF Kids
<1> HIDE DEF ss, m
<1>4. PICK f \in [0..m -> Seq(Now)] : Flattens(f, ss)
  BY <1>2, FlattenRun
<1>5. /\ f[0] = <<>> /\ f[m] = FlattenSeq(ss)
      /\ \A c \in 1..m : f[c] = f[c - 1] \o ss[c]
  BY <1>2, <1>4 DEF Flattens
<1>6. i \in Under(i) /\ Under(i) \subseteq DOMAIN doc
  <2> {i} \in SUBSET DOMAIN doc
    OBVIOUS
  <2> QED
    BY ReachedClosed DEF Under
<1> DEFINE at(c) == Added(d, f[c])
           Q(c) == /\ Partial(at(c))
                   /\ DOMAIN d.map \subseteq DOMAIN at(c).map
                   /\ DOMAIN at(c).map \subseteq DOMAIN d.map \cup Under(i)
                   /\ \A x \in DOMAIN at(c).map \cap Under(i) : x # i => Whole(at(c), x)
                   /\ \A x \in DOMAIN d.map \ Under(i) : Len(Box(at(c), x)) = Len(Box(d, x))
<1>7. CASE l = 0
  <2>1. \A c \in 1..m : ss[c] = <<>>
    <3> SUFFICES ASSUME NEW c \in 1..m PROVE ss[c] = <<>>
      OBVIOUS
    <3>1. doc[i][c] \in DOMAIN doc
      BY <1>2, ElementOfSeq DEF m
    <3> QED
      BY <1>3, <1>7, <3>1 DEF IsLevels
  <2>2. f[m] \in {<<>>}
    <3> DEFINE E == {<<>>}
    <3> HIDE DEF at, Q
    <3>1. f[0] \in E
      BY <1>5
    <3>2. ASSUME NEW c \in 1..m, f[c - 1] \in E PROVE f[c] \in E
      <4>1. f[c - 1] = <<>> /\ ss[c] = <<>> /\ f[c] = f[c - 1] \o ss[c]
        BY <1>5, <2>1, <3>2
      <4>2. <<>> \o <<>> = <<>>
        OBVIOUS
      <4> QED
        BY <4>1, <4>2
    <3>3. f[m] \in E
      <4> HIDE DEF E
      <4> QED
        BY <1>2, <3>1, <3>2, Stays
    <3> QED
      BY <3>3
  <2>3. Added(d, FlattenSeq(ss)) = d
    <3> NewNodeInfo(i) \in Now
      BY DEF Now
    <3> QED
      BY <1>1, <1>5, <2>2, AddedOne
  <2>4. Spread(d, d, i)
    BY DEF Spread
  <2> QED
    BY <2>3, <2>4 DEF ss
<1>8. CASE l # 0
  <2>1. Places(g, l)
    BY <1>8
  <2>2. at(0) = d
    <3> NewNodeInfo(i) \in Now
      BY DEF Now
    <3> QED
      BY <1>1, <1>5, AddedOne
  <2>3. Q(0) /\ Len(Box(at(0), i)) = 0
    BY <2>2
  <2>4. ASSUME NEW c \in Nat, c < m, Q(c), Len(Box(at(c), i)) = c
        PROVE  Q(c + 1) /\ Len(Box(at(c + 1), i)) = c + 1
    <3> DEFINE a == at(c)
               b == at(c + 1)
               k == doc[i][c + 1]
    <3>1. /\ c \in 0..m /\ c + 1 \in 1..m /\ (c + 1) - 1 = c /\ c + 1 \in 1..Len(doc[i])
          /\ f[c] \in Seq(Now) /\ ss[c + 1] \in Seq(Now)
      <4> HIDE DEF at, Q
      <4>1. c \in 0..m /\ c + 1 \in 1..m /\ (c + 1) - 1 = c
        BY <1>2, <2>4
      <4>2. c + 1 \in 1..Len(doc[i])
        BY <4>1 DEF m
      <4>3. f[c] \in Seq(Now)
        BY <1>4, <4>1
      <4>4. ss[c + 1] \in Seq(Now)
        BY <1>2, <4>1, ElementOfSeq
      <4> QED
        BY <4>1, <4>2, <4>3, <4>4
    <3>2. b = Added(a, ss[c + 1])
      <4> f[c + 1] = f[c] \o ss[c + 1]
        BY <1>5, <3>1
      <4> QED
        BY <1>1, <3>1, AddedConcat
    <3>3. k \in DOMAIN doc /\ k \in Range(doc[i]) /\ ss[c + 1] = g[l][k]
      <4> c + 1 \in DOMAIN doc[i]
        BY <1>2, <3>1
      <4> QED
        BY <1>2, <1>3, <3>1, ElementOfSeq DEF Range
    <3>4. a \in Doms(Now) /\ i \in DOMAIN a.map
      BY <2>4 DEF Partial
    <3>5. i \notin Under(k) /\ Under(k) \subseteq Under(i)
      BY <3>3, Acyclic, ReachedDown DEF Under
    <3>6. Ready(a, k)
      <4>1. k # Root
        BY <3>3, ReachedRoot DEF Parent
      <4>2. doc[i][c + 1] = k /\ Len(Box(a, i)) = (c + 1) - 1
        BY <2>4, <3>1
      <4>3. \A x \in DOMAIN a.map \cap Under(k) : Whole(a, x)
        BY <2>4, <3>5
      <4>4. Partial(a)
        BY <2>4
      <4> HIDE DEF a, k
      <4> QED
        BY <3>1, <3>4, <4>1, <4>2, <4>3, <4>4 DEF Ready
    <3>7. Effect(a, b, k)
      <4> HIDE DEF a, b, k
      <4> QED
        BY <2>1, <3>2, <3>3, <3>4, <3>6 DEF Places
    <3> HIDE DEF a, b, k
    <3>8. \A x \in DOMAIN a.map \ Under(k) :
             Len(Box(b, x)) = IF x = i THEN Len(Box(a, x)) + 1 ELSE Len(Box(a, x))
      <4>1. \A x \in DOMAIN a.map : k \in Range(doc[x]) => x = i
        BY <3>3, <3>4, InMap, OneParent
      <4> QED
        BY <3>3, <3>7, <4>1 DEF Effect
    <3>9. /\ Partial(b) /\ DOMAIN a.map \subseteq DOMAIN b.map
          /\ DOMAIN b.map \subseteq DOMAIN a.map \cup Under(k)
          /\ \A x \in DOMAIN b.map \cap Under(k) : Whole(b, x)
      BY <3>7 DEF Effect, Spread
    <3>10. /\ DOMAIN d.map \subseteq DOMAIN a.map /\ DOMAIN a.map \subseteq DOMAIN d.map \cup Under(i)
           /\ \A x \in DOMAIN a.map \cap Under(i) : x # i => Whole(a, x)
           /\ \A x \in DOMAIN d.map \ Under(i) : Len(Box(a, x)) = Len(Box(d, x))
           /\ Len(Box(a, i)) = c
      BY <2>4 DEF a
    <3>11. ASSUME NEW x \in DOMAIN b.map \cap Under(i), x # i PROVE Whole(b, x)
      <4>1. CASE x \in Under(k)
        BY <3>9, <4>1
      <4>2. CASE x \notin Under(k)
        BY <3>8, <3>9, <3>10, <3>11, <4>2 DEF Whole
      <4> QED
        BY <4>1, <4>2
    <3>12. \A x \in DOMAIN d.map \ Under(i) : Len(Box(b, x)) = Len(Box(d, x))
      BY <1>6, <3>5, <3>8, <3>10
    <3>13. Len(Box(b, i)) = c + 1
      BY <3>4, <3>5, <3>8, <3>10
    <3> QED
      BY <3>5, <3>9, <3>10, <3>11, <3>12, <3>13 DEF b
  <2>5. Q(m) /\ Len(Box(at(m), i)) = m
    <3> DEFINE T == {c \in Nat : c <= m => Q(c) /\ Len(Box(at(c), i)) = c}
    <3> HIDE DEF Q, at
    <3>1. 0 \in T
      BY <2>3
    <3>2. ASSUME NEW c \in Nat, c \in T PROVE c + 1 \in T
      BY <1>2, <2>4, <3>2
    <3>3. \A c \in Nat : c \in T
      <4> HIDE DEF T
      <4> QED
        BY <3>1, <3>2, Induct
    <3> QED
      BY <1>2, <3>3
  <2>6. at(m) = Added(d, FlattenSeq(ss))
    BY <1>5
  <2>7. Whole(at(m), i)
    BY <2>5 DEF Whole, m
  <2>8. Spread(d, at(m), i)
    <3>1. \A x \in DOMAIN at(m).map \cap Under(i) : Whole(at(m), x)
      <4> HIDE DEF at
      <4> QED
        BY <2>5, <2>7
    <3> HIDE DEF at
    <3> QED
      BY <2>5, <3>1 DEF Spread
  <2> QED
    <3> HIDE DEF at
    <3> QED
      BY <2>5, <2>6, <2>8 DEF ss
<1> QED
  BY <1>7, <1>8

\* The node itself is added, closed, to its parent or to Tree.root.
LEMMA AddNode ==
    ASSUME doc \in Docs, NEW i \in DOMAIN doc, NEW d, Ready(d, i)
    PROVE  LET e == add(d, NewNodeInfo(i))
           IN  /\ Partial(e) /\ DOMAIN e.map = DOMAIN d.map \cup {i} /\ Len(Box(e, i)) = 0
               /\ \A x \in DOMAIN d.map \ {i} :
                     Len(Box(e, x)) = IF i \in Range(doc[x]) THEN Len(Box(d, x)) + 1
                                      ELSE Len(Box(d, x))
<1> DEFINE e == add(d, NewNodeInfo(i))
<1>1. Partial(d) /\ d \in Doms(Now)
  BY DEF Ready, Partial
<1>2. CASE i = Root
  <2>1. d.top = <<>>
    BY <1>2 DEF Ready
  <2>2. /\ Partial(e) /\ DOMAIN e.map = DOMAIN d.map \cup {Root} /\ Len(Box(e, Root)) = 0
        /\ \A x \in DOMAIN d.map \ {Root} : Len(Box(e, x)) = Len(Box(d, x))
    BY <1>1, <1>2, <2>1, AddRoot
  <2> HIDE DEF e
  <2>3. ASSUME NEW x \in DOMAIN d.map PROVE i \notin Range(doc[x])
    <3> x \in DOMAIN doc
      BY <1>1, InMap
    <3> QED
      BY <1>2, ReachedRoot DEF Parent
  <2>4. QED
    BY <1>2, <2>2, <2>3 DEF e
<1>3. CASE i # Root
  <2>1. PICK p \in DOMAIN d.map : \E j \in 1..Len(doc[p]) : doc[p][j] = i /\ Len(Box(d, p)) = j - 1
    BY <1>3 DEF Ready
  <2>2. PICK j \in 1..Len(doc[p]) : doc[p][j] = i /\ Len(Box(d, p)) = j - 1
    BY <2>1
  <2>3. /\ Partial(e) /\ DOMAIN e.map = DOMAIN d.map \cup {i}
        /\ Len(Box(e, i)) = 0 /\ Len(Box(e, p)) = j
        /\ \A x \in DOMAIN d.map \ {i, p} : Len(Box(e, x)) = Len(Box(d, x))
    BY <1>1, <2>2, AddChild
  <2> HIDE DEF e
  <2>4. p \in DOMAIN doc /\ i \in Range(doc[p])
    <3>1. p \in DOMAIN doc /\ doc[p] \in Seq(DOMAIN doc)
      BY <1>1, InMap
    <3>2. j \in DOMAIN doc[p]
      BY <3>1, LenProperties
    <3> QED
      BY <2>2, <3>1, <3>2 DEF Range
  <2>5. ASSUME NEW x \in DOMAIN d.map, i \in Range(doc[x]) PROVE x = p
    <3> x \in DOMAIN doc
      BY <1>1, InMap
    <3> QED
      BY <2>4, <2>5, OneParent
  <2>6. Len(Box(e, p)) = Len(Box(d, p)) + 1
    BY <2>2, <2>3
  <2>7. ASSUME NEW x \in DOMAIN d.map \ {i}
        PROVE  Len(Box(e, x)) = IF i \in Range(doc[x]) THEN Len(Box(d, x)) + 1 ELSE Len(Box(d, x))
    <3>1. CASE x = p
      BY <2>4, <2>6, <3>1
    <3>2. CASE x # p
      <4>1. i \notin Range(doc[x])
        BY <2>5, <3>2
      <4>2. Len(Box(e, x)) = Len(Box(d, x))
        BY <2>3, <3>2
      <4> QED
        BY <4>1, <4>2
    <3> QED
      BY <3>1, <3>2
  <2> QED
    BY <2>3, <2>7 DEF e
<1> QED
  BY <1>2, <1>3

\* What expandLevels computes of a node is added where the node belongs.
LEMMA AddLevel ==
    ASSUME doc \in Docs, NEW levels \in Nat, NEW g, IsLevels(g, levels),
           NEW l \in 0..levels, l + 1 \in 1..levels, l = 0 \/ Places(g, l)
    PROVE  Places(g, l + 1)
<1> SUFFICES ASSUME NEW i \in DOMAIN doc, NEW d \in Doms(Now), Ready(d, i)
             PROVE  Effect(d, Added(d, g[l + 1][i]), i)
  BY DEF Places
<1> DEFINE rest == FlattenSeq(Kids(g[l], i))
           a == add(d, NewNodeInfo(i))
           e == Added(a, rest)
<1>1. Now \in SUBSET AllInfos /\ NewNodeInfo(i) \in Now
  BY NowType DEF Now
<1>2. rest \in Seq(Now)
  <2> g[l] \in [DOMAIN doc -> Seq(Now)]
    BY DEF IsLevels
  <2> QED
    BY KidsType, FlattenType
<1>3. g[l + 1][i] = <<NewNodeInfo(i)>> \o rest
  <2> (l + 1) - 1 = l
    OBVIOUS
  <2> QED
    BY DEF IsLevels
<1>4. Added(d, g[l + 1][i]) = e
  <2> <<NewNodeInfo(i)>> \in Seq(Now)
    BY <1>1
  <2> HIDE DEF rest
  <2> QED
    BY <1>1, <1>2, <1>3, AddedConcat, AddedOne
<1>5. /\ Partial(a) /\ DOMAIN a.map = DOMAIN d.map \cup {i} /\ Len(Box(a, i)) = 0
      /\ \A x \in DOMAIN d.map \ {i} :
            Len(Box(a, x)) = IF i \in Range(doc[x]) THEN Len(Box(d, x)) + 1 ELSE Len(Box(d, x))
  BY AddNode
<1> HIDE DEF a
<1>6. i \in Under(i) /\ Under(i) \subseteq DOMAIN doc
  <2> {i} \in SUBSET DOMAIN doc
    OBVIOUS
  <2> QED
    BY ReachedClosed DEF Under
<1>7. ASSUME NEW x \in DOMAIN a.map \cap Under(i) PROVE Whole(a, x)
  <2>1. CASE x = i
    BY <1>5, <2>1 DEF Whole
  <2>2. CASE x # i
    <3>1. x \in DOMAIN d.map /\ Whole(d, x)
      BY <1>5, <2>2 DEF Ready
    <3>2. i \notin Range(doc[x])
      <4> x \in DOMAIN doc
        BY <1>6
      <4> QED
        BY Acyclic DEF Under
    <3>3. Len(Box(a, x)) = Len(Box(d, x))
      BY <1>5, <2>2, <3>1, <3>2
    <3> QED
      BY <3>1, <3>3 DEF Whole
  <2> QED
    BY <2>1, <2>2
<1>8. /\ Spread(a, e, i)
      /\ \A x \in DOMAIN a.map \ Under(i) : Len(Box(e, x)) = Len(Box(a, x))
  <2> i \in DOMAIN a.map
    BY <1>5
  <2> QED
    BY <1>5, <1>7, AddKids
<1> HIDE DEF e
<1>9. Spread(d, e, i)
  BY <1>5, <1>6, <1>8 DEF Spread
<1>10. \A x \in DOMAIN d.map \ Under(i) :
          Len(Box(e, x)) = IF i \in Range(doc[x]) THEN Len(Box(d, x)) + 1 ELSE Len(Box(d, x))
  BY <1>5, <1>6, <1>8
<1> QED
  BY <1>4, <1>9, <1>10 DEF Effect

\* On every level.
LEMMA PlacesAll ==
    ASSUME doc \in Docs, NEW levels \in Nat, NEW g, IsLevels(g, levels)
    PROVE  \A l \in 1..levels : Places(g, l)
<1> DEFINE T == {l \in Nat : l + 1 <= levels => Places(g, l + 1)}
<1>1. 0 \in T
  <2> SUFFICES ASSUME 0 + 1 <= levels PROVE Places(g, 0 + 1)
    OBVIOUS
  <2> 0 \in 0..levels /\ 0 + 1 \in 1..levels
    OBVIOUS
  <2> QED
    BY AddLevel
<1>2. ASSUME NEW l \in Nat, l \in T PROVE l + 1 \in T
  <2> SUFFICES ASSUME (l + 1) + 1 <= levels PROVE Places(g, (l + 1) + 1)
    OBVIOUS
  <2>1. l + 1 \in 0..levels /\ (l + 1) + 1 \in 1..levels /\ Places(g, l + 1)
    BY <1>2
  <2> QED
    BY <2>1, AddLevel
<1>3. \A l \in Nat : l \in T
  <2> HIDE DEF T
  <2> QED
    BY <1>1, <1>2, Induct
<1>4. ASSUME NEW l \in 1..levels PROVE Places(g, l)
  <2>1. l - 1 \in Nat /\ (l - 1) + 1 = l /\ l <= levels
    OBVIOUS
  <2> QED
    BY <1>3, <2>1
<1> QED
  BY <1>4
-----------------------------------------------------------------------------
(* The panel while the user waits and only clicks.                         *)

\* It shows the page: every node in it is closed or has all of its children.
Showing(d) == Partial(d) /\ \A id \in DOMAIN d.map : Whole(d, id)

\* The first answer shows the page.
LEMMA Started ==
    ASSUME doc \in Docs, NEW d, Partial(d), DOMAIN d.map = {}, d.top = <<>>
    PROVE  Showing(Added(d, expandLevels(Root, 10)))
<1>1. Root \in DOMAIN doc /\ Under(Root) = DOMAIN doc
  BY DocType, ReachedRoot DEF Under
<1>2. PICK g : IsLevels(g, 10)
  BY LevelsRun
<1>3. Places(g, 10)
  <2> 10 \in Nat /\ 10 \in 1..10
    OBVIOUS
  <2> QED
    BY <1>2, PlacesAll
<1> DEFINE e == Added(d, expandLevels(Root, 10))
<1>4. e = Added(d, g[10][Root])
  BY <1>1, <1>2 DEF IsLevels
<1>5. Ready(d, Root) /\ d \in Doms(Now)
  BY DEF Ready, Partial
<1> HIDE DEF e
<1>6. Spread(d, e, Root)
  BY <1>1, <1>3, <1>4, <1>5 DEF Places, Effect
<1>7. Partial(e) /\ \A x \in DOMAIN e.map : Whole(e, x)
  BY <1>1, <1>6 DEF Spread
<1> QED
  BY <1>7 DEF Showing, e

\* And the answer to a click on a closed node does.
LEMMA Opened ==
    ASSUME doc \in Docs, NEW d, Showing(d), NEW id \in DOMAIN d.map, Len(Box(d, id)) = 0
    PROVE  /\ expandLevels(id, 2) # <<>>
           /\ Showing(Added(d, Tail(expandLevels(id, 2))))
<1>1. Partial(d) /\ d \in Doms(Now) /\ id \in DOMAIN doc
  BY InMap DEF Showing, Partial
<1>2. PICK g : IsLevels(g, 2)
  BY LevelsRun
<1>3. Places(g, 1) /\ 1 \in 0..2 /\ 2 \in 1..2 /\ 2 - 1 = 1 /\ 2 \in Nat
  <2> 2 \in Nat /\ 1 \in 1..2
    OBVIOUS
  <2> QED
    BY <1>2, PlacesAll
<1> DEFINE s == expandLevels(id, 2)
           rest == FlattenSeq(Kids(g[1], id))
           e == Added(d, rest)
<1>4. rest \in Seq(Now) /\ NewNodeInfo(id) \in Now
  <2> g[1] \in [DOMAIN doc -> Seq(Now)]
    BY <1>2, <1>3 DEF IsLevels
  <2> QED
    BY <1>1, KidsType, FlattenType DEF Now
<1>5. s = <<NewNodeInfo(id)>> \o rest
  <2> g[2][id] = <<NewNodeInfo(id)>> \o FlattenSeq(Kids(g[2 - 1], id))
    BY <1>1, <1>2, <1>3 DEF IsLevels
  <2> s = g[2][id]
    BY <1>1, <1>2 DEF IsLevels
  <2> HIDE DEF s
  <2> QED
    BY <1>3
<1>6. s # <<>> /\ Tail(s) = rest
  <2> DEFINE info == NewNodeInfo(id)
  <2>1. s = <<info>> \o rest /\ info \in Now
    BY <1>4, <1>5
  <2> HIDE DEF s, rest, info
  <2>2. rest \in Seq(Now)
    BY <1>4
  <2> QED
    BY <2>1, <2>2
<1> HIDE DEF s
<1>7. /\ Spread(d, e, id)
      /\ \A x \in DOMAIN d.map \ Under(id) : Len(Box(e, x)) = Len(Box(d, x))
  <2> \A x \in DOMAIN d.map \cap Under(id) : Whole(d, x)
    BY DEF Showing
  <2> QED
    BY <1>1, <1>2, <1>3, AddKids
<1> HIDE DEF e
<1>8. ASSUME NEW x \in DOMAIN e.map PROVE Whole(e, x)
  <2>1. CASE x \in Under(id)
    BY <1>7, <2>1 DEF Spread
  <2>2. CASE x \notin Under(id)
    <3> x \in DOMAIN d.map
      BY <1>7, <2>2 DEF Spread
    <3> QED
      BY <1>7, <2>2 DEF Showing, Whole
  <2> QED
    BY <2>1, <2>2
<1>9. Showing(e)
  BY <1>7, <1>8 DEF Spread, Showing
<1> QED
  BY <1>6, <1>9 DEF e, s

\* A click closes a node.
LEMMA Closes ==
    ASSUME doc \in Docs, NEW d, Showing(d), NEW id \in DOMAIN d.map
    PROVE  Showing([d EXCEPT !.objs = [d.objs EXCEPT ![d.map[id]].box = <<>>]])
<1> DEFINE m == d.map[id]
           os == [d.objs EXCEPT ![m].box = <<>>]
           e == [d EXCEPT !.objs = os]
<1>1. d \in Doms(Now) /\ Partial(d) /\ ~d.threw
  BY DEF Showing, Partial
<1>2. m \in DOMAIN d.objs /\ <<>> \in Seq(DOMAIN d.objs)
  BY <1>1, InMap, EmptySeq
<1>3. e \in Doms(Now)
  BY <1>1, <1>2, BoxType
<1>4. e.objs = os /\ e.map = d.map /\ e.top = d.top /\ e.threw = d.threw
  <2>1. PICK a, b, c, t : d = [objs |-> a, map |-> b, top |-> c, threw |-> t]
    BY <1>1 DEF Doms, Shapes
  <2> HIDE DEF os
  <2> QED
    BY <2>1
<1> HIDE DEF e
<1>5. ASSUME NEW x \in DOMAIN d.map
      PROVE  Box(e, x) = <<>> \/ Box(e, x) = Box(d, x)
  <2>1. d.map[x] \in DOMAIN d.objs
    BY <1>1, InMap
  <2>2. d.objs[m] \in Objects
    <3>1. d.objs \in Seq(Objects)
      BY <1>1 DEF Doms, Shapes
    <3> QED
      BY <1>2, <3>1, RangeType, ElementOfSeq
  <2>3. os[d.map[x]].box = IF d.map[x] = m THEN <<>> ELSE d.objs[d.map[x]].box
    <3>1. os[d.map[x]] = IF d.map[x] = m THEN [d.objs[m] EXCEPT !.box = <<>>]
                         ELSE d.objs[d.map[x]]
      BY <1>2, <2>1
    <3>2. [d.objs[m] EXCEPT !.box = <<>>].box = <<>>
      BY <2>2 DEF Objects
    <3> HIDE DEF os
    <3> QED
      BY <3>1, <3>2
  <2> HIDE DEF os
  <2> QED
    BY <1>4, <2>3 DEF Box
<1> HIDE DEF os
<1>6. ASSUME NEW x \in DOMAIN e.map PROVE Filled(e, x) /\ Whole(e, x)
  <2>1. x \in DOMAIN d.map /\ Filled(d, x) /\ Whole(d, x) /\ Len(doc[x]) \in Nat
    BY <1>1, <1>4, InMap DEF Showing, Partial
  <2>2. CASE Box(e, x) = <<>>
    BY <2>1, <2>2 DEF Filled, Whole
  <2>3. CASE Box(e, x) = Box(d, x)
    BY <1>4, <2>1, <2>3 DEF Filled, Whole
  <2> QED
    BY <1>5, <2>1, <2>2, <2>3
<1>7. Showing(e)
  <2> d.top = <<>> \/ (Root \in DOMAIN d.map /\ d.top = <<d.map[Root]>>)
    BY <1>1 DEF Partial
  <2> QED
    BY <1>1, <1>3, <1>4, <1>6 DEF Showing, Partial
<1> QED
  BY <1>7 DEF e, os, m

\* What is in the page is in a set that has what is in Tree.root and, with an object,
\* what is in its container.
LEMMA BelowIn ==
    ASSUME NEW os, Len(os) \in Nat, NEW V, NEW ns \in SUBSET V,
           \A n \in V : Range(os[n].box) \subseteq V
    PROVE  Below(os, ns) \subseteq V
<1> DEFINE X == SUBSET V
           len == Len(os)
           more(S) == S \cup UNION {Range(os[n].box) : n \in S}
           P(f) == f = [k \in 0..len |-> IF k = 0 THEN ns ELSE more(f[k - 1])]
           g == CHOOSE f : P(f)
           step == [k \in 1..len |-> [S \in X |-> more(S)]]
<1>1. ASSUME NEW S \in X PROVE more(S) \in X
  OBVIOUS
<1>2. Below(os, ns) = g[len]
  BY DEF Below
<1> HIDE DEF more
<1>3. \E f : P(f)
  <2>1. step \in [1..len -> [X -> X]]
    BY <1>1
  <2>2. PICK f \in [0..len -> X] : Ran(f, ns, step, len)
    <3> HIDE DEF step, X
    <3> ns \in X
      BY DEF X
    <3> QED
      BY <2>1, Run
  <2>3. f[0] = ns
    BY <2>2 DEF Ran
  <2>4. ASSUME NEW k \in 1..len PROVE f[k] = more(f[k - 1])
    <3>1. f[k - 1] \in X
      <4>1. k - 1 \in 0..len
        OBVIOUS
      <4> HIDE DEF X, len
      <4> QED
        BY <2>2, <4>1
    <3>2. f[k] = step[k][f[k - 1]]
      <4> HIDE DEF step, X
      <4> QED
        BY <2>2 DEF Ran
    <3> QED
      BY <3>1, <3>2
  <2>5. P(f)
    <3> DEFINE F(k) == IF k = 0 THEN ns ELSE more(f[k - 1])
    <3>1. f = [k \in 0..len |-> f[k]]
      BY <2>2
    <3>2. ASSUME NEW k \in 0..len PROVE f[k] = F(k)
      <4>1. CASE k = 0
        BY <2>3, <4>1
      <4>2. CASE k # 0
        <5> k \in 1..len
          BY <4>2
        <5> QED
          BY <2>4, <4>2
      <4> QED
        BY <4>1, <4>2
    <3>3. f = [k \in 0..len |-> F(k)]
      <4> HIDE DEF F
      <4> QED
        BY <3>1, <3>2
    <3> QED
      BY <3>3
  <2> HIDE DEF P
  <2> QED
    BY <2>5
<1>4. P(g)
  <2> HIDE DEF P
  <2> QED
    BY <1>3
<1>5. \A k \in 0..len : g[k] = IF k = 0 THEN ns ELSE more(g[k - 1])
  <2> HIDE DEF g
  <2> QED
    BY <1>4
<1> HIDE DEF g, P, step
<1>6. g[len] \in X
  <2>1. g[0] \in X
    BY <1>5
  <2>2. ASSUME NEW k \in 1..len, g[k - 1] \in X PROVE g[k] \in X
    <3> g[k] = more(g[k - 1])
      BY <1>5
    <3> HIDE DEF X
    <3> QED
      BY <1>1, <2>2
  <2> HIDE DEF X
  <2> QED
    BY <2>1, <2>2, Stays
<1> QED
  BY <1>2, <1>6
-----------------------------------------------------------------------------
(* What holds while the user waits for the answers and only clicks.        *)

\* The panel has just been opened, nothing is on its way, or a closed node has
\* been clicked.
Starting == /\ calls.levels = <<{}>> /\ answer.levels \subseteq {expandLevels(Root, 10)}
            /\ objs = <<>> /\ map = << >> /\ top = <<>>
Idle     == /\ Showing(Dom) /\ calls.levels = <<>>
Opening  == /\ Showing(Dom)
            /\ \E id \in DOMAIN map :
                  /\ Len(Box(Dom, id)) = 0 /\ calls.levels = <<{id}>>
                  /\ answer.levels \subseteq {expandLevels(id, 2)}

Waits == /\ pending = {} /\ calls.to = <<>>
         /\ Starting \/ Idle \/ Opening

CalmInv == Inv /\ (calm => Waits)

\* Without a change of the page the program computes what it did.
LEMMA SameLevels ==
    ASSUME doc' = doc, NEW CONSTANT id, NEW CONSTANT levels
    PROVE  expandLevels(id, levels)' = expandLevels(id, levels)
BY DEF expandLevels, NewNodeInfo, Parent

\* A panel that shows the page does so while neither changes.
LEMMA ShowingSame ==
    ASSUME doc' = doc, NEW e, Dom' = e, Showing(e)
    PROVE  Showing(Dom)'
<1>1. Now' = Now
  BY DEF Now, NewNodeInfo, Parent
<1>2. Root' = Root
  BY DEF Root, Parent
<1>3. Partial(e) /\ \A id \in DOMAIN e.map : Whole(e, id)
  BY DEF Showing
<1>4. \A id : (Box(Dom, id))' = Box(e, id)
  BY DEF Box
<1>5. \A id : (Whole(Dom, id))' <=> Whole(e, id)
  BY <1>4 DEF Whole
<1>6. \A id : (Filled(Dom, id))' <=> Filled(e, id)
  BY <1>4 DEF Filled
<1>7. Partial(Dom)'
  BY <1>1, <1>2, <1>3, <1>6 DEF Partial
<1> QED
  BY <1>3, <1>5, <1>7 DEF Showing

\* A handler that made something that shows the page leaves a panel that does.
LEMMA ShowingMade ==
    ASSUME doc' = doc, NEW e, Becomes(e), Showing(e)
    PROVE  Showing(Dom)'
<1>1. e \in Shapes /\ ~e.threw
  BY DEF Showing, Partial, Doms
<1>2. PICK a, b, c, t : e = [objs |-> a, map |-> b, top |-> c, threw |-> t]
  BY <1>1 DEF Shapes
<1>3. t = FALSE
  BY <1>1, <1>2 DEF Shapes
<1>4. Dom' = [objs |-> a, map |-> b, top |-> c, threw |-> FALSE]
  BY <1>2 DEF Dom, Becomes
<1>5. Dom' = e
  BY <1>2, <1>3, <1>4
<1> QED
  BY <1>5, ShowingSame

\* Nothing that the panel and the answers to clicks depend on has changed.
LEMMA WaitsSame ==
    ASSUME Waits, UNCHANGED <<doc, pending, objs, map, top, calls, answer>>
    PROVE  Waits'
<1>1. Dom' = Dom
  BY DEF Dom
<1>2. CASE Starting
  <2>1. Root' = Root
    BY DEF Root, Parent
  <2>2. \A id : expandLevels(id, 10)' = expandLevels(id, 10)
    BY SameLevels
  <2>3. expandLevels(Root, 10)' = expandLevels(Root, 10)
    BY <2>1, <2>2
  <2> QED
    BY <1>2, <2>3 DEF Waits, Starting
<1>3. CASE Idle
  <2> Showing(Dom)'
    BY <1>1, <1>3, ShowingSame DEF Idle
  <2> QED
    BY <1>3 DEF Waits, Idle
<1>4. CASE Opening
  <2>1. Showing(Dom)'
    BY <1>1, <1>4, ShowingSame DEF Opening
  <2>2. PICK id \in DOMAIN map : /\ Len(Box(Dom, id)) = 0 /\ calls.levels = <<{id}>>
                                 /\ answer.levels \subseteq {expandLevels(id, 2)}
    BY <1>4 DEF Opening
  <2>3. expandLevels(id, 2)' = expandLevels(id, 2)
    BY SameLevels
  <2>4. Box(Dom, id)' = Box(Dom, id)
    BY <1>1 DEF Box
  <2> QED
    BY <2>1, <2>2, <2>3, <2>4 DEF Waits, Opening
<1> QED
  BY <1>2, <1>3, <1>4 DEF Waits

\* What is in the page, while it shows the page, is what Tree.nodes leads to.
LEMMA VisibleKnown ==
    ASSUME doc \in Docs, Showing(Dom), NEW n \in Visible
    PROVE  \E id \in DOMAIN map : n = map[id]
<1> DEFINE V == {map[id] : id \in DOMAIN map}
<1>1. Dom \in Doms(Now) /\ Partial(Dom) /\ Dom.map = map /\ Dom.objs = objs /\ Dom.top = top
  BY DEF Showing, Partial, Dom
<1>2. Len(objs) \in Nat
  BY <1>1, DomIs DEF Doms
<1>3. Range(top) \subseteq V
  <2> top = <<>> \/ (Root \in DOMAIN map /\ top = <<map[Root]>>)
    BY <1>1 DEF Partial
  <2> QED
    BY DEF Range
<1>4. ASSUME NEW x \in V PROVE Range(objs[x].box) \subseteq V
  <2>1. PICK id \in DOMAIN map : x = map[id]
    OBVIOUS
  <2>2. /\ Box(Dom, id) = objs[x].box /\ Filled(Dom, id)
        /\ Box(Dom, id) \in Seq(DOMAIN objs)
    BY <1>1, <2>1, InMap DEF Box, Partial
  <2>3. DOMAIN Box(Dom, id) = 1..Len(Box(Dom, id))
    BY <2>2, LenProperties
  <2>4. ASSUME NEW j \in 1..Len(Box(Dom, id)) PROVE Box(Dom, id)[j] \in V
    <3>1. doc[id][j] \in DOMAIN map /\ Box(Dom, id)[j] = map[doc[id][j]]
      BY <1>1, <2>2 DEF Filled
    <3> QED
      BY <3>1
  <2> HIDE DEF V
  <2> QED
    BY <2>2, <2>3, <2>4 DEF Range
<1>5. Visible \subseteq V
  <2> HIDE DEF V
  <2> QED
    BY <1>2, <1>3, <1>4, BelowIn DEF Visible
<1> QED
  BY <1>5

\* A click, when nothing is on its way.
LEMMA ClickWaits ==
    ASSUME Inv, Waits, NEW n \in DOMAIN objs, Click(n), ~InFlight
    PROVE  Waits'
<1>1. doc \in Docs /\ Showing(Dom) /\ calls.levels = <<>> /\ calls.to = <<>> /\ pending = {}
  BY DEF Inv, Calling, Waits, Starting, Idle, Opening, InFlight
<1>2. /\ answer.levels = {} /\ n \in Visible
      /\ UNCHANGED <<doc, pending, map, top, answer>>
  BY <1>1 DEF Inv, Calling, Click, server
<1>3. PICK id \in DOMAIN map : n = map[id]
  BY <1>1, <1>2, VisibleKnown
<1>4. /\ Dom \in Doms(Now) /\ Dom.map = map /\ Dom.objs = objs
      /\ Info(objs[n]) = NewNodeInfo(id) /\ objs[n].id = id
      /\ Box(Dom, id) = objs[n].box /\ Len(Box(Dom, id)) \in Nat /\ Len(doc[id]) \in Nat
      /\ Whole(Dom, id)
  <2>1. Dom \in Doms(Now) /\ Dom.map = map /\ Dom.objs = objs
    BY <1>1 DEF Showing, Partial, Dom
  <2> QED
    BY <1>1, <1>3, <2>1, InMap DEF Box, Showing
<1>5. CASE isExpanded(n)
  <2> DEFINE e == [Dom EXCEPT !.objs = [Dom.objs EXCEPT ![Dom.map[id]].box = <<>>]]
  <2>1. Showing(e)
    BY <1>1, <1>4, Closes
  <2>2. objs' = [objs EXCEPT ![n].box = <<>>] /\ calls' = calls
    BY <1>5 DEF Click
  <2>3. e.objs = objs' /\ e.map = map /\ e.top = top
    BY <1>3, <2>2 DEF Dom
  <2> HIDE DEF e
  <2>4. Becomes(e)
    BY <1>2, <2>3 DEF Becomes
  <2>5. Showing(Dom)'
    BY <1>2, <2>1, <2>4, ShowingMade
  <2> QED
    BY <1>1, <1>2, <2>2, <2>5 DEF Waits, Idle
<1>6. CASE ~isExpanded(n)
  <2>1. objs' = objs /\ calls' = [calls EXCEPT !.levels = Append(@, {objs[n].id})]
    BY <1>6 DEF Click
  <2>2. Len(Box(Dom, id)) = 0
    <3>1. objs[n].kids = doc[id]
      BY <1>4 DEF Info, NewNodeInfo
    <3>2. ~ (Len(Box(Dom, id)) >= Len(doc[id]))
      BY <1>4, <1>6, <3>1 DEF isExpanded
    <3> QED
      BY <1>4, <3>2 DEF Whole
  <2>3. calls'.levels = <<{id}>> /\ calls'.to = <<>>
    <3>1. calls \in [levels : Seq(Few), to : Seq(Few)]
      BY DEF Inv, Calling
    <3>2. Append(<<>>, {id}) = <<{id}>>
      OBVIOUS
    <3>3. calls' = [levels |-> Append(calls.levels, {id}), to |-> calls.to]
      BY <1>4, <2>1, <3>1
    <3> QED
      BY <1>1, <3>2, <3>3
  <2>4. Dom' = Dom
    BY <1>2, <2>1 DEF Dom
  <2>5. Showing(Dom)'
    BY <1>1, <1>2, <2>4, ShowingSame
  <2>6. Box(Dom, id)' = Box(Dom, id)
    BY <2>4 DEF Box
  <2>7. Opening'
    BY <1>2, <2>2, <2>3, <2>5, <2>6 DEF Opening
  <2> QED
    BY <1>1, <1>2, <2>3, <2>7 DEF Waits
<1> QED
  BY <1>5, <1>6

\* The answer is computed.
LEMMA AnswerWaits ==
    ASSUME Inv, Waits, AnswerLevels
    PROVE  Waits'
<1>1. UNCHANGED <<doc, pending, objs, map, top, calls>> /\ calls.levels # <<>> /\ answer.levels = {}
  BY DEF AnswerLevels, server, panel
<1>2. Dom' = Dom /\ doc \in Docs
  BY <1>1 DEF Dom, Inv, Calling
<1> DEFINE asked == Head(calls.levels)
           now == IF asked = {} THEN {expandLevels(Root, 10)}
                  ELSE IF asked \subseteq DOMAIN doc THEN {expandLevels(id, 2) : id \in asked}
                  ELSE {<<>>}
<1>3. answer'.levels = now
  <2>1. answer' = [answer EXCEPT !.levels = now]
    BY DEF AnswerLevels
  <2> HIDE DEF now
  <2> QED
    BY <2>1 DEF Inv, Calling
<1>4. CASE Starting
  <2>1. asked = {}
    BY <1>4 DEF Starting
  <2>2. answer'.levels = {expandLevels(Root, 10)}
    BY <1>3, <2>1
  <2>3. Root' = Root
    BY <1>1 DEF Root, Parent
  <2>4. \A id : expandLevels(id, 10)' = expandLevels(id, 10)
    BY <1>1, SameLevels
  <2>5. expandLevels(Root, 10)' = expandLevels(Root, 10)
    BY <2>3, <2>4
  <2> QED
    BY <1>1, <1>4, <2>2, <2>5 DEF Waits, Starting
<1>5. CASE Opening
  <2>1. PICK id \in DOMAIN map : Len(Box(Dom, id)) = 0 /\ calls.levels = <<{id}>>
    BY <1>5 DEF Opening
  <2>2. asked = {id}
    BY <2>1
  <2>3. id \in DOMAIN doc
    <3> Dom \in Doms(Now) /\ id \in DOMAIN Dom.map
      BY <1>5 DEF Opening, Showing, Partial, Dom
    <3> QED
      BY <1>2, InMap
  <2>4. answer'.levels = {expandLevels(id, 2)}
    <3> HIDE DEF asked
    <3> QED
      BY <1>3, <2>2, <2>3
  <2>5. expandLevels(id, 2)' = expandLevels(id, 2)
    BY <1>1, SameLevels
  <2>6. Box(Dom, id)' = Box(Dom, id)
    BY <1>2 DEF Box
  <2>7. Showing(Dom)'
    BY <1>1, <1>2, <1>5, ShowingSame DEF Opening
  <2>8. Opening'
    BY <1>1, <2>1, <2>4, <2>5, <2>6, <2>7 DEF Opening
  <2> QED
    BY <1>1, <2>8 DEF Waits
<1> QED
  BY <1>1, <1>4, <1>5 DEF Waits, Idle

\* The answer is handled.
LEMMA AddWaits ==
    ASSUME Inv, Waits, NEW infos \in answer.levels, AddLevels(infos)
    PROVE  Waits'
<1>1. /\ UNCHANGED <<doc, pending>> /\ doc \in Docs /\ calls.levels # <<>>
      /\ calls \in [levels : Seq(Few), to : Seq(Few)] /\ Dom \in Doms(Good)
  BY DEF AddLevels, Answered, server, Inv, Calling, Known
<1>2. calls'.levels = Tail(calls.levels) /\ calls'.to = calls.to
  BY <1>1 DEF AddLevels, Answered
<1> DEFINE list == IF Head(calls.levels) = {} \/ infos = <<>> THEN infos ELSE Tail(infos)
           e == Added(Dom, list)
<1>3. Becomes(e)
  BY DEF AddLevels
<1>4. CASE Starting
  <2>1. list = expandLevels(Root, 10) /\ calls'.levels = <<>>
    BY <1>2, <1>4 DEF Starting
  <2>2. Partial(Dom) /\ DOMAIN Dom.map = {} /\ Dom.top = <<>>
    <3>1. DOMAIN Dom.map = {} /\ Dom.top = <<>> /\ ~Dom.threw
      BY <1>4 DEF Starting, Dom
    <3>2. Dom \in Doms(Now)
      BY <1>1, <3>1 DEF Doms
    <3> QED
      BY <3>1, <3>2 DEF Partial
  <2>3. Showing(Added(Dom, expandLevels(Root, 10)))
    BY <1>1, <2>2, Started
  <2>4. Showing(e)
    BY <2>1, <2>3
  <2> HIDE DEF e
  <2>5. Showing(Dom)'
    BY <1>1, <1>3, <2>4, ShowingMade
  <2> QED
    BY <1>1, <1>2, <2>1, <2>5 DEF Waits, Idle
<1>5. CASE Opening
  <2>1. PICK id \in DOMAIN map : /\ Len(Box(Dom, id)) = 0 /\ calls.levels = <<{id}>>
                                 /\ answer.levels \subseteq {expandLevels(id, 2)}
    BY <1>5 DEF Opening
  <2>2. infos = expandLevels(id, 2) /\ Head(calls.levels) # {} /\ calls'.levels = <<>>
    BY <1>2, <2>1
  <2>3. id \in DOMAIN Dom.map /\ Showing(Dom)
    BY <1>5 DEF Opening, Dom
  <2>4. infos # <<>> /\ Showing(Added(Dom, Tail(infos)))
    BY <1>1, <2>1, <2>2, <2>3, Opened
  <2>5. Showing(e)
    BY <2>2, <2>4
  <2> HIDE DEF e
  <2>6. Showing(Dom)'
    BY <1>1, <1>3, <2>5, ShowingMade
  <2> QED
    BY <1>1, <1>2, <2>2, <2>6 DEF Waits, Idle
<1> QED
  BY <1>1, <1>4, <1>5 DEF Waits, Idle

\* Every step keeps what holds while the user waits.
LEMMA CalmNext ==
    ASSUME CalmInv, [Next]_vars
    PROVE  CalmInv'
<1>1. Inv /\ Inv'
  BY NextInv DEF CalmInv
<1> SUFFICES ASSUME calm' PROVE Waits'
  BY <1>1 DEF CalmInv
<1>2. ASSUME NEW n \in DOMAIN objs, Click(n) PROVE Waits'
  <2> calm /\ ~InFlight
    BY <1>2 DEF Click
  <2> QED
    BY <1>1, <1>2, ClickWaits DEF CalmInv
<1>3. ASSUME NEW id \in DOMAIN doc, Hover(id) PROVE Waits'
  <2> calm /\ UNCHANGED <<doc, pending, objs, map, top, calls, answer>>
    BY <1>3 DEF Hover, server, panel, rpc
  <2> QED
    BY WaitsSame DEF CalmInv
<1>4. CASE AltC
  BY <1>4 DEF AltC
<1>5. CASE AnswerLevels
  <2> calm
    BY <1>5 DEF AnswerLevels
  <2> QED
    BY <1>1, <1>5, AnswerWaits DEF CalmInv
<1>6. CASE AnswerTo
  <2> calm /\ calls.to # <<>>
    BY <1>6 DEF AnswerTo
  <2> QED
    BY DEF CalmInv, Waits
<1>7. CASE Deliver
  <2>1. calm
    BY <1>7 DEF Deliver, AddLevels, ShowInfos, Answered
  <2>2. ASSUME NEW infos \in answer.levels, AddLevels(infos) PROVE Waits'
    BY <1>1, <2>1, <2>2, AddWaits DEF CalmInv
  <2>3. answer.to = {}
    BY <1>1, <2>1 DEF CalmInv, Waits, Inv, Calling
  <2> QED
    BY <1>7, <2>2, <2>3 DEF Deliver
<1>8. ASSUME NEW d \in Docs, Patch(d) PROVE Waits'
  BY <1>8 DEF Patch
<1>9. CASE updateInspectorTree
  <2> calm /\ pending # {}
    BY <1>9 DEF updateInspectorTree
  <2> QED
    BY DEF CalmInv, Waits
<1>10. CASE UNCHANGED vars
  <2> calm /\ UNCHANGED <<doc, pending, objs, map, top, calls, answer>>
    BY <1>10 DEF vars, server, panel, rpc
  <2> QED
    BY WaitsSame DEF CalmInv
<1> QED
  BY <1>2, <1>3, <1>4, <1>5, <1>6, <1>7, <1>8, <1>9, <1>10 DEF Next

\* On every page, however deep and however many children its nodes have, and
\* whatever nodes the user opens and closes, one after the other and waiting for
\* the answer to each: every node in the panel is closed or has the page's
\* children, in their order and once each.
THEOREM ShowsPage ==
    Spec => []ShowsThePage
<1>1. Init => CalmInv
  <2> SUFFICES ASSUME Init PROVE Waits
    BY InitInv DEF CalmInv
  <2> QED
    BY DEF Init, Waits, Starting
<1>2. CalmInv /\ [Next]_vars => CalmInv'
  BY CalmNext
<1>3. CalmInv => ShowsThePage
  <2> SUFFICES ASSUME CalmInv, calm, ~InFlight, NEW n \in Visible, objs[n].box # <<>>
               PROVE  [i \in DOMAIN objs[n].box |-> objs[objs[n].box[i]].id] = doc[objs[n].id]
    BY DEF ShowsThePage
  <2>1. doc \in Docs /\ Showing(Dom)
    BY DEF CalmInv, Inv, Calling, Waits, Starting, Idle, Opening, InFlight
  <2>2. PICK id \in DOMAIN map : n = map[id]
    BY <2>1, VisibleKnown
  <2>3. Dom \in Doms(Now) /\ Dom.map = map /\ Dom.objs = objs
    BY <2>1 DEF Showing, Partial, Dom
  <2> DEFINE box == objs[n].box
  <2>4. /\ objs[n].id = id /\ Box(Dom, id) = box /\ box \in Seq(DOMAIN objs)
        /\ Filled(Dom, id) /\ Whole(Dom, id) /\ doc[id] \in Seq(DOMAIN doc)
    BY <2>1, <2>2, <2>3, InMap DEF Box, Showing, Partial
  <2> HIDE DEF box
  <2>5. Len(box) = Len(doc[id]) /\ DOMAIN box = 1..Len(box)
    <3> Len(box) # 0
      BY <2>4, EmptySeq DEF box
    <3> QED
      BY <2>4, LenProperties DEF Whole
  <2>6. ASSUME NEW i \in DOMAIN box PROVE objs[box[i]].id = doc[id][i]
    <3>1. doc[id][i] \in DOMAIN map /\ box[i] = map[doc[id][i]]
      BY <2>3, <2>4, <2>5 DEF Filled
    <3> QED
      BY <2>1, <2>3, <3>1, InMap
  <2>7. doc[id] = [i \in DOMAIN box |-> doc[id][i]]
    <3> doc[id] \in [1..Len(doc[id]) -> DOMAIN doc]
      BY <2>4, LenProperties
    <3> QED
      BY <2>5
  <2>8. [i \in DOMAIN box |-> objs[box[i]].id] = doc[id]
    BY <2>6, <2>7
  <2> QED
    BY <2>4, <2>8 DEF box
<1> QED
  BY <1>1, <1>2, <1>3, PTL DEF Spec
=============================================================================
