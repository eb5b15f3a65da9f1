---------------------------- MODULE PushDBProofs ----------------------------
(***************************************************************************)
(* Proofs about PushDB, for any stream of trees: whatever fails and        *)
(* whenever the process ends, the instances committed are those of one     *)
(* whole tree, nothing committed to the structure database dangles, and    *)
(* after a push without error it describes every instance.                 *)
(***************************************************************************)
EXTENDS PushDB, FiniteSetTheorems, SequenceTheorems, TLAPS

\* The instance that row i of a tree becomes when the ids after base are given to
\* its rows, and those of its first n rows.
Instance(base, t, i) ==
    [id |-> base + i, ax |-> t[i].ax, shash |-> t[i].shash, phash |-> t[i].shash,
     parent |-> IF t[i].up = 0 THEN {} ELSE {base + t[i].up}]
FirstRows(base, t, n) == {Instance(base, t, i) : i \in 1..n}

PCs == {"idle", "begin", "delete", "instances", "structures", "commit stdb", "commit db"}

Typed ==
    /\ onDisk \in BOOLEAN /\ pc \in PCs /\ type \in {"reset", "patch"}
    /\ todo \in Seq(Trees) /\ (pc # "idle" => todo # <<>>)
    /\ ids \in Seq(Nat) /\ pushed \in Nat
    /\ shown \in Trees \cup {<<>>} /\ outcome \in {"ok", "failed"} /\ events \in 0..MaxEvents

\* A database of instances that holds the first n rows of a tree, added last.
Holds(d, t, n) ==
    /\ d = [rows |-> d.rows, seq |-> d.seq]
    /\ d.seq \in Nat /\ n <= d.seq
    /\ d.rows = FirstRows(d.seq - n, t, n)

\* The open transaction of the instance database: the old tree, then more and more
\* of the new one.
StdbTx ==
    /\ pc \in {"idle", "begin", "delete", "commit db"} => stdbtx = stdb
    /\ pc \in {"delete", "instances"} => pushed = 0
    /\ pc = "delete" => ids = <<>>
    /\ pc = "instances" =>
          /\ Len(ids) < Len(Tree)
          /\ Holds(stdbtx, Tree, Len(ids))
          /\ \A i \in 1..Len(ids) : ids[i] = stdbtx.seq - Len(ids) + i
    /\ pc \in {"structures", "commit stdb"} => Holds(stdbtx, Tree, Len(Tree))
    /\ pc = "structures" => pushed < Len(Tree)
    /\ pc \in {"commit stdb", "commit db"} => pushed = Len(Tree)
    /\ pc = "commit db" => shown = Tree

\* References of the structures and paths in d lead into d or into a tree whose
\* first n rows have been pushed.
Hashes(d) == {s.hash : s \in d.structure}
Paths(d)  == {p.hash : p \in d.path}
Refers(d, t, n) ==
    /\ d = [structure |-> d.structure, path |-> d.path]
    /\ \A i \in 1..n : t[i].shash \in Hashes(d) /\ t[i].path \in Paths(d)
    /\ \A s \in d.structure :
          s.firstChild \cup s.nextSibling \subseteq Hashes(d) \cup {t[i].shash : i \in DOMAIN t}
    /\ \A p \in d.path : /\ p.structure \in Hashes(d)
                         /\ p.parent \subseteq Paths(d) \cup {t[i].path : i \in DOMAIN t}

\* A committed first child is that of a row that nothing in its tree overwrites; in
\* the open transaction also that of the last row pushed with its hash.
FromLast(d) ==
    \A s \in d.structure : \E t \in Trees : \E r \in LastRows(t) :
        s.hash = r.shash /\ s.firstChild = r.firstChild
FromLastPushed(d, t, n) ==
    \A s \in d.structure :
        \/ \E i \in 1..n : /\ s.hash = t[i].shash /\ s.firstChild = t[i].firstChild
                           /\ \A j \in (i + 1)..n : t[j].shash # s.hash
        \/ /\ \E u \in Trees : \E r \in LastRows(u) : s.hash = r.shash /\ s.firstChild = r.firstChild
           /\ \A j \in 1..n : t[j].shash # s.hash

Open == pc \in {"delete", "instances", "structures", "commit stdb", "commit db"}

DbTx ==
    /\ Refers(db, <<>>, 0) /\ FromLast(db)
    /\ Open => Refers(dbtx, Tree, pushed) /\ FromLastPushed(dbtx, Tree, pushed)

\* After a push without error the structures of the tree shown are committed.
Complete == pc = "idle" /\ outcome = "ok" => \A i \in DOMAIN shown : shown[i].shash \in Hashes(db)

IInv ==
    /\ Typed
    /\ Holds(stdb, shown, Len(shown)) /\ StdbTx
    /\ DbTx /\ Complete
-----------------------------------------------------------------------------
\* A set of natural numbers has a least element.
LEMMA Least ==
    ASSUME NEW S \in SUBSET Nat, S # {}
    PROVE  \E n \in S : \A m \in S : n <= m
<1> DEFINE upto == {0..n : n \in S}
<1>1. upto \subseteq FiniteSubsetsOf(Nat) /\ upto # {}
  <2> SUFFICES ASSUME NEW n \in S PROVE 0..n \in SUBSET Nat /\ IsFiniteSet(0..n)
    BY DEF FiniteSubsetsOf
  <2> QED
    BY FS_Interval
<1>2. PICK x \in upto : \A y \in upto : ~ (<<y, x>> \in StrictSubsetOrdering(Nat))
  <2> HIDE DEF upto
  <2> QED
    BY <1>1, FS_StrictSubsetOrderingWellFounded, WFMin
<1>3. PICK n \in S : x = 0..n
  OBVIOUS
<1>4. ASSUME NEW m \in S, m < n PROVE FALSE
  <2>1. 0..m \in upto /\ 0..m \in SUBSET Nat /\ 0..n \in SUBSET Nat
    OBVIOUS
  <2>2. 0..m \subseteq 0..n /\ n \in 0..n /\ n \notin 0..m
    BY <1>4
  <2> QED
    BY <1>2, <1>3, <2>1, <2>2 DEF StrictSubsetOrdering
<1> QED
  BY <1>4

\* What the assumption says of one tree, in terms of its length.
LEMMA TreeShape ==
    ASSUME NEW t \in Trees
    PROVE  /\ Len(t) \in Nat \ {0} /\ DOMAIN t = 1..Len(t)
           /\ t[1].up = 0
           /\ \A i \in 1..Len(t) : i # 1 => t[i].up \in 1..(i - 1)
           /\ \A i \in 1..Len(t) :
                 /\ t[i].firstChild \cup t[i].nextSibling \subseteq {t[j].shash : j \in DOMAIN t}
                 /\ t[i].parentPath \subseteq {t[j].path : j \in DOMAIN t}
<1>1. t # <<>> /\ t \in Seq({t[i] : i \in DOMAIN t})
  BY EventsOK DEF EventsOK
<1>2. Len(t) \in Nat \ {0} /\ DOMAIN t = 1..Len(t)
  BY <1>1, EmptySeq, LenProperties
<1>3. \A i \in 1..Len(t) :
        /\ t[i].up \in IF i = 1 THEN {0} ELSE 1..(i - 1)
        /\ t[i].firstChild \cup t[i].nextSibling \subseteq {t[j].shash : j \in DOMAIN t}
        /\ t[i].parentPath \subseteq {t[j].path : j \in DOMAIN t}
  BY <1>2, EventsOK DEF EventsOK
<1> QED
  BY <1>2, <1>3

\* In a tree everything is below the root, so that deleting the root's row deletes
\* all rows.
LEMMA CascadeTakesAll ==
    ASSUME NEW t \in Trees, NEW base \in Nat
    PROVE  LET rows == FirstRows(base, t, Len(t)) IN Cascade(rows, base + 1) = rows
<1> DEFINE rows == FirstRows(base, t, Len(t))
<1> SUFFICES ASSUME NEW i \in 1..Len(t), NEW gone \in SUBSET {q.id : q \in rows},
                    base + 1 \in gone,
                    \A q \in rows : q.parent \subseteq gone /\ q.parent # {} => q.id \in gone,
                    base + i \notin gone
             PROVE  FALSE
  <2>1. \A r \in rows : \E i \in 1..Len(t) : r.id = base + i
    BY DEF FirstRows, Instance
  <2>2. Cascade(rows, base + 1) \subseteq rows
    BY DEF Cascade
  <2>3. rows \subseteq Cascade(rows, base + 1)
    <3> HIDE DEF rows
    <3> SUFFICES ASSUME NEW r \in rows, NEW gone \in SUBSET {q.id : q \in rows}, base + 1 \in gone,
                        \A q \in rows : q.parent \subseteq gone /\ q.parent # {} => q.id \in gone
                 PROVE  r.id \in gone
      BY DEF Cascade
    <3> QED
      BY <2>1 DEF rows
  <2> QED
    BY <2>2, <2>3
<1> DEFINE kept == {n \in 1..Len(t) : base + n \notin gone}
<1>1. PICK n \in kept : \A m \in kept : n <= m
  <2>1. kept \in SUBSET Nat /\ kept # {}
    OBVIOUS
  <2> HIDE DEF kept
  <2> QED
    BY <2>1, Least
<1>2. n # 1 /\ t[n].up \in 1..(n - 1) /\ n \in 1..Len(t) /\ Len(t) \in Nat
  BY TreeShape
<1>3. base + t[n].up \in gone
  <2>1. t[n].up \in 1..Len(t) /\ ~ (n <= t[n].up)
    BY <1>2
  <2>2. t[n].up \notin kept
    BY <1>1, <2>1
  <2> QED
    BY <2>1, <2>2
<1>4. Instance(base, t, n) \in rows
  BY <1>2 DEF FirstRows
<1>5. Instance(base, t, n).parent = {base + t[n].up} /\ Instance(base, t, n).id = base + n
  BY <1>2 DEF Instance
<1> QED
  BY <1>3, <1>4, <1>5
-----------------------------------------------------------------------------
\* At first nothing is stored.
LEMMA InitIInv == Init => IInv
<1> SUFFICES ASSUME Init PROVE IInv
  OBVIOUS
<1> USE DEF Init, NoInstances, NoStructures
<1>1. Typed
  BY EventsOK DEF EventsOK, Typed, PCs
<1>2. Holds(stdb, shown, Len(shown))
  BY DEF Holds, FirstRows
<1>3. StdbTx
  BY DEF StdbTx
<1>4. DbTx
  BY DEF DbTx, Open, Refers, Hashes, Paths, FromLast
<1>5. Complete
  BY DEF Complete
<1> QED
  BY <1>1, <1>2, <1>3, <1>4, <1>5 DEF IInv

\* While trees are being pushed there is a first one.
LEMMA FirstTree ==
    ASSUME Typed, pc # "idle"
    PROVE  Tree \in Trees /\ todo # <<>> /\ Tail(todo) \in Seq(Trees)
  BY ElementOfSeq, EmptySeq, HeadTailProperties DEF Typed, Tree

\* A new event: its trees are those of the stream.
LEMMA HandleEventIInv == ASSUME IInv, HandleEvent PROVE IInv'
<1> USE DEF IInv, HandleEvent
<1>1. PICK e \in Events :
        type' = e.type /\ todo' = IF e.type = "reset" THEN <<e.trees[1]>> ELSE e.trees
  OBVIOUS
<1>2. /\ e.type \in {"reset", "patch"} /\ e.trees \in Seq(Trees)
      /\ e.type = "reset" => e.trees # <<>>
  BY EventsOK DEF EventsOK
<1>3. todo' \in Seq(Trees)
  <2>1. CASE e.type = "reset"
    <3>1. e.trees[1] \in Trees
      BY <1>2, <2>1, ElementOfSeq, EmptySeq
    <3> QED
      BY <1>1, <2>1, <3>1
  <2>2. CASE e.type # "reset"
    BY <1>1, <1>2, <2>2
  <2> QED
    BY <2>1, <2>2
<1>4. Typed'
  BY <1>1, <1>2, <1>3, EventsOK DEF Typed, PCs, EventsOK
<1>5. StdbTx'
  BY DEF StdbTx
<1>6. DbTx'
  BY DEF DbTx, Open, Refers, Hashes, Paths, FromLast
<1>7. Complete'
  BY DEF Complete, Hashes
<1> QED
  BY <1>4, <1>5, <1>6, <1>7 DEF Holds, FirstRows, Instance

\* The transactions see what is committed.
LEMMA BeginIInv == ASSUME IInv, Begin PROVE IInv'
<1> USE DEF IInv, Begin
<1>1. Typed' /\ Tree' = Tree
  BY DEF Typed, PCs, Tree
<1>2. StdbTx'
  BY DEF StdbTx
<1>3. Refers(dbtx, Tree, pushed)'
  <2>1. Refers(db, <<>>, 0)
    BY DEF DbTx
  <2>2. DOMAIN <<>> = {}
    OBVIOUS
  <2> QED
    BY <2>1, <2>2 DEF Refers, Hashes, Paths
<1>4. FromLastPushed(dbtx, Tree, pushed)'
  BY DEF DbTx, FromLast, FromLastPushed
<1>5. DbTx'
  BY <1>3, <1>4 DEF DbTx, Refers, Hashes, Paths, FromLast
<1>6. Complete'
  BY DEF Complete
<1> QED
  BY <1>1, <1>2, <1>5, <1>6 DEF Holds, FirstRows, Instance

\* The root of the tree shown is the only row without a parent, and all the others
\* are deleted with it.
LEMMA DeleteRootIInv == ASSUME IInv, DeleteRoot PROVE IInv'
<1> USE DEF IInv, DeleteRoot
<1>1. /\ stdbtx = stdb /\ ids = <<>> /\ pushed = 0
      /\ shown \in Trees \cup {<<>>}
      /\ Holds(stdb, shown, Len(shown))
  BY DEF StdbTx, Typed
<1>2. stdbtx' = [rows |-> {}, seq |-> stdb.seq]
  <2>1. CASE shown = <<>>
    <3>1. stdb.rows = {} /\ stdb = [rows |-> stdb.rows, seq |-> stdb.seq]
      BY <1>1, <2>1 DEF Holds, FirstRows
    <3> QED
      BY <1>1, <3>1 DEF Roots
  <2>2. CASE shown \in Trees
    <3> DEFINE base == stdb.seq - Len(shown)
    <3>1. /\ stdb = [rows |-> stdb.rows, seq |-> stdb.seq]
          /\ stdb.rows = FirstRows(base, shown, Len(shown)) /\ base \in Nat
      BY <1>1, <2>2, TreeShape DEF Holds
    <3>2. \A i \in 1..Len(shown) : i # 1 => Instance(base, shown, i).parent # {}
      BY <2>2, TreeShape DEF Instance
    <3>3. /\ Instance(base, shown, 1) \in stdb.rows
          /\ Instance(base, shown, 1).parent = {} /\ Instance(base, shown, 1).id = base + 1
      <4>1. 1 \in 1..Len(shown) /\ shown[1].up = 0
        BY <2>2, TreeShape
      <4>2. Instance(base, shown, 1) \in FirstRows(base, shown, Len(shown))
        BY <4>1 DEF FirstRows
      <4> QED
        BY <3>1, <4>1, <4>2 DEF Instance
    <3>4. Roots(stdb.rows) = {Instance(base, shown, 1)}
      BY <3>1, <3>2, <3>3 DEF Roots, FirstRows
    <3>5. stdbtx' = DeleteInstance(stdb, base + 1)
      <4>1. PICK root \in Roots(stdb.rows) : stdbtx' = DeleteInstance(stdb, root.id)
        BY <1>1, <3>4
      <4> QED
        BY <3>3, <3>4, <4>1
    <3>6. Cascade(stdb.rows, base + 1) = stdb.rows
      BY <2>2, <3>1, CascadeTakesAll
    <3> QED
      BY <3>1, <3>5, <3>6 DEF DeleteInstance
  <2> QED
    BY <1>1, <2>1, <2>2
<1>3. Typed' /\ Tree' = Tree /\ Tree \in Trees
  BY FirstTree DEF Typed, PCs, Tree
<1>4. StdbTx'
  <2>1. stdb.seq \in Nat
    BY <1>1 DEF Holds
  <2>2. Len(ids) = 0 /\ Len(ids') = 0 /\ Len(ids) < Len(Tree)
    BY <1>1, <1>3, TreeShape
  <2>3. Holds(stdbtx, Tree, Len(ids))'
    BY <1>1, <1>2, <2>1, <2>2 DEF Holds, FirstRows
  <2> QED
    BY <1>1, <1>3, <2>2, <2>3 DEF StdbTx
<1>5. DbTx'
  BY <1>3 DEF DbTx, Open, Refers, Hashes, Paths, FromLast, FromLastPushed
<1>6. Complete'
  BY DEF Complete
<1> QED
  BY <1>3, <1>4, <1>5, <1>6 DEF Holds, FirstRows, Instance
-----------------------------------------------------------------------------
\* The next row of the tree gets the next id, and its parent is the row that
\* became of its parent in the tree.
LEMMA PushInstanceIInv == ASSUME IInv, PushInstance PROVE IInv'
<1> USE DEF IInv, PushInstance
<1> DEFINE n    == Len(ids)
           row  == Tree[n + 1]
           base == stdbtx.seq - n
<1>1. /\ n < Len(Tree) /\ Holds(stdbtx, Tree, n) /\ pushed = 0
      /\ \A i \in 1..n : ids[i] = base + i
  BY DEF StdbTx
<1>2. Tree \in Trees /\ Tree' = Tree /\ n \in Nat /\ Len(Tree) \in Nat /\ ids \in Seq(Nat)
  BY FirstTree, TreeShape, LenProperties DEF Typed, Tree
<1>3. stdbtx.seq \in Nat /\ base \in Nat /\ n + 1 \in 1..Len(Tree)
  BY <1>1, <1>2 DEF Holds
<1>4. stdbtx' = [seq  |-> stdbtx.seq + 1,
                 rows |-> stdbtx.rows \cup {[id |-> stdbtx.seq + 1, ax |-> row.ax, shash |-> row.shash,
                                             phash |-> row.shash, parent |-> ParentId(row)]}]
  BY DEF CreateStructureInstance
<1>5. /\ ids' \in Seq(Nat) /\ Len(ids') = n + 1 /\ ids'[n + 1] = stdbtx.seq + 1
      /\ \A i \in 1..n : ids'[i] = ids[i]
  BY <1>2, <1>3, <1>4, AppendProperties
<1>6. ParentId(row) = IF row.up = 0 THEN {} ELSE {base + row.up}
  <2>1. CASE n + 1 = 1
    BY <1>2, <2>1, TreeShape DEF ParentId
  <2>2. CASE n + 1 # 1
    <3>1. row.up \in 1..n
      BY <1>2, <1>3, <2>2, TreeShape
    <3> QED
      BY <1>1, <3>1 DEF ParentId
  <2> QED
    BY <2>1, <2>2
<1>7. stdbtx'.rows = FirstRows(base, Tree, n + 1)
  <2> DEFINE new == [id |-> stdbtx.seq + 1, ax |-> row.ax, shash |-> row.shash,
                     phash |-> row.shash, parent |-> ParentId(row)]
  <2>0. stdbtx.seq + 1 = base + (n + 1)
    BY <1>2, <1>3
  <2>1. new = Instance(base, Tree, n + 1)
    BY <1>6, <2>0 DEF Instance
  <2>3. stdbtx'.rows = FirstRows(base, Tree, n) \cup {Instance(base, Tree, n + 1)}
    <3> HIDE DEF new
    <3>1. stdbtx'.rows = stdbtx.rows \cup {new}
      BY <1>4 DEF new
    <3> QED
      BY <1>1, <2>1, <3>1 DEF Holds
  <2>2. 1..(n + 1) = 1..n \cup {n + 1}
    BY <1>2
  <2> QED
    BY <2>2, <2>3 DEF FirstRows
<1>8. Holds(stdbtx', Tree, n + 1) /\ stdbtx'.seq - (n + 1) = base
  BY <1>2, <1>3, <1>4, <1>7 DEF Holds
<1>9. Typed'
  BY <1>5 DEF Typed, PCs
<1>10. StdbTx'
  BY <1>1, <1>2, <1>3, <1>5, <1>8, TreeShape DEF StdbTx, Holds
<1>11. DbTx' /\ Complete'
  <2>1. /\ db' = db /\ dbtx' = dbtx /\ pushed' = pushed /\ pc = "instances"
        /\ pc' \in {"instances", "structures"}
    BY <1>2
  <2>2. Refers(db, <<>>, 0) /\ FromLast(db) /\ Refers(dbtx, Tree, pushed) /\ FromLastPushed(dbtx, Tree, pushed)
    BY <2>1 DEF DbTx, Open
  <2>3. DbTx'
    <3>1. Refers(db', <<>>, 0) /\ FromLast(db')
      BY <2>1, <2>2
    <3>2. Refers(dbtx', Tree', pushed') /\ FromLastPushed(dbtx', Tree', pushed')
      BY <1>2, <2>1, <2>2
    <3> QED
      BY <3>1, <3>2 DEF DbTx
  <2>4. Complete'
    BY <2>1 DEF Complete
  <2> QED
    BY <2>3, <2>4
<1> QED
  BY <1>9, <1>10, <1>11 DEF Holds, FirstRows, Instance

\* Upserting a row keeps every key and adds the row's.
LEMMA UpsertKeeps ==
    ASSUME NEW d, NEW row,
           NEW e, e = [structure |-> UpsertStructure(d.structure, row), path |-> UpsertPath(d.path, row)]
    PROVE  /\ Hashes(e) = Hashes(d) \cup {row.shash}
           /\ Paths(e) = Paths(d) \cup {row.path}
           /\ \A s \in e.structure :
                 \/ s \in d.structure /\ s.hash # row.shash
                 \/ /\ s.hash = row.shash /\ s.firstChild = row.firstChild
                    /\ s.nextSibling = row.nextSibling
           /\ \A p \in e.path :
                 p \in d.path \/ (p.structure = row.shash /\ p.parent = row.parentPath)
<1>1. e.structure = UpsertStructure(d.structure, row) /\ e.path = UpsertPath(d.path, row)
  OBVIOUS
<1>2. \A s : s \in e.structure <=>
        \/ s \in d.structure /\ s.hash # row.shash
        \/ s = [hash |-> row.shash, firstChild |-> row.firstChild, nextSibling |-> row.nextSibling]
  BY <1>1 DEF UpsertStructure
<1>3. \A p : p \in e.path <=>
        \/ p \in d.path /\ (p.hash # row.path \/ p.structure # row.shash)
        \/ p = [hash |-> row.path, structure |-> row.shash, parent |-> row.parentPath]
  BY <1>1 DEF UpsertPath
<1>4. Hashes(e) = Hashes(d) \cup {row.shash}
  <2> DEFINE new == [hash |-> row.shash, firstChild |-> row.firstChild, nextSibling |-> row.nextSibling]
  <2>1. new \in e.structure /\ new.hash = row.shash
    BY <1>2
  <2>2. \A s \in e.structure : s \in d.structure \/ s.hash = row.shash
    BY <1>2
  <2>3. \A s \in d.structure : s \in e.structure \/ s.hash = row.shash
    BY <1>2
  <2> HIDE DEF new
  <2> QED
    BY <2>1, <2>2, <2>3 DEF Hashes
<1>5. Paths(e) = Paths(d) \cup {row.path}
  <2> DEFINE new == [hash |-> row.path, structure |-> row.shash, parent |-> row.parentPath]
  <2>1. new \in e.path /\ new.hash = row.path
    BY <1>3
  <2>2. \A p \in e.path : p \in d.path \/ p.hash = row.path
    BY <1>3
  <2>3. \A p \in d.path : p \in e.path \/ p.hash = row.path
    BY <1>3
  <2> HIDE DEF new
  <2> QED
    BY <2>1, <2>2, <2>3 DEF Paths
<1> QED
  BY <1>2, <1>3, <1>4, <1>5

\* A row is pushed: what it refers to is in its tree, and it overwrites the rows of
\* its hash that came before.
LEMMA PushStructureIInv == ASSUME IInv, PushStructure PROVE IInv'
<1> DEFINE n   == pushed
           row == Tree[n + 1]
<1>1. /\ n < Len(Tree) /\ Refers(dbtx, Tree, n) /\ FromLastPushed(dbtx, Tree, n)
      /\ Typed /\ pc = "structures" /\ UNCHANGED <<stdb, shown>>
  BY DEF IInv, PushStructure, StdbTx, DbTx, Open
<1>2. Tree \in Trees /\ Tree' = Tree /\ n \in Nat /\ Len(Tree) \in Nat /\ DOMAIN Tree = 1..Len(Tree)
  BY <1>1, FirstTree, TreeShape DEF PushStructure, Typed, Tree
<1>3. n + 1 \in 1..Len(Tree) /\ 1..(n + 1) = 1..n \cup {n + 1}
  BY <1>1, <1>2
<1>4. /\ dbtx' = [structure |-> UpsertStructure(dbtx.structure, row), path |-> UpsertPath(dbtx.path, row)]
      /\ pushed' = n + 1
  BY DEF PushStructure
<1>5. /\ Hashes(dbtx') = Hashes(dbtx) \cup {row.shash}
      /\ Paths(dbtx') = Paths(dbtx) \cup {row.path}
      /\ \A s \in dbtx'.structure :
            \/ s \in dbtx.structure /\ s.hash # row.shash
            \/ /\ s.hash = row.shash /\ s.firstChild = row.firstChild
               /\ s.nextSibling = row.nextSibling
      /\ \A p \in dbtx'.path :
            p \in dbtx.path \/ (p.structure = row.shash /\ p.parent = row.parentPath)
  <2> HIDE DEF row
  <2> QED
    BY <1>4, UpsertKeeps
<1>6. /\ row.firstChild \cup row.nextSibling \subseteq {Tree[j].shash : j \in DOMAIN Tree}
      /\ row.parentPath \subseteq {Tree[j].path : j \in DOMAIN Tree}
  BY <1>2, <1>3, TreeShape
<1>7. Refers(dbtx', Tree, n + 1)
  <2>1. \A i \in 1..(n + 1) : Tree[i].shash \in Hashes(dbtx') /\ Tree[i].path \in Paths(dbtx')
    BY <1>1, <1>3, <1>5 DEF Refers
  <2>2. \A s \in dbtx'.structure :
           s.firstChild \cup s.nextSibling \subseteq Hashes(dbtx') \cup {Tree[i].shash : i \in DOMAIN Tree}
    BY <1>1, <1>5, <1>6 DEF Refers
  <2>3. \A p \in dbtx'.path : /\ p.structure \in Hashes(dbtx')
                              /\ p.parent \subseteq Paths(dbtx') \cup {Tree[i].path : i \in DOMAIN Tree}
    BY <1>1, <1>5, <1>6 DEF Refers
  <2> QED
    BY <1>4, <2>1, <2>2, <2>3 DEF Refers
<1>8. FromLastPushed(dbtx', Tree, n + 1)
  <2> SUFFICES ASSUME NEW s \in dbtx'.structure
               PROVE  \/ \E i \in 1..(n + 1) :
                            /\ s.hash = Tree[i].shash /\ s.firstChild = Tree[i].firstChild
                            /\ \A j \in (i + 1)..(n + 1) : Tree[j].shash # s.hash
                      \/ /\ \E u \in Trees : \E r \in LastRows(u) :
                               s.hash = r.shash /\ s.firstChild = r.firstChild
                         /\ \A j \in 1..(n + 1) : Tree[j].shash # s.hash
    BY DEF FromLastPushed
  <2>1. CASE s.hash = row.shash /\ s.firstChild = row.firstChild
    BY <1>2, <1>3, <2>1
  <2>2. CASE s \in dbtx.structure /\ s.hash # row.shash
    <3>1. CASE \E i \in 1..n : /\ s.hash = Tree[i].shash /\ s.firstChild = Tree[i].firstChild
                               /\ \A j \in (i + 1)..n : Tree[j].shash # s.hash
      BY <1>2, <2>2, <3>1
    <3>2. CASE /\ \E u \in Trees : \E r \in LastRows(u) :
                     s.hash = r.shash /\ s.firstChild = r.firstChild
               /\ \A j \in 1..n : Tree[j].shash # s.hash
      BY <1>3, <2>2, <3>2
    <3> QED
      BY <1>1, <2>2, <3>1, <3>2 DEF FromLastPushed
  <2> QED
    BY <1>5, <2>1, <2>2
<1>9. DbTx'
  <2>1. UNCHANGED db /\ Refers(db, <<>>, 0) /\ FromLast(db)
    BY DEF IInv, DbTx, PushStructure
  <2>2. Refers(db, <<>>, 0)' /\ FromLast(db)'
    BY <2>1 DEF Refers, Hashes, Paths, FromLast
  <2>3. Refers(dbtx, Tree, pushed)' /\ FromLastPushed(dbtx, Tree, pushed)'
    BY <1>2, <1>4, <1>7, <1>8 DEF Refers, Hashes, Paths, FromLastPushed
  <2> QED
    BY <2>2, <2>3 DEF DbTx
<1>10. /\ pc' = IF n + 1 = Len(Tree) THEN "commit stdb" ELSE "structures"
       /\ UNCHANGED <<onDisk, stdb, db, stdbtx, type, todo, ids, shown, outcome, events>>
  <2> HIDE DEF n
  <2> QED
    BY <1>2, <1>4 DEF PushStructure
<1>11. pc' \in {"structures", "commit stdb"}
  BY <1>10
<1>12. Typed' /\ Complete'
  <2>1. Typed'
    <3>1. Typed /\ pc # "idle" /\ pc' \in PCs
      BY <1>1, <1>11 DEF PCs
    <3>2. pushed' \in Nat
      BY <1>2, <1>4
    <3> QED
      BY <1>10, <3>1, <3>2 DEF Typed
  <2> QED
    BY <1>11, <2>1 DEF Complete
<1>13. StdbTx'
  <2>1. Holds(stdbtx, Tree, Len(Tree))
    BY <1>1 DEF IInv, StdbTx
  <2>2. Holds(stdbtx, Tree, Len(Tree))'
    BY <1>2, <1>10, <2>1 DEF Holds, FirstRows, Instance
  <2>3. pc' = "structures" => pushed' < Len(Tree)'
    <3>1. n + 1 # Len(Tree) => n + 1 < Len(Tree)
      <4>1. \A a, b \in Nat : a < b /\ a + 1 # b => a + 1 < b
        OBVIOUS
      <4> HIDE DEF n, row
      <4> QED
        BY <1>1, <1>2, <4>1
    <3> QED
      BY <1>2, <1>4, <1>10, <3>1
  <2>4. pc' = "commit stdb" => pushed' = Len(Tree)'
    BY <1>2, <1>4, <1>10
  <2> QED
    BY <1>11, <2>2, <2>3, <2>4 DEF StdbTx
<1>14. Holds(stdb, shown, Len(shown))'
  BY <1>1 DEF IInv, Holds, FirstRows, Instance
<1> QED
  BY <1>9, <1>12, <1>13, <1>14 DEF IInv
-----------------------------------------------------------------------------

\* What a step keeps that leaves the structure database and its transaction alone.
LEMMA DbTxKept ==
    ASSUME DbTx, UNCHANGED <<db, dbtx, pushed>>, Open' => Open /\ Tree' = Tree
    PROVE  DbTx'
<1>1. Refers(db, <<>>, 0)' /\ FromLast(db)'
  BY DEF DbTx, Refers, Hashes, Paths, FromLast
<1>2. ASSUME Open' PROVE Refers(dbtx, Tree, pushed)'
  <2>1. Refers(dbtx, Tree, pushed) /\ Tree' = Tree
    BY <1>2 DEF DbTx
  <2> QED
    BY <2>1 DEF Refers, Hashes, Paths
<1>3. ASSUME Open' PROVE FromLastPushed(dbtx, Tree, pushed)'
  <2>1. FromLastPushed(dbtx, Tree, pushed) /\ Tree' = Tree
    BY <1>3 DEF DbTx
  <2> QED
    BY <2>1 DEF FromLastPushed
<1> QED
  BY <1>1, <1>2, <1>3 DEF DbTx

\* The instances of the whole tree are committed.
LEMMA CommitStdbIInv == ASSUME IInv, CommitStdb PROVE IInv'
<1>1. /\ Typed /\ pc = "commit stdb" /\ pc' = "commit db"
      /\ stdb' = stdbtx /\ shown' = Tree
      /\ UNCHANGED <<onDisk, db, stdbtx, dbtx, type, todo, ids, pushed, outcome, events>>
  BY DEF IInv, CommitStdb
<1>2. Holds(stdbtx, Tree, Len(Tree)) /\ pushed = Len(Tree)
  BY <1>1 DEF IInv, StdbTx
<1>3. Tree \in Trees /\ Tree' = Tree
  BY <1>1, FirstTree DEF Tree
<1>4. Typed'
  BY <1>1, <1>3 DEF Typed, PCs
<1>5. Holds(stdb, shown, Len(shown))'
  BY <1>1, <1>2 DEF Holds, FirstRows, Instance
<1>6. StdbTx'
  BY <1>1, <1>2, <1>3 DEF StdbTx
<1>7. DbTx'
  BY <1>1, <1>3, DbTxKept DEF IInv, Open
<1>8. Complete'
  BY <1>1 DEF Complete
<1> QED
  BY <1>4, <1>5, <1>6, <1>7, <1>8 DEF IInv

\* The structures of the whole tree are committed: what they refer to is all
\* there, and each is that of the last row with its hash.
LEMMA CommitDbIInv == ASSUME IInv, CommitDb PROVE IInv'
<1>1. /\ Typed /\ pc = "commit db" /\ db' = dbtx /\ todo' = Tail(todo)
      /\ pc' \in {"idle", "begin"} /\ (pc' # "idle" => todo' # <<>>) /\ outcome' = "ok"
      /\ UNCHANGED <<onDisk, stdb, stdbtx, dbtx, type, ids, pushed, shown, events>>
  BY DEF IInv, CommitDb
<1>2. /\ stdbtx = stdb /\ pushed = Len(Tree) /\ shown = Tree
      /\ Refers(dbtx, Tree, Len(Tree)) /\ FromLastPushed(dbtx, Tree, Len(Tree))
  BY <1>1 DEF IInv, StdbTx, DbTx, Open
<1>3. Tree \in Trees /\ Tail(todo) \in Seq(Trees) /\ DOMAIN Tree = 1..Len(Tree)
  BY <1>1, FirstTree, TreeShape
<1>4. Typed'
  BY <1>1, <1>3 DEF Typed, PCs
<1>5. Holds(stdb, shown, Len(shown))'
  BY <1>1 DEF IInv, Holds, FirstRows, Instance
<1>6. StdbTx'
  BY <1>1, <1>2 DEF StdbTx
<1>7. Refers(dbtx, <<>>, 0)
  <2>1. /\ {Tree[i].shash : i \in DOMAIN Tree} \subseteq Hashes(dbtx)
        /\ {Tree[i].path : i \in DOMAIN Tree} \subseteq Paths(dbtx)
    BY <1>2, <1>3 DEF Refers
  <2>2. DOMAIN <<>> = {} /\ 1..0 = {}
    OBVIOUS
  <2> QED
    BY <1>2, <2>1, <2>2 DEF Refers
<1>8. FromLast(dbtx)
  <2> SUFFICES ASSUME NEW s \in dbtx.structure
               PROVE  \E t \in Trees : \E r \in LastRows(t) : s.hash = r.shash /\ s.firstChild = r.firstChild
    BY DEF FromLast
  <2>1. ASSUME NEW i \in 1..Len(Tree), s.hash = Tree[i].shash, s.firstChild = Tree[i].firstChild,
               \A j \in (i + 1)..Len(Tree) : Tree[j].shash # s.hash
        PROVE  Tree[i] \in LastRows(Tree)
    BY <1>3, <2>1 DEF LastRows
  <2> QED
    BY <1>2, <1>3, <2>1 DEF FromLastPushed
<1>9. DbTx'
  BY <1>1, <1>7, <1>8 DEF DbTx, Open, Refers, Hashes, Paths, FromLast
<1>10. Complete'
  BY <1>1, <1>2, <1>3 DEF Complete, Refers, Hashes
<1> QED
  BY <1>4, <1>5, <1>6, <1>9, <1>10 DEF IInv

\* Whatever fails, both transactions are rolled back.
LEMMA FailIInv == ASSUME IInv, Fail PROVE IInv'
<1>1. /\ Typed /\ pc' = "idle" /\ todo' = <<>> /\ outcome' = "failed"
      /\ stdbtx' = stdb
      /\ UNCHANGED <<onDisk, stdb, db, type, ids, pushed, shown, events>>
  BY DEF IInv, Fail
<1>2. Typed'
  <2>1. <<>> \in Seq(Trees)
    OBVIOUS
  <2> QED
    BY <1>1, <2>1 DEF Typed, PCs
<1>3. Holds(stdb, shown, Len(shown))'
  BY <1>1 DEF IInv, Holds, FirstRows, Instance
<1>4. StdbTx' /\ Complete'
  BY <1>1 DEF StdbTx, Complete
<1>5. DbTx'
  BY <1>1 DEF IInv, DbTx, Open, Refers, Hashes, Paths, FromLast
<1> QED
  BY <1>2, <1>3, <1>4, <1>5 DEF IInv

\* A process that starts again has no instances, and the structures that were
\* committed to a file.
LEMMA CrashIInv == ASSUME IInv, Crash PROVE IInv'
<1>1. /\ Typed /\ pc' = "idle" /\ todo' = <<>> /\ ids' = <<>> /\ pushed' = 0 /\ shown' = <<>>
      /\ stdb' = NoInstances /\ stdbtx' = NoInstances
      /\ db' = db \/ db' = NoStructures
      /\ UNCHANGED <<onDisk, type, outcome, events>>
  BY DEF IInv, Crash
<1>2. Typed'
  <2>1. <<>> \in Seq(Trees) /\ <<>> \in Seq(Nat)
    OBVIOUS
  <2> QED
    BY <1>1, <2>1 DEF Typed, PCs
<1>3. Holds(stdb, shown, Len(shown))'
  BY <1>1 DEF NoInstances, Holds, FirstRows
<1>4. StdbTx' /\ Complete'
  BY <1>1 DEF StdbTx, Complete
<1>5. Refers(db, <<>>, 0)' /\ FromLast(db)'
  <2>1. CASE db' = db
    BY <2>1 DEF IInv, DbTx, Refers, Hashes, Paths, FromLast
  <2>2. CASE db' = NoStructures
    BY <2>2 DEF NoStructures, Refers, Hashes, Paths, FromLast
  <2> QED
    BY <1>1, <2>1, <2>2
<1>6. DbTx'
  BY <1>1, <1>5 DEF DbTx, Open
<1> QED
  BY <1>2, <1>3, <1>4, <1>6 DEF IInv

\* Every step keeps the invariant.
LEMMA NextIInv == IInv /\ [Next]_vars => IInv'
<1> SUFFICES ASSUME IInv, [Next]_vars PROVE IInv'
  OBVIOUS
<1>1. CASE UNCHANGED vars
  <2>1. Typed' /\ Holds(stdb, shown, Len(shown))'
    BY <1>1 DEF vars, IInv, Typed, Holds, FirstRows, Instance
  <2>2. Tree' = Tree
    BY <1>1 DEF vars, Tree
  <2>3. StdbTx'
    <3>1. UNCHANGED <<stdb, stdbtx, pc, ids, pushed, shown>> /\ StdbTx
      BY <1>1 DEF vars, IInv
    <3> QED
      BY <2>2, <3>1 DEF StdbTx
  <2>4. DbTx'
    BY <1>1, <2>2, DbTxKept DEF vars, IInv, Open
  <2>5. Complete'
    BY <1>1 DEF vars, IInv, Complete, Hashes
  <2> QED
    BY <2>1, <2>3, <2>4, <2>5 DEF IInv
<1>2. CASE Next
  BY <1>2, HandleEventIInv, BeginIInv, DeleteRootIInv, PushInstanceIInv, PushStructureIInv,
     CommitStdbIInv, CommitDbIInv, FailIInv, CrashIInv DEF Next
<1> QED
  BY <1>1, <1>2

\* The invariant holds throughout.
LEMMA Invariance == Spec => []IInv
  BY InitIInv, NextIInv, PTL DEF Spec
-----------------------------------------------------------------------------
\* The states of the databases and of HandleEvent have their types: no loop runs
\* past the rows of its tree, and every id was given by the database.
THEOREM PushType == Spec => []TypeOK
<1>1. IInv => TypeOK
  <2> SUFFICES ASSUME IInv PROVE TypeOK
    OBVIOUS
  <2>1. ASSUME NEW d, NEW t \in Trees \cup {<<>>}, NEW n \in Nat, Holds(d, t, n), n <= Len(t)
        PROVE  d.seq \in Nat /\ \A r \in d.rows : DOMAIN r = Columns /\ r.id \in 1..d.seq
    BY <2>1 DEF Holds, FirstRows, Instance, Columns
  <2>2. \A t \in Trees \cup {<<>>} : Len(t) \in Nat
    BY TreeShape
  <2>3. shown \in Trees \cup {<<>>} /\ Holds(stdb, shown, Len(shown))
    BY DEF IInv, Typed
  <2>4. \/ stdbtx = stdb
        \/ pc # "idle" /\ \E n \in 0..Len(Tree) : Holds(stdbtx, Tree, n)
    <3>1. pc # "idle" => Tree \in Trees
      BY FirstTree DEF IInv
    <3>2. CASE pc = "instances"
      <4>1. Len(ids) \in Nat /\ Len(ids) < Len(Tree) /\ Holds(stdbtx, Tree, Len(ids))
        BY <3>2, LenProperties DEF IInv, StdbTx, Typed
      <4> QED
        BY <2>2, <3>1, <3>2, <4>1
    <3>3. CASE pc \in {"structures", "commit stdb"}
      <4>1. Holds(stdbtx, Tree, Len(Tree))
        BY <3>3 DEF IInv, StdbTx
      <4>2. pc # "idle" /\ Len(Tree) \in 0..Len(Tree)
        <5>1. pc # "idle" /\ Len(Tree) \in Nat
          BY <2>2, <3>1, <3>3
        <5> QED
          BY <5>1
      <4> QED
        BY <4>1, <4>2
    <3> QED
      BY <3>2, <3>3 DEF IInv, Typed, PCs, StdbTx
  <2>5. \A d \in {stdb, stdbtx} : d.seq \in Nat /\ \A r \in d.rows : DOMAIN r = Columns /\ r.id \in 1..d.seq
    <3>1. pc # "idle" => Tree \in Trees
      BY FirstTree DEF IInv
    <3> QED
      BY <2>1, <2>2, <2>3, <2>4, <3>1
  <2> QED
    BY <2>5 DEF IInv, Typed, PCs, StdbTx, TypeOK
<1> QED
  BY <1>1, Invariance, PTL

\* "replaces a given subtree inside both database states": for every stream and
\* any number of events, whatever fails or crashes, the instances committed are
\* exactly the rows of one tree pushed.
THEOREM MirrorsCorrect == Spec => []Mirrors
<1>1. IInv => Mirrors
  <2> SUFFICES ASSUME IInv PROVE Mirrors
    OBVIOUS
  <2>1. DOMAIN shown = 1..Len(shown)
    BY TreeShape DEF IInv, Typed
  <2> QED
    BY <2>1 DEF IInv, Holds, FirstRows, Instance, Mirrors
<1> QED
  BY <1>1, Invariance, PTL

\* Nothing committed to the structure database dangles, and after a push without
\* error it has the structure of every instance.
THEOREM DescribedCorrect == Spec => []Described
<1>1. IInv => NoDangling
  <2> SUFFICES ASSUME IInv PROVE NoDangling
    OBVIOUS
  <2>1. Refers(db, <<>>, 0) /\ DOMAIN <<>> = {}
    BY DEF IInv, DbTx
  <2> QED
    BY <2>1 DEF Refers, Hashes, Paths, NoDangling
<1>2. IInv /\ pc = "idle" /\ outcome = "ok" =>
        \A r \in stdb.rows : \E s \in db.structure : s.hash = r.shash
  <2> SUFFICES ASSUME IInv, pc = "idle", outcome = "ok", NEW r \in stdb.rows
               PROVE  r.shash \in Hashes(db)
    BY DEF Hashes
  <2>1. DOMAIN shown = 1..Len(shown)
    BY TreeShape DEF IInv, Typed
  <2>2. \E i \in DOMAIN shown : r.shash = shown[i].shash
    BY <2>1 DEF IInv, Holds, FirstRows, Instance
  <2> QED
    BY <2>2 DEF IInv, Complete
<1>3. IInv => Described
  BY <1>1, <1>2 DEF Described
<1> QED
  BY <1>3, Invariance, PTL

\* A later push never changes the first child committed for a hash, although the
\* rows of one hash within a tree overwrite each other.
THEOREM FirstChildCorrect == Spec => FirstChildFixed
<1> DEFINE Fixed == \A s \in db.structure, t \in db'.structure :
                       s.hash = t.hash => s.firstChild = t.firstChild
<1>1. IInv /\ IInv' /\ [Next]_vars => [Fixed]_vars
  <2> SUFFICES ASSUME IInv, IInv', NEW s \in db.structure, NEW t \in db'.structure, s.hash = t.hash
               PROVE  s.firstChild = t.firstChild
    OBVIOUS
  <2>1. PICK u \in Trees : \E r \in LastRows(u) : s.hash = r.shash /\ s.firstChild = r.firstChild
    BY DEF IInv, DbTx, FromLast
  <2>2. PICK v \in Trees : \E r \in LastRows(v) : t.hash = r.shash /\ t.firstChild = r.firstChild
    BY DEF IInv, DbTx, FromLast
  <2>3. \A q \in LastRows(u), r \in LastRows(v) : q.shash = r.shash => q.firstChild = r.firstChild
    BY HashesOK DEF HashesOK
  <2> QED
    BY <2>1, <2>2, <2>3
<1>2. Spec => [][Fixed]_vars
  BY <1>1, Invariance, PTL DEF Spec
<1> QED
  BY <1>2 DEF FirstChildFixed
=============================================================================
