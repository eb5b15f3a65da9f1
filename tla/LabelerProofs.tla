--------------------------- MODULE LabelerProofs ---------------------------
(***************************************************************************)
(* Proofs about Labeler, for any structures, any number of calls and any   *)
(* changes of the page: a structure is labelled after its children, and    *)
(* nothing panics unless something fails, changes or is interrupted.       *)
(***************************************************************************)
EXTENDS Labeler, FiniteSetTheorems, SequenceTheorems, TLAPS

Paths  == Seq(Nat) \ {<<>>}
Places == {"lookup", "collect", "ask", "record", "done", "failed"}

\* The types the proofs need.
CallsTyped ==
    /\ DOMAIN calls \subseteq Paths
    /\ \A p \in DOMAIN calls : calls[p] \in [hash : Hashes, at : Places, left : Nat]

Typed ==
    /\ present \in Pages /\ todo \subseteq Hashes
    /\ changes \in 0..MaxChanges /\ count \in 0..MaxCalls
    /\ CallsTyped
    /\ open \in BOOLEAN /\ cancelled \in BOOLEAN /\ erred \in BOOLEAN /\ crashed \in BOOLEAN

\* Path q is that of a call somewhere below the one at p.
Descends(q, p) == Len(q) > Len(p) /\ \A i \in 1..Len(p) : q[i] = p[i]

\* The children whose results the call at p has not taken yet.
Pending(p) == {i \in DOMAIN Kids(p) : Append(p, i) \in DOMAIN calls}

\* A path names one call only: there are none yet below one that is to be looked up,
\* and the loop counts on.
Numbered == \A p \in DOMAIN calls : p[1] \in 1..count
Fresh    == \A p \in DOMAIN calls : calls[p].at = "lookup" =>
                \A q \in DOMAIN calls : ~Descends(q, p)

\* Every child of a call that collects is in progress, and counted, or has a label.
Collecting(p) ==
    /\ calls[p].left = Cardinality(Pending(p))
    /\ \A i \in DOMAIN Kids(p) :
          Kids(p)[i] \in Received \/ (i \in Pending(p) /\ calls[Append(p, i)].hash = Kids(p)[i])
    /\ \A q \in DOMAIN calls : Len(q) > 1 /\ Front(q) = p => Last(q) \in Pending(p)

Labelled ==
    \A p \in DOMAIN calls :
        /\ calls[p].at = "collect" => Collecting(p)
        /\ calls[p].at = "done" => calls[p].hash \in Received

\* The writer holds one label at most, and has seen to those of its children.
WriterInv ==
    /\ Received \subseteq Hashes /\ lost \cap db = {}
    /\ writer = {} \/ \E h \in Hashes : writer = {h}
    /\ WrittenLast

IInv == InstancesOK /\ Typed /\ Numbered /\ Fresh /\ Labelled /\ AskedLast /\ WriterInv

\* As long as nothing fails, changes or is interrupted, the parent of every call is
\* there to take its result, and what is labelled is on the page.
Awaited(q) ==
    /\ calls[q].at # "failed"
    /\ Len(q) > 1 => Front(q) \in DOMAIN calls /\ calls[Front(q)].at = "collect"
Calm ==
    /\ ~open => cancelled
    /\ ~erred /\ ~cancelled => \A q \in DOMAIN calls : Awaited(q)
    /\ changes = 0 => todo \subseteq present /\ \A p \in DOMAIN calls : calls[p].hash \in present
    /\ CalmIsSafe
-----------------------------------------------------------------------------
(* Paths.                                                                  *)

\* The call of a structure and a call of one of its children are two.
LEMMA Longer ==
    ASSUME NEW p, NEW q, Len(p) = 1, Len(q) > 1
    PROVE  p # q /\ Len(q) # 1
<1>1. Len(q) # 1
  <2> SUFFICES ASSUME Len(q) = 1 PROVE FALSE
    OBVIOUS
  <2> QED
    OBVIOUS
<1> QED
  BY <1>1

\* The path of a child: its parent's, and its place among the children.
LEMMA Extend ==
    ASSUME NEW p \in Paths, NEW i \in Nat
    PROVE  /\ Append(p, i) \in Paths /\ Len(Append(p, i)) = Len(p) + 1 /\ Len(Append(p, i)) > 1
           /\ Front(Append(p, i)) = p /\ Last(Append(p, i)) = i /\ Append(p, i)[1] = p[1]
           /\ \A k \in 1..Len(p) : Append(p, i)[k] = p[k]
<1> DEFINE q == Append(p, i)
<1>1. p \in Seq(Nat) /\ Len(p) \in Nat /\ Len(p) > 0
  BY LenProperties, EmptySeq DEF Paths
<1>2. q \in Seq(Nat) /\ q # <<>> /\ Len(q) = Len(p) + 1 /\ q[Len(p) + 1] = i
      /\ \A k \in 1..Len(p) : q[k] = p[k]
  BY <1>1, AppendProperties
<1> HIDE DEF q
<1>3. SubSeq(q, 1, Len(p)) = p
  <2> DEFINE n == Len(p)
  <2>1. n \in Nat /\ \A k \in 1..n : q[k] \in Nat
    BY <1>1, <1>2, ElementOfSeq
  <2> HIDE DEF n
  <2>2. SubSeq(q, 1, n) \in Seq(Nat) /\ Len(SubSeq(q, 1, n)) = n
        /\ \A k \in 1..n : SubSeq(q, 1, n)[k] = q[k]
    BY <1>2, <2>1, SubSeqProperties
  <2> QED
    BY <1>1, <1>2, <2>2, SeqEqual DEF n
<1>4. Front(q) = p /\ Last(q) = i
  BY <1>1, <1>2, <1>3 DEF Front, Last
<1> QED
  BY <1>1, <1>2, <1>4 DEF Paths, q

\* The path of a child is that of its parent and its place.
LEMMA Split ==
    ASSUME NEW q \in Paths, Len(q) > 1
    PROVE  Front(q) \in Paths /\ Last(q) \in Nat /\ q = Append(Front(q), Last(q))
<1>1. q \in Seq(Nat) /\ q # <<>>
  BY DEF Paths
<1>2. PICK p \in Seq(Nat), i \in Nat : q = Append(p, i)
  BY <1>1, SequenceEmptyOrAppend
<1>3. p # <<>>
  <2>1. Len(q) = Len(p) + 1 /\ Len(p) \in Nat
    BY <1>2, AppendProperties, LenProperties
  <2> QED
    BY <2>1, EmptySeq
<1> QED
  BY <1>2, <1>3, Extend DEF Paths

\* What is below a call and below its children.
LEMMA Descent ==
    ASSUME NEW p \in Paths, NEW q \in Paths, NEW i \in Nat, NEW k \in Nat
    PROVE  /\ Descends(Append(q, i), p) => Descends(q, p) \/ q = p
           /\ Descends(q, Append(p, i)) => Descends(q, p)
           /\ ~Descends(Append(p, i), Append(p, k))
           /\ ~Descends(p, Append(p, i)) /\ Descends(Append(p, i), p)
<1>1. /\ Len(p) \in Nat /\ Len(q) \in Nat /\ p \in Seq(Nat) /\ q \in Seq(Nat)
  BY LenProperties DEF Paths
<1>2. /\ Len(Append(p, i)) = Len(p) + 1 /\ Len(Append(p, k)) = Len(p) + 1 /\ Len(Append(q, i)) = Len(q) + 1
      /\ \A j \in 1..Len(q) : Append(q, i)[j] = q[j]
      /\ \A j \in 1..Len(p) : Append(p, i)[j] = p[j]
  BY Extend
<1>3. ASSUME Descends(Append(q, i), p), ~Descends(q, p) PROVE q = p
  <2>1. Len(p) <= Len(q) /\ \A j \in 1..Len(p) : q[j] = p[j]
    BY <1>1, <1>2, <1>3 DEF Descends
  <2>2. Len(q) = Len(p)
    BY <1>1, <1>3, <2>1 DEF Descends
  <2> QED
    BY <1>1, <2>1, <2>2, SeqEqual
<1>4. Descends(q, Append(p, i)) => Descends(q, p)
  BY <1>1, <1>2 DEF Descends
<1>5. ~Descends(Append(p, i), Append(p, k)) /\ ~Descends(p, Append(p, i))
  BY <1>1, <1>2 DEF Descends
<1>6. Descends(Append(p, i), p)
  BY <1>1, <1>2 DEF Descends
<1> QED
  BY <1>3, <1>4, <1>5, <1>6
-----------------------------------------------------------------------------
(* Calls.                                                                  *)

\* The children are those of some instance.
LEMMA KidsType ==
    ASSUME InstancesOK, NEW h \in Hashes
    PROVE  /\ anyNonCyclicStructure(h) \in Seq(Hashes)
           /\ \E i \in DOMAIN Instances[h] : anyNonCyclicStructure(h) = Instances[h][i]
           /\ DOMAIN anyNonCyclicStructure(h) = 1..Len(anyNonCyclicStructure(h))
           /\ Len(anyNonCyclicStructure(h)) \in Nat
           /\ \A i \in DOMAIN anyNonCyclicStructure(h) : i \in Nat /\ anyNonCyclicStructure(h)[i] \in Hashes
<1> DEFINE list  == Instances[h]
           kids  == anyNonCyclicStructure(h)
<1>1. list \in Seq(Seq(Hashes)) /\ list # <<>>
  BY DEF InstancesOK
<1>2. \E i \in DOMAIN list : kids = list[i]
  <2> DEFINE fits(i) == list[i] # <<>> /\ list[i][1] # h
             first   == {i \in DOMAIN list : fits(i) /\ \A k \in 1..(i - 1) : ~fits(k)}
             chosen  == IF first = {} THEN 1 ELSE CHOOSE i \in first : TRUE
  <2>1. kids = list[chosen]
    BY DEF anyNonCyclicStructure
  <2>2. 1 \in DOMAIN list
    BY <1>1, EmptySeq, LenProperties
  <2>3. \A i \in first : i \in DOMAIN list
    OBVIOUS
  <2> HIDE DEF first, list, kids
  <2>4. chosen \in DOMAIN list
    BY <2>2, <2>3
  <2> HIDE DEF chosen
  <2> QED
    BY <2>1, <2>4
<1> HIDE DEF list, kids
<1>3. kids \in Seq(Hashes)
  BY <1>1, <1>2, ElementOfSeq, LenProperties
<1>4. DOMAIN kids = 1..Len(kids) /\ Len(kids) \in Nat /\ \A i \in 1..Len(kids) : kids[i] \in Hashes
  BY <1>3, ElementOfSeq, LenProperties
<1> QED
  BY <1>2, <1>3, <1>4 DEF kids, list

\* What the types say of one call.
LEMMA CallsType ==
    ASSUME Typed, InstancesOK, NEW p \in DOMAIN calls
    PROVE  /\ p \in Paths /\ Len(p) \in Nat /\ Len(p) > 0 /\ calls[p].hash \in Hashes
           /\ calls[p].at \in Places /\ calls[p].left \in Nat
           /\ Kids(p) \in Seq(Hashes) /\ DOMAIN Kids(p) = 1..Len(Kids(p)) /\ Len(Kids(p)) \in Nat
           /\ \A i \in DOMAIN Kids(p) : i \in Nat /\ Append(p, i) \in Paths /\ Kids(p)[i] \in Hashes
           /\ Pending(p) \subseteq Nat /\ IsFiniteSet(Pending(p)) /\ Cardinality(Pending(p)) \in Nat
<1>1. p \in Paths /\ calls[p].hash \in Hashes /\ calls[p].at \in Places /\ calls[p].left \in Nat
  BY DEF Typed, CallsTyped
<1>2. Len(p) \in Nat /\ Len(p) > 0
  BY <1>1, LenProperties, EmptySeq DEF Paths
<1>3. /\ Kids(p) \in Seq(Hashes) /\ DOMAIN Kids(p) = 1..Len(Kids(p)) /\ Len(Kids(p)) \in Nat
      /\ \A i \in DOMAIN Kids(p) : i \in Nat /\ Kids(p)[i] \in Hashes
  BY <1>1, KidsType DEF Kids
<1>4. Pending(p) \subseteq 1..Len(Kids(p))
  BY <1>3 DEF Pending
<1>5. IsFiniteSet(Pending(p))
  <2>1. IsFiniteSet(1..Len(Kids(p)))
    BY <1>3, FS_Interval
  <2> QED
    BY <1>4, <2>1, FS_Subset
<1> QED
  BY <1>1, <1>2, <1>3, <1>4, <1>5, Extend, FS_CardinalityType

\* Where the writer does nothing, all it has received stays received.
LEMMA StorageStays ==
    ASSUME WriterInv, UNCHANGED <<db, writer, lost>>
    PROVE  WriterInv' /\ Received' = Received
  BY DEF WriterInv, WrittenLast, Received

\* A call goes on to where it is over, or to what comes after collecting.
LEMMA GoesOn ==
    ASSUME IInv, NEW p \in DOMAIN calls, NEW pc \in Places \ {"lookup", "collect"}, Go(p, pc),
           count' = count, Received \subseteq Received',
           pc \in {"ask", "record"} => Range(Kids(p)) \subseteq Received',
           pc = "done" => calls[p].hash \in Received'
    PROVE  /\ DOMAIN calls' = DOMAIN calls
           /\ \A q \in DOMAIN calls : calls'[q].hash = calls[q].hash
           /\ \A q \in DOMAIN calls : calls'[q].at = IF q = p THEN pc ELSE calls[q].at
           /\ CallsTyped' /\ Numbered' /\ Fresh' /\ Labelled' /\ AskedLast'
<1>1. DOMAIN calls' = DOMAIN calls
  BY DEF Go
<1>2. \A q \in DOMAIN calls : calls'[q] = IF q = p THEN [calls[q] EXCEPT !.at = pc] ELSE calls[q]
  BY DEF Go
<1>3. \A q \in DOMAIN calls : calls[q] \in [hash : Hashes, at : Places, left : Nat]
  BY DEF IInv, Typed, CallsTyped
<1>4. \A q \in DOMAIN calls : /\ calls'[q].hash = calls[q].hash /\ calls'[q].left = calls[q].left
                              /\ calls'[q].at = IF q = p THEN pc ELSE calls[q].at
                              /\ calls'[q] \in [hash : Hashes, at : Places, left : Nat]
  BY <1>2, <1>3
<1>5. \A q \in DOMAIN calls : Kids(q)' = Kids(q)
  BY <1>1, <1>4 DEF Kids
<1>6. \A q \in DOMAIN calls : Pending(q)' = Pending(q)
  BY <1>1, <1>5 DEF Pending
<1>7. Numbered' /\ Fresh'
  BY <1>1, <1>4 DEF IInv, Numbered, Fresh, Descends
<1>8. ASSUME NEW q \in DOMAIN calls, calls[q].at = "collect" PROVE Collecting(q)'
  <2>1. Collecting(q)
    BY <1>8 DEF IInv, Labelled
  <2>2. \A i \in Pending(q) : Append(q, i) \in DOMAIN calls
    BY DEF Pending
  <2> QED
    BY <1>1, <1>4, <1>5, <1>6, <1>8, <2>1, <2>2 DEF Collecting
<1>9. Labelled'
  <2> SUFFICES ASSUME NEW q \in DOMAIN calls
               PROVE  /\ calls'[q].at = "collect" => Collecting(q)'
                      /\ calls'[q].at = "done" => calls'[q].hash \in Received'
    BY <1>1 DEF Labelled
  <2> QED
    BY <1>4, <1>8 DEF IInv, Labelled
<1>10. AskedLast'
  BY <1>1, <1>4, <1>5 DEF IInv, AskedLast
<1>11. CallsTyped'
  BY <1>1, <1>4 DEF IInv, Typed, CallsTyped
<1> QED
  BY <1>1, <1>4, <1>7, <1>9, <1>10, <1>11

\* The loop begins to label a hash, with a number not used before.
LEMMA Begins ==
    ASSUME IInv, NEW h \in todo, Begin(h)
    PROVE  /\ \A p \in DOMAIN calls' : p \in DOMAIN calls \/ p = <<count + 1>>
           /\ calls'[<<count + 1>>] = Call(h)
           /\ \A p \in DOMAIN calls : p \in DOMAIN calls' /\ calls'[p] = calls[p] /\ Len(p) > 1
           /\ CallsTyped' /\ Numbered' /\ Fresh' /\ Labelled' /\ AskedLast'
<1> DEFINE new == <<count + 1>>
<1>1. count \in Nat /\ count' = count + 1 /\ h \in Hashes /\ Received' = Received
  BY DEF Begin, storage, Received, IInv, Typed, CallsTyped
<1>2. new \in Paths /\ Len(new) = 1 /\ new[1] = count + 1
  BY <1>1 DEF Paths
<1>3. \A p \in DOMAIN calls : /\ p \in Paths /\ Len(p) \in Nat /\ Len(p) > 1 /\ Len(p) # 1
                              /\ p # new /\ p[1] \in 1..count
  <2> SUFFICES ASSUME NEW p \in DOMAIN calls
               PROVE  /\ p \in Paths /\ Len(p) \in Nat /\ Len(p) > 1 /\ Len(p) # 1
                      /\ p # new /\ p[1] \in 1..count
    OBVIOUS
  <2>1. p \in Paths /\ Len(p) \in Nat
    BY CallsType DEF IInv
  <2>2. Len(p) > 1 /\ p[1] \in 1..count
    BY DEF IInv, Begin, Idle, Numbered
  <2> HIDE DEF new
  <2>3. Len(p) # 1
    BY <1>2, <2>2, Longer
  <2> QED
    BY <1>2, <2>1, <2>2, <2>3
<1>4. DOMAIN calls' = DOMAIN calls \cup {new}
  BY DEF Begin
<1>5. calls'[new] = Call(h) /\ \A p \in DOMAIN calls : calls'[p] = calls[p]
  <2>1. \A p \in DOMAIN calls \cup {new} : calls'[p] = IF Len(p) = 1 THEN Call(h) ELSE calls[p]
    BY DEF Begin
  <2>2. calls'[new] = Call(h)
    BY <1>2, <2>1
  <2>3. ASSUME NEW p \in DOMAIN calls PROVE calls'[p] = calls[p]
    <3>1. Len(p) # 1
      BY <1>3
    <3> QED
      BY <2>1, <3>1
  <2> QED
    BY <2>2, <2>3
<1> HIDE DEF new
<1>6. /\ Call(h) \in [hash : Hashes, at : Places, left : Nat] /\ Call(h).at = "lookup"
      /\ \A p \in DOMAIN calls : calls[p] \in [hash : Hashes, at : Places, left : Nat]
  BY <1>1 DEF Call, Places, IInv, Typed, CallsTyped
<1>7. Numbered'
  BY <1>1, <1>2, <1>3, <1>4 DEF Numbered
<1>8. Fresh'
  <2>1. \A p \in DOMAIN calls : ~Descends(new, p) /\ ~Descends(p, new)
    <3> SUFFICES ASSUME NEW p \in DOMAIN calls PROVE ~Descends(new, p) /\ ~Descends(p, new)
      OBVIOUS
    <3>1. Len(p) \in Nat /\ Len(p) > 1 /\ p[1] # new[1]
      BY <1>1, <1>2, <1>3, LenProperties DEF Paths
    <3> QED
      BY <1>2, <3>1 DEF Descends
  <2>2. ~Descends(new, new)
    BY <1>2 DEF Descends
  <2> QED
    BY <1>4, <1>5, <2>1, <2>2 DEF IInv, Fresh
<1>9. ASSUME NEW p \in DOMAIN calls, calls[p].at = "collect" PROVE Collecting(p)'
  <2>1. Collecting(p)
    BY <1>9 DEF IInv, Labelled
  <2>2. Kids(p)' = Kids(p)
    BY <1>5 DEF Kids
  <2>3. \A i \in DOMAIN Kids(p) : Append(p, i) # new
    <3> SUFFICES ASSUME NEW i \in DOMAIN Kids(p) PROVE Append(p, i) # new
      OBVIOUS
    <3>1. p \in Paths /\ i \in Nat
      BY CallsType DEF IInv
    <3>2. Len(Append(p, i)) > 1
      BY <3>1, Extend
    <3> QED
      BY <1>2, <3>2
  <2>4. Pending(p)' = Pending(p)
    BY <1>4, <2>2, <2>3 DEF Pending
  <2>5. \A i \in Pending(p) : Append(p, i) \in DOMAIN calls
    BY DEF Pending
  <2>6. calls'[p].left = Cardinality(Pending(p)')
    BY <1>5, <2>1, <2>4 DEF Collecting
  <2>7. \A i \in DOMAIN Kids(p)' :
           Kids(p)'[i] \in Received' \/ (i \in Pending(p)' /\ calls'[Append(p, i)].hash = Kids(p)'[i])
    BY <1>1, <1>5, <2>1, <2>2, <2>4, <2>5 DEF Collecting
  <2>8. \A q \in DOMAIN calls' : Len(q) > 1 /\ Front(q) = p => Last(q) \in Pending(p)'
    <3> SUFFICES ASSUME NEW q \in DOMAIN calls', Len(q) > 1, Front(q) = p PROVE Last(q) \in Pending(p)
      BY <2>4
    <3>1. q \in DOMAIN calls
      <4>1. q # new
        BY <1>2, Longer
      <4> QED
        BY <1>4, <4>1
    <3>2. \A r \in DOMAIN calls : Len(r) > 1 /\ Front(r) = p => Last(r) \in Pending(p)
      BY <2>1 DEF Collecting
    <3> QED
      BY <3>1, <3>2
  <2> QED
    BY <2>6, <2>7, <2>8 DEF Collecting
<1>10. Labelled'
  BY <1>1, <1>4, <1>5, <1>6, <1>9 DEF IInv, Labelled
<1>11. AskedLast'
  BY <1>1, <1>4, <1>5, <1>6 DEF IInv, AskedLast, Kids
<1>12. CallsTyped'
  BY <1>2, <1>3, <1>4, <1>5, <1>6 DEF CallsTyped
<1> QED
  BY <1>2, <1>3, <1>4, <1>5, <1>7, <1>8, <1>10, <1>11, <1>12 DEF new

\* A step that leaves the calls as they are.
LEMMA Rests ==
    ASSUME IInv, calls' = calls, count' = count, Received \subseteq Received'
    PROVE  CallsTyped' /\ Numbered' /\ Fresh' /\ Labelled' /\ AskedLast'
<1>1. CallsTyped' /\ Numbered' /\ Fresh'
  BY DEF IInv, Typed, CallsTyped, Numbered, Fresh
<1>2. \A p \in DOMAIN calls : Kids(p)' = Kids(p) /\ Pending(p)' = Pending(p)
  BY DEF Kids, Pending
<1>3. Labelled'
  BY <1>2 DEF IInv, Labelled, Collecting
<1>4. AskedLast'
  BY <1>2 DEF IInv, AskedLast
<1> QED
  BY <1>1, <1>3, <1>4

Spread(p) ==
    calls' = [q \in DOMAIN calls \cup Below(p) |->
                 IF q = p THEN [calls[p] EXCEPT !.at = "collect", !.left = Len(Kids(p))]
                 ELSE IF q \in Below(p) THEN Call(Kids(p)[Last(q)])
                 ELSE calls[q]]

\* A structure without a label: its children are looked up, and waited for.
LEMMA LooksUp ==
    ASSUME IInv, NEW p \in DOMAIN calls, calls[p].at = "lookup",
           Spread(p),
           count' = count, Received' = Received
    PROVE  /\ DOMAIN calls' = DOMAIN calls \cup Below(p)
           /\ calls'[p].at = "collect" /\ calls'[p].hash = calls[p].hash
           /\ \A q \in DOMAIN calls \ {p} : calls'[q] = calls[q]
           /\ \A q \in Below(p) : /\ q \in Paths /\ Front(q) = p /\ calls'[q].at = "lookup"
                                  /\ calls'[q].hash \in Range(Kids(p))
           /\ CallsTyped' /\ Numbered' /\ Fresh' /\ Labelled' /\ AskedLast'
<1>1. /\ p \in Paths /\ Len(p) \in Nat /\ Len(p) > 0 /\ calls[p].hash \in Hashes
      /\ DOMAIN Kids(p) = 1..Len(Kids(p)) /\ Len(Kids(p)) \in Nat
      /\ \A i \in DOMAIN Kids(p) : i \in Nat /\ Append(p, i) \in Paths /\ Kids(p)[i] \in Hashes
      /\ calls[p] \in [hash : Hashes, at : Places, left : Nat]
  BY CallsType DEF IInv, Typed, CallsTyped
<1>2. /\ \A i \in DOMAIN Kids(p) :
            /\ Front(Append(p, i)) = p /\ Last(Append(p, i)) = i /\ Append(p, i)[1] = p[1]
            /\ Descends(Append(p, i), p)
      /\ Below(p) = {Append(p, i) : i \in DOMAIN Kids(p)}
  <2>1. ASSUME NEW i \in DOMAIN Kids(p)
        PROVE  /\ Front(Append(p, i)) = p /\ Last(Append(p, i)) = i /\ Append(p, i)[1] = p[1]
               /\ Descends(Append(p, i), p)
    <3>1. p \in Paths /\ i \in Nat
      BY <1>1
    <3> QED
      BY <3>1, Extend, Descent
  <2> QED
    BY <2>1 DEF Below
<1>3. Below(p) \cap DOMAIN calls = {}
  BY <1>2 DEF IInv, Fresh
<1>4. /\ DOMAIN calls' = DOMAIN calls \cup Below(p) /\ p \notin Below(p)
      /\ calls'[p] = [calls[p] EXCEPT !.at = "collect", !.left = Len(Kids(p))]
      /\ \A q \in DOMAIN calls \ {p} : calls'[q] = calls[q]
      /\ \A q \in Below(p) : calls'[q] = Call(Kids(p)[Last(q)])
  <2>1. p \notin Below(p)
    BY <1>3
  <2>2. \A q \in DOMAIN calls \cup Below(p) :
           calls'[q] = IF q = p THEN [calls[p] EXCEPT !.at = "collect", !.left = Len(Kids(p))]
                       ELSE IF q \in Below(p) THEN Call(Kids(p)[Last(q)]) ELSE calls[q]
    BY DEF Spread
  <2>3. DOMAIN calls' = DOMAIN calls \cup Below(p)
    BY DEF Spread
  <2> QED
    BY <1>3, <2>1, <2>2, <2>3
<1>5. /\ calls'[p].at = "collect" /\ calls'[p].left = Len(Kids(p)) /\ calls'[p].hash = calls[p].hash
      /\ calls'[p] \in [hash : Hashes, at : Places, left : Nat]
  BY <1>1, <1>4 DEF Places
<1>6. \A i \in DOMAIN Kids(p) : /\ Append(p, i) \in DOMAIN calls' /\ calls'[Append(p, i)].hash = Kids(p)[i]
                                /\ calls'[Append(p, i)].at = "lookup"
                                /\ calls'[Append(p, i)] \in [hash : Hashes, at : Places, left : Nat]
  <2> SUFFICES ASSUME NEW i \in DOMAIN Kids(p)
               PROVE  /\ Append(p, i) \in DOMAIN calls' /\ calls'[Append(p, i)].hash = Kids(p)[i]
                      /\ calls'[Append(p, i)].at = "lookup"
                      /\ calls'[Append(p, i)] \in [hash : Hashes, at : Places, left : Nat]
    OBVIOUS
  <2>1. calls'[Append(p, i)] = Call(Kids(p)[i]) /\ Append(p, i) \in DOMAIN calls'
    BY <1>2, <1>4
  <2> QED
    BY <1>1, <2>1 DEF Call, Places
<1>7. \A q \in DOMAIN calls' : q \in DOMAIN calls \/ \E i \in DOMAIN Kids(p) : q = Append(p, i)
  BY <1>2, <1>4
<1>8. \A q \in DOMAIN calls : calls'[q].hash = calls[q].hash /\ Kids(q)' = Kids(q)
  <2>1. \A q \in DOMAIN calls : calls'[q].hash = calls[q].hash
    BY <1>4, <1>5
  <2> QED
    BY <2>1 DEF Kids
<1>9. CallsTyped' /\ Numbered'
  <2>1. \A q \in DOMAIN calls' : q \in Paths /\ calls'[q] \in [hash : Hashes, at : Places, left : Nat]
                               /\ q[1] \in 1..count
    <3>1. \A q \in DOMAIN calls : /\ q \in Paths /\ q[1] \in 1..count
                                  /\ calls'[q] \in [hash : Hashes, at : Places, left : Nat]
      BY <1>4, <1>5 DEF IInv, Typed, CallsTyped, Numbered
    <3>2. \A i \in DOMAIN Kids(p) : /\ Append(p, i) \in Paths /\ Append(p, i)[1] \in 1..count
                                    /\ calls'[Append(p, i)] \in [hash : Hashes, at : Places, left : Nat]
      BY <1>1, <1>2, <1>6, <3>1
    <3> QED
      BY <1>7, <3>1, <3>2
  <2> QED
    <3>1. count' = count
      OBVIOUS
    <3> QED
      BY <2>1, <3>1 DEF CallsTyped, Numbered
<1>10. Fresh'
  <2> SUFFICES ASSUME NEW r \in DOMAIN calls', calls'[r].at = "lookup", NEW q \in DOMAIN calls'
               PROVE  ~Descends(q, r)
    BY DEF Fresh
  <2>1. \A d \in DOMAIN calls : d \in Paths /\ ~Descends(d, p)
    BY DEF IInv, Fresh, Typed, CallsTyped
  <2>2. CASE r \in DOMAIN calls
    <3>1. r # p /\ calls[r].at = "lookup" /\ r \in Paths
      BY <1>4, <1>5, <2>1, <2>2
    <3>2. \A d \in DOMAIN calls : ~Descends(d, r)
      BY <2>2, <3>1 DEF IInv, Fresh
    <3>3. CASE q \in DOMAIN calls
      BY <3>2, <3>3
    <3>4. CASE \E i \in DOMAIN Kids(p) : q = Append(p, i)
      <4>1. PICK i \in DOMAIN Kids(p) : q = Append(p, i)
        BY <3>4
      <4> QED
        BY <1>1, <3>1, <3>2, <4>1, Descent
    <3> QED
      BY <1>7, <3>3, <3>4
  <2>3. CASE \E i \in DOMAIN Kids(p) : r = Append(p, i)
    <3>1. PICK i \in DOMAIN Kids(p) : r = Append(p, i)
      BY <2>3
    <3>2. CASE q \in DOMAIN calls
      <4>1. q \in Paths /\ i \in Nat /\ ~Descends(q, p)
        BY <1>1, <2>1, <3>2
      <4> QED
        BY <1>1, <3>1, <4>1, Descent
    <3>3. CASE \E k \in DOMAIN Kids(p) : q = Append(p, k)
      <4>1. PICK k \in DOMAIN Kids(p) : q = Append(p, k)
        BY <3>3
      <4>2. i \in Nat /\ k \in Nat
        BY <1>1
      <4> QED
        BY <1>1, <3>1, <4>1, <4>2, Descent
    <3> QED
      BY <1>7, <3>2, <3>3
  <2> QED
    BY <1>7, <2>2, <2>3
<1>11. Collecting(p)'
  <2>1. Kids(p)' = Kids(p)
    BY <1>8
  <2>2. Pending(p)' = 1..Len(Kids(p))
    BY <1>1, <1>6, <2>1 DEF Pending
  <2>3. calls'[p].left = Cardinality(Pending(p)')
    <3> DEFINE n == Len(Kids(p))
    <3>1. n \in Nat
      BY <1>1
    <3>2. Cardinality(1..n) = n
      <4> HIDE DEF n
      <4>1. Cardinality(1..n) = IF 1 > n THEN 0 ELSE n - 1 + 1
        BY <3>1, FS_Interval
      <4> QED
        BY <3>1, <4>1
    <3> QED
      BY <1>5, <2>2, <3>2
  <2>4. \A q \in DOMAIN calls' : Len(q) > 1 /\ Front(q) = p => Last(q) \in Pending(p)'
    <3> SUFFICES ASSUME NEW q \in DOMAIN calls', Len(q) > 1, Front(q) = p PROVE Last(q) \in DOMAIN Kids(p)
      BY <1>1, <2>2
    <3>1. q \notin DOMAIN calls
      <4> SUFFICES ASSUME q \in DOMAIN calls PROVE FALSE
        OBVIOUS
      <4>1. q \in Paths /\ ~Descends(q, p)
        BY DEF IInv, Fresh, Typed, CallsTyped
      <4>2. Last(q) \in Nat /\ q = Append(p, Last(q))
        BY <4>1, Split
      <4>3. PICK l \in Nat : q = Append(p, l)
        BY <4>2
      <4>4. Descends(Append(p, l), p)
        BY <1>1, Descent
      <4> QED
        BY <4>1, <4>3, <4>4
    <3> QED
      BY <1>2, <1>7, <3>1
  <2>5. \A i \in DOMAIN Kids(p) : i \in Pending(p)' /\ calls'[Append(p, i)].hash = Kids(p)[i]
    BY <1>1, <1>6, <2>2
  <2> QED
    BY <2>1, <2>3, <2>4, <2>5 DEF Collecting
<1>12. ASSUME NEW r \in DOMAIN calls, calls[r].at = "collect" PROVE Collecting(r)'
  <2>1. Collecting(r) /\ r # p
    BY <1>12 DEF IInv, Labelled
  <2>2. Kids(r)' = Kids(r)
    BY <1>8
  <2>3. \A q \in Below(p) : Front(q) # r
    BY <1>2, <2>1
  <2>4. \A i \in DOMAIN Kids(r) : Append(r, i) \notin Below(p)
    <3> SUFFICES ASSUME NEW i \in DOMAIN Kids(r) PROVE Front(Append(r, i)) = r
      BY <2>3
    <3>1. r \in Paths /\ i \in Nat
      BY CallsType DEF IInv
    <3> QED
      BY <3>1, Extend
  <2>5. Pending(r)' = Pending(r)
    BY <1>4, <2>2, <2>4 DEF Pending
  <2>6. calls'[r].left = Cardinality(Pending(r)')
    BY <1>4, <2>1, <2>5 DEF Collecting
  <2>7. \A i \in DOMAIN Kids(r)' :
           Kids(r)'[i] \in Received' \/ (i \in Pending(r)' /\ calls'[Append(r, i)].hash = Kids(r)'[i])
    <3> SUFFICES ASSUME NEW i \in DOMAIN Kids(r)
                 PROVE  Kids(r)[i] \in Received \/ (i \in Pending(r) /\ calls'[Append(r, i)].hash = Kids(r)[i])
      BY <2>2, <2>5
    <3>1. Kids(r)[i] \in Received \/ (i \in Pending(r) /\ calls[Append(r, i)].hash = Kids(r)[i])
      BY <2>1 DEF Collecting
    <3>2. i \in Pending(r) => Append(r, i) \in DOMAIN calls
      BY DEF Pending
    <3> QED
      BY <1>8, <3>1, <3>2
  <2>8. \A q \in DOMAIN calls' : Len(q) > 1 /\ Front(q) = r => Last(q) \in Pending(r)'
    BY <1>4, <2>1, <2>3, <2>5 DEF Collecting
  <2> QED
    BY <2>6, <2>7, <2>8 DEF Collecting
<1>13. Labelled'
  <2> SUFFICES ASSUME NEW q \in DOMAIN calls'
               PROVE  /\ calls'[q].at = "collect" => Collecting(q)'
                      /\ calls'[q].at = "done" => calls'[q].hash \in Received
    BY DEF Labelled
  <2> QED
    <3>1. CASE q = p
      BY <1>5, <1>11, <3>1
    <3>2. CASE q \in DOMAIN calls \ {p}
      <4>1. calls'[q] = calls[q]
        BY <1>4, <3>2
      <4> QED
        BY <1>12, <3>2, <4>1 DEF IInv, Labelled
    <3>3. CASE \E i \in DOMAIN Kids(p) : q = Append(p, i)
      BY <1>6, <3>3
    <3> QED
      BY <1>7, <3>1, <3>2, <3>3
<1>14. AskedLast'
  <2> SUFFICES ASSUME NEW q \in DOMAIN calls', calls'[q].at \in {"ask", "record"}
               PROVE  Range(Kids(q)') \subseteq Received
    BY DEF AskedLast
  <2>1. q \in DOMAIN calls /\ q # p /\ calls'[q] = calls[q]
    <3>1. q # p /\ ~\E i \in DOMAIN Kids(p) : q = Append(p, i)
      BY <1>5, <1>6
    <3> QED
      BY <1>4, <1>7, <3>1
  <2> QED
    BY <1>8, <2>1 DEF IInv, AskedLast
<1> QED
  <2>1. \A q \in Below(p) : /\ q \in Paths /\ Front(q) = p /\ calls'[q].at = "lookup"
                            /\ calls'[q].hash \in Range(Kids(p))
    <3>1. \A i \in DOMAIN Kids(p) : Kids(p)[i] \in Range(Kids(p))
      BY DEF Range
    <3>2. \A i \in DOMAIN Kids(p) :
             /\ Append(p, i) \in Paths /\ Front(Append(p, i)) = p /\ calls'[Append(p, i)].at = "lookup"
             /\ calls'[Append(p, i)].hash \in Range(Kids(p))
      BY <1>1, <1>2, <1>6, <3>1
    <3> QED
      BY <1>2, <3>2
  <2> QED
    BY <1>4, <1>5, <1>9, <1>10, <1>13, <1>14, <2>1

\* A call is over, and no other waits for it.
LEMMA Finishes ==
    ASSUME IInv, NEW p \in DOMAIN calls, Len(p) = 1, calls' = Drop(p), count' = count, Received' = Received
    PROVE  /\ DOMAIN calls' = DOMAIN calls \ {p}
           /\ \A q \in DOMAIN calls' : calls'[q] = calls[q]
           /\ CallsTyped' /\ Numbered' /\ Fresh' /\ Labelled' /\ AskedLast'
<1>1. DOMAIN calls' = DOMAIN calls \ {p} /\ \A q \in DOMAIN calls' : calls'[q] = calls[q]
  BY DEF Drop
<1>2. CallsTyped' /\ Numbered' /\ Fresh'
  BY <1>1 DEF IInv, Typed, CallsTyped, Numbered, Fresh
<1>3. \A q \in DOMAIN calls' : q \in DOMAIN calls /\ Kids(q)' = Kids(q)
  BY <1>1 DEF Kids
<1>4. ASSUME NEW r \in DOMAIN calls', calls'[r].at = "collect" PROVE Collecting(r)'
  <2>1. Collecting(r) /\ Kids(r)' = Kids(r) /\ r \in DOMAIN calls /\ calls'[r] = calls[r]
    BY <1>1, <1>3, <1>4 DEF IInv, Labelled
  <2>2. \A i \in DOMAIN Kids(r) : Append(r, i) # p
    <3> SUFFICES ASSUME NEW i \in DOMAIN Kids(r) PROVE Append(r, i) # p
      OBVIOUS
    <3>1. r \in Paths /\ i \in Nat
      BY <2>1, CallsType DEF IInv
    <3>2. Len(Append(r, i)) > 1
      BY <3>1, Extend
    <3> QED
      BY <3>2, Longer
  <2>3. Pending(r)' = Pending(r)
    BY <1>1, <2>1, <2>2 DEF Pending
  <2>4. \A i \in Pending(r) : Append(r, i) \in DOMAIN calls'
    BY <1>1, <2>2 DEF Pending
  <2>5. calls'[r].left = Cardinality(Pending(r)')
    BY <2>1, <2>3 DEF Collecting
  <2>6. \A i \in DOMAIN Kids(r)' :
           Kids(r)'[i] \in Received' \/ (i \in Pending(r)' /\ calls'[Append(r, i)].hash = Kids(r)'[i])
    BY <1>1, <2>1, <2>3, <2>4 DEF Collecting
  <2>7. \A q \in DOMAIN calls' : Len(q) > 1 /\ Front(q) = r => Last(q) \in Pending(r)'
    BY <1>1, <2>1, <2>3 DEF Collecting
  <2> QED
    BY <2>5, <2>6, <2>7 DEF Collecting
<1>5. Labelled'
  BY <1>1, <1>4 DEF IInv, Labelled
<1>6. AskedLast'
  BY <1>1, <1>3 DEF IInv, AskedLast
<1> QED
  BY <1>1, <1>2, <1>5, <1>6

\* A result is taken: one child fewer is waited for, or the call fails.
LEMMA Collects ==
    ASSUME IInv, NEW p \in DOMAIN calls, NEW q \in DOMAIN calls, Collect(p, q)
    PROVE  /\ q # p /\ Len(q) > 1 /\ DOMAIN calls' = DOMAIN calls \ {q}
           /\ \A r \in DOMAIN calls' \ {p} : calls'[r] = calls[r]
           /\ calls[q].at # "failed" => calls'[p].at = "collect"
           /\ calls'[p].hash = calls[p].hash
           /\ CallsTyped' /\ Numbered' /\ Fresh' /\ Labelled' /\ AskedLast'
<1>1. /\ Front(q) = p /\ calls[p].at = "collect" /\ calls[q].at \in {"done", "failed"}
      /\ count' = count /\ Received' = Received
  BY DEF Collect, storage, Received
<1>2. p \in Paths /\ q \in Paths /\ p # q /\ calls[p] \in [hash : Hashes, at : Places, left : Nat]
  BY <1>1 DEF IInv, Typed, CallsTyped
<1>3. Len(q) > 1
  <2> SUFFICES ASSUME ~(Len(q) > 1) PROVE FALSE
    OBVIOUS
  <2>1. Len(q) \in Nat /\ Len(q) > 0
    BY CallsType DEF IInv
  <2>2. Len(q) = 1
    <3> DEFINE n == Len(q)
    <3>1. n \in Nat /\ n > 0 /\ ~(n > 1)
      BY <2>1
    <3> HIDE DEF n
    <3>2. n = 1
      BY <3>1
    <3> QED
      BY <3>2 DEF n
  <2>3. Front(q) = <<>>
    BY <2>2 DEF Front
  <2> QED
    BY <1>1, <1>2, <2>3 DEF Paths
<1>4. PICK i \in Nat : i = Last(q)
  BY <1>2, <1>3, Split
<1>5. q = Append(p, i)
  BY <1>1, <1>2, <1>3, <1>4, Split
<1>6. Collecting(p)
  BY <1>1 DEF IInv, Labelled
<1>7. i \in Pending(p)
  BY <1>1, <1>3, <1>4, <1>6 DEF Collecting
<1>8. /\ IsFiniteSet(Pending(p)) /\ Cardinality(Pending(p)) \in Nat
      /\ calls[p].left = Cardinality(Pending(p)) /\ calls[p].left \in Nat
      /\ Cardinality(Pending(p) \ {i}) = calls[p].left - 1
      /\ Cardinality(Pending(p) \ {i}) \in Nat
  <2>1. IsFiniteSet(Pending(p)) /\ Cardinality(Pending(p)) \in Nat /\ calls[p].left \in Nat
    BY CallsType DEF IInv
  <2>2. calls[p].left = Cardinality(Pending(p))
    BY <1>6 DEF Collecting
  <2>3. IsFiniteSet(Pending(p) \ {i}) /\ Cardinality(Pending(p) \ {i}) = Cardinality(Pending(p)) - 1
    BY <1>7, <2>1, FS_RemoveElement
  <2> QED
    BY <2>1, <2>2, <2>3, FS_CardinalityType
<1>9. /\ DOMAIN calls' = DOMAIN calls \ {q}
      /\ \A r \in DOMAIN calls' \ {p} : calls'[r] = calls[r]
      /\ calls[q].at = "failed" => calls'[p] = [calls[p] EXCEPT !.at = "failed"]
      /\ calls[q].at # "failed" => calls'[p] = [calls[p] EXCEPT !.left = calls[p].left - 1]
  <2>1. DOMAIN Drop(q) = DOMAIN calls \ {q} /\ \A r \in DOMAIN calls \ {q} : Drop(q)[r] = calls[r]
    BY DEF Drop
  <2>2. p \in DOMAIN calls \ {q}
    BY <1>2
  <2>3. CASE calls[q].at = "failed"
    <3>1. calls' = [Drop(q) EXCEPT ![p].at = "failed"]
      BY <2>3 DEF Collect
    <3> QED
      BY <2>1, <2>2, <2>3, <3>1
  <2>4. CASE calls[q].at # "failed"
    <3>1. calls' = [Drop(q) EXCEPT ![p].left = @ - 1]
      BY <2>4 DEF Collect
    <3> QED
      BY <2>1, <2>2, <2>4, <3>1
  <2> QED
    BY <2>3, <2>4
<1>10. /\ calls'[p] \in [hash : Hashes, at : Places, left : Nat] /\ calls'[p].hash = calls[p].hash
       /\ calls[q].at = "failed" => calls'[p].at = "failed"
       /\ calls[q].at # "failed" => calls'[p].at = "collect" /\ calls'[p].left = calls[p].left - 1
  BY <1>1, <1>2, <1>8, <1>9 DEF Places
<1>11. \A r \in DOMAIN calls' : /\ r \in DOMAIN calls /\ calls'[r].hash = calls[r].hash /\ Kids(r)' = Kids(r)
                                /\ calls'[r] \in [hash : Hashes, at : Places, left : Nat]
  <2>1. \A r \in DOMAIN calls' : /\ r \in DOMAIN calls /\ calls'[r].hash = calls[r].hash
                                 /\ calls'[r] \in [hash : Hashes, at : Places, left : Nat]
    BY <1>9, <1>10 DEF IInv, Typed, CallsTyped
  <2> QED
    BY <2>1 DEF Kids
<1>12. CallsTyped' /\ Numbered'
  BY <1>1, <1>11 DEF IInv, Typed, CallsTyped, Numbered
<1>13. Fresh'
  <2>1. \A r \in DOMAIN calls' : calls'[r].at = "lookup" => calls[r].at = "lookup"
    BY <1>9, <1>10
  <2> QED
    BY <1>11, <2>1 DEF IInv, Fresh
<1>14. ASSUME calls[q].at # "failed" PROVE Collecting(p)'
  <2>1. calls[q].hash \in Received
    BY <1>1, <1>14 DEF IInv, Labelled
  <2>2. \A k \in DOMAIN Kids(p) : k # i => Append(p, k) # q
    <3> SUFFICES ASSUME NEW k \in DOMAIN Kids(p), Append(p, k) = q PROVE k = i
      OBVIOUS
    <3>1. k \in Nat
      BY CallsType DEF IInv
    <3> QED
      BY <1>2, <1>4, <3>1, Extend
  <2>3. Kids(p)' = Kids(p)
    BY <1>2, <1>9, <1>11
  <2>4. Pending(p)' = Pending(p) \ {i}
    BY <1>5, <1>9, <2>2, <2>3 DEF Pending
  <2>5. calls'[p].left = Cardinality(Pending(p)')
    BY <1>8, <1>10, <1>14, <2>4
  <2>6. \A k \in DOMAIN Kids(p)' :
           Kids(p)'[k] \in Received' \/ (k \in Pending(p)' /\ calls'[Append(p, k)].hash = Kids(p)'[k])
    <3> SUFFICES ASSUME NEW k \in DOMAIN Kids(p), Kids(p)[k] \notin Received
                 PROVE  k \in Pending(p) \ {i} /\ calls'[Append(p, k)].hash = Kids(p)[k]
      BY <1>1, <2>3, <2>4
    <3>1. k \in Pending(p) /\ calls[Append(p, k)].hash = Kids(p)[k]
      BY <1>6 DEF Collecting
    <3>2. k # i
      BY <1>5, <2>1, <3>1
    <3>3. Append(p, k) \in DOMAIN calls'
      BY <1>9, <2>2, <3>1, <3>2 DEF Pending
    <3> QED
      BY <1>11, <3>1, <3>2, <3>3
  <2>7. \A r \in DOMAIN calls' : Len(r) > 1 /\ Front(r) = p => Last(r) \in Pending(p)'
    <3> SUFFICES ASSUME NEW r \in DOMAIN calls', Len(r) > 1, Front(r) = p PROVE Last(r) \in Pending(p) \ {i}
      BY <2>4
    <3>1. r \in DOMAIN calls /\ r # q /\ r \in Paths
      BY <1>9, <1>11 DEF IInv, Typed, CallsTyped
    <3>2. Last(r) \in Pending(p)
      BY <1>6, <3>1 DEF Collecting
    <3>3. r = Append(p, Last(r))
      BY <3>1, Split
    <3> QED
      BY <1>5, <3>1, <3>2, <3>3
  <2> QED
    BY <2>5, <2>6, <2>7 DEF Collecting
<1>15. ASSUME NEW r \in DOMAIN calls' \ {p}, calls'[r].at = "collect" PROVE Collecting(r)'
  <2>1. Collecting(r) /\ Kids(r)' = Kids(r) /\ r \in DOMAIN calls /\ calls'[r] = calls[r]
    BY <1>9, <1>11, <1>15 DEF IInv, Labelled
  <2>2. \A k \in DOMAIN Kids(r) : Append(r, k) # q
    <3> SUFFICES ASSUME NEW k \in DOMAIN Kids(r), Append(r, k) = q PROVE FALSE
      OBVIOUS
    <3>1. r \in Paths /\ k \in Nat
      BY <2>1, CallsType DEF IInv
    <3>2. Front(Append(r, k)) = r
      BY <3>1, Extend
    <3> QED
      BY <1>1, <3>2
  <2>3. Pending(r)' = Pending(r)
    BY <1>9, <2>1, <2>2 DEF Pending
  <2>4. \A k \in Pending(r) : Append(r, k) \in DOMAIN calls'
    BY <1>9, <2>2 DEF Pending
  <2>5. calls'[r].left = Cardinality(Pending(r)')
    BY <2>1, <2>3 DEF Collecting
  <2>6. \A k \in DOMAIN Kids(r)' :
           Kids(r)'[k] \in Received' \/ (k \in Pending(r)' /\ calls'[Append(r, k)].hash = Kids(r)'[k])
    BY <1>1, <1>11, <2>1, <2>3, <2>4 DEF Collecting
  <2>7. \A d \in DOMAIN calls' : Len(d) > 1 /\ Front(d) = r => Last(d) \in Pending(r)'
    BY <1>11, <2>1, <2>3 DEF Collecting
  <2> QED
    BY <2>5, <2>6, <2>7 DEF Collecting
<1>16. Labelled'
  <2> SUFFICES ASSUME NEW r \in DOMAIN calls'
               PROVE  /\ calls'[r].at = "collect" => Collecting(r)'
                      /\ calls'[r].at = "done" => calls'[r].hash \in Received
    BY <1>1 DEF Labelled
  <2>1. CASE r = p
    BY <1>10, <1>14, <2>1
  <2>2. CASE r # p
    BY <1>9, <1>11, <1>15, <2>2 DEF IInv, Labelled
  <2> QED
    BY <2>1, <2>2
<1>17. AskedLast'
  <2> SUFFICES ASSUME NEW r \in DOMAIN calls', calls'[r].at \in {"ask", "record"}
               PROVE  Range(Kids(r)') \subseteq Received
    BY <1>1 DEF AskedLast
  <2>1. r # p
    BY <1>10
  <2>2. r \in DOMAIN calls /\ calls'[r] = calls[r] /\ Kids(r)' = Kids(r)
    BY <1>9, <1>11, <2>1
  <2> QED
    BY <2>2 DEF IInv, AskedLast
<1> QED
  BY <1>2, <1>3, <1>9, <1>10, <1>12, <1>13, <1>16, <1>17
-----------------------------------------------------------------------------
(* Steps.                                                                  *)

\* At first there are no calls.
LEMMA InitIInv == InstancesOK /\ Init => IInv /\ Calm
<1> SUFFICES ASSUME InstancesOK, Init PROVE IInv /\ Calm
  OBVIOUS
<1>1. DOMAIN calls = {}
  BY DEF Init
<1>2. Pages \subseteq SUBSET Hashes
  BY DEF Pages
<1>3. Typed
  <2>1. CallsTyped
    BY <1>1 DEF CallsTyped
  <2>2. changes \in 0..MaxChanges /\ count \in 0..MaxCalls
    BY DEF Init, InstancesOK
  <2>3. present \in Pages /\ todo \subseteq Hashes
    BY <1>2 DEF Init
  <2> QED
    BY <2>1, <2>2, <2>3 DEF Init, Typed
<1>4. Numbered /\ Fresh /\ Labelled /\ AskedLast
  BY <1>1 DEF Numbered, Fresh, Labelled, AskedLast
<1>5. Calm
  BY <1>1 DEF Init, Calm, CalmIsSafe
<1>6. WriterInv
  BY DEF Init, WriterInv, WrittenLast, Received
<1> QED
  BY <1>3, <1>4, <1>5, <1>6 DEF IInv

\* The loop of main starts a call, with a number no call has had.
LEMMA BeginStep ==
    ASSUME IInv, Calm, NEW h \in todo, Begin(h)
    PROVE  IInv' /\ Calm'
<1>1. CallsTyped' /\ Numbered' /\ Fresh' /\ Labelled' /\ AskedLast'
  BY Begins
<1>2. /\ \A p \in DOMAIN calls' : p \in DOMAIN calls \/ p = <<count + 1>>
      /\ calls'[<<count + 1>>] = Call(h)
      /\ \A p \in DOMAIN calls : p \in DOMAIN calls' /\ calls'[p] = calls[p]
  BY Begins
<1>3. Typed' /\ InstancesOK
  BY <1>1 DEF Begin, page, storage, IInv, Typed, InstancesOK
<1>4. /\ page' = page /\ storage' = storage /\ cancelled' = cancelled
      /\ erred' = erred /\ crashed' = crashed /\ todo' = todo \ {h}
  BY DEF Begin
<1>5. ASSUME ~erred, ~cancelled, NEW q \in DOMAIN calls' PROVE Awaited(q)'
  <2>1. CASE q \in DOMAIN calls
    BY <1>2, <1>5, <2>1 DEF Calm, Awaited
  <2>2. CASE q = <<count + 1>>
    BY <1>2, <2>2 DEF Awaited, Call
  <2> QED
    BY <1>2, <2>1, <2>2
<1>6. ASSUME changes = 0 PROVE todo' \subseteq present /\ \A p \in DOMAIN calls' : calls'[p].hash \in present
  BY <1>2, <1>4, <1>6 DEF Calm, Call
<1>7. Calm'
  BY <1>4, <1>5, <1>6 DEF Calm, CalmIsSafe, page, storage
<1> QED
  BY <1>1, <1>3, <1>4, <1>7, StorageStays DEF IInv, storage

\* The loop of main receives a result.
LEMMA FinishStep ==
    ASSUME IInv, Calm, NEW p \in DOMAIN calls, Finish(p)
    PROVE  IInv' /\ Calm'
<1>1. /\ page' = page /\ storage' = storage /\ cancelled' = cancelled /\ count' = count
      /\ erred' = erred /\ crashed' = crashed /\ todo' \subseteq todo
      /\ Len(p) = 1 /\ calls' = Drop(p) /\ calls[p].at # "collect" /\ Received' = Received
  BY DEF Finish, storage, Received
<1>2. /\ DOMAIN calls' = DOMAIN calls \ {p}
      /\ \A q \in DOMAIN calls' : calls'[q] = calls[q]
      /\ CallsTyped' /\ Numbered' /\ Fresh' /\ Labelled' /\ AskedLast'
  BY <1>1, Finishes
<1>3. Typed' /\ InstancesOK
  BY <1>1, <1>2 DEF page, storage, IInv, Typed, InstancesOK
<1>4. ASSUME ~erred, ~cancelled, NEW q \in DOMAIN calls' PROVE Awaited(q)'
  <2>1. Awaited(q) /\ calls'[q] = calls[q]
    BY <1>2, <1>4 DEF Calm
  <2>2. ASSUME Len(q) > 1 PROVE Front(q) \in DOMAIN calls' /\ calls'[Front(q)].at = "collect"
    BY <1>1, <1>2, <2>1, <2>2 DEF Awaited
  <2> QED
    BY <2>1, <2>2 DEF Awaited
<1>5. Calm'
  BY <1>1, <1>2, <1>4 DEF Calm, CalmIsSafe, page, storage
<1> QED
  BY <1>1, <1>2, <1>3, <1>5, StorageStays DEF IInv, storage

\* A step of one call that goes on, while nothing else changes but what is recorded.
LEMMA GoStep ==
    ASSUME IInv, Calm, NEW p \in DOMAIN calls, NEW pc \in Places \ {"lookup", "collect"}, Go(p, pc),
           page' = page, count' = count, todo' = todo, open' = open, cancelled' = cancelled,
           crashed' = crashed, erred' \in BOOLEAN, erred => erred', pc = "failed" => erred',
           Received \subseteq Received', WriterInv',
           pc \in {"ask", "record"} => Range(Kids(p)) \subseteq Received',
           pc = "done" => calls[p].hash \in Received',
           \A q \in DOMAIN calls : Len(q) > 1 => Front(q) # p \/ calls[p].at # "collect"
    PROVE  IInv' /\ Calm'
<1>1. /\ DOMAIN calls' = DOMAIN calls
      /\ \A q \in DOMAIN calls : calls'[q].hash = calls[q].hash
      /\ \A q \in DOMAIN calls : calls'[q].at = IF q = p THEN pc ELSE calls[q].at
      /\ CallsTyped' /\ Numbered' /\ Fresh' /\ Labelled' /\ AskedLast'
  BY GoesOn
<1>2. Typed' /\ InstancesOK
  BY <1>1 DEF page, IInv, Typed, InstancesOK
<1>3. ASSUME ~erred', ~cancelled, NEW q \in DOMAIN calls' PROVE Awaited(q)'
  <2>1. Awaited(q) /\ ~erred /\ q \in DOMAIN calls
    BY <1>1, <1>3 DEF Calm
  <2>2. ASSUME Len(q) > 1 PROVE Front(q) \in DOMAIN calls' /\ calls'[Front(q)].at = "collect"
    BY <1>1, <2>1, <2>2 DEF Awaited
  <2>3. calls'[q].at # "failed"
    BY <1>1, <1>3, <2>1 DEF Awaited
  <2> QED
    BY <2>2, <2>3 DEF Awaited
<1>4. Calm'
  BY <1>1, <1>3 DEF Calm, CalmIsSafe, page
<1> QED
  BY <1>1, <1>2, <1>4 DEF IInv

\* A step that leaves the calls and what is recorded as they are.
LEMMA RestStep ==
    ASSUME IInv, Calm, calls' = calls, todo' = todo, count' = count, Received \subseteq Received',
           present' \in Pages, changes' \in 0..MaxChanges, present' = present \/ changes' # 0,
           changes' = 0 => changes = 0, WriterInv',
           open' \in BOOLEAN, cancelled' \in BOOLEAN, erred' \in BOOLEAN, crashed' \in BOOLEAN,
           erred => erred', cancelled => cancelled', ~open' => cancelled', CalmIsSafe'
    PROVE  IInv' /\ Calm'
<1>1. CallsTyped' /\ Numbered' /\ Fresh' /\ Labelled' /\ AskedLast'
  BY Rests
<1>2. Typed' /\ InstancesOK
  BY <1>1 DEF IInv, Typed, InstancesOK
<1>3. Calm'
  BY DEF Calm, Awaited
<1> QED
  BY <1>1, <1>2, <1>3 DEF IInv

\* Label finds a label, has nothing to ask for, or starts its children.
LEMMA LookupStep ==
    ASSUME IInv, Calm, NEW p \in DOMAIN calls, Lookup(p)
    PROVE  IInv' /\ Calm'
<1>1. /\ page' = page /\ storage' = storage /\ cancelled' = cancelled /\ count' = count
      /\ erred' = erred /\ todo' = todo /\ calls[p].at = "lookup" /\ ~cancelled
  BY DEF Lookup
<1>2. /\ Received' = Received /\ open' = open /\ WriterInv'
      /\ present' = present /\ changes' = changes
  BY <1>1, StorageStays DEF page, storage, IInv
<1>3. CASE calls[p].hash \in db /\ Go(p, "done") /\ crashed' = crashed
  BY <1>1, <1>2, <1>3, GoStep DEF IInv, Typed, Places, Received
<1>4. CASE calls[p].hash \notin db \cup present /\ crashed' = TRUE /\ calls' = calls
  <2>1. changes # 0
    BY <1>4 DEF Calm
  <2>2. CalmIsSafe'
    BY <1>2, <2>1 DEF IInv, Typed, CalmIsSafe
  <2> QED
    BY <1>1, <1>2, <1>4, <2>1, <2>2, RestStep DEF IInv, Typed, Calm
<1>5. CASE calls[p].hash \in present \ db /\ Spread(p) /\ crashed' = crashed
  <2>1. /\ DOMAIN calls' = DOMAIN calls \cup Below(p)
        /\ calls'[p].at = "collect" /\ calls'[p].hash = calls[p].hash
        /\ \A q \in DOMAIN calls \ {p} : calls'[q] = calls[q]
        /\ \A q \in Below(p) : /\ q \in Paths /\ Front(q) = p /\ calls'[q].at = "lookup"
                               /\ calls'[q].hash \in Range(Kids(p))
        /\ CallsTyped' /\ Numbered' /\ Fresh' /\ Labelled' /\ AskedLast'
    BY <1>1, <1>2, <1>5, LooksUp
  <2>2. Typed' /\ InstancesOK
    BY <1>1, <1>2, <1>5, <2>1 DEF IInv, Typed, InstancesOK
  <2>3. ASSUME ~erred, ~cancelled, NEW q \in DOMAIN calls' PROVE Awaited(q)'
    <3>1. CASE q \in DOMAIN calls
      <4>1. Awaited(q)
        BY <2>3, <3>1 DEF Calm
      <4>2. calls'[q].at # "failed"
        BY <2>1, <3>1, <4>1 DEF Awaited
      <4>3. ASSUME Len(q) > 1 PROVE Front(q) \in DOMAIN calls' /\ calls'[Front(q)].at = "collect"
        BY <2>1, <4>1, <4>3 DEF Awaited
      <4> QED
        BY <4>2, <4>3 DEF Awaited
    <3>2. CASE q \in Below(p)
      BY <2>1, <3>2 DEF Awaited
    <3> QED
      BY <2>1, <3>1, <3>2
  <2>4. ASSUME changes = 0 PROVE todo \subseteq present /\ \A q \in DOMAIN calls' : calls'[q].hash \in present
    <3>1. todo \subseteq present /\ \A q \in DOMAIN calls : calls[q].hash \in present
      BY <2>4 DEF Calm
    <3>2. Range(Kids(p)) \subseteq present
      <4>1. calls[p].hash \in Hashes /\ present \in Pages
        BY DEF IInv, Typed, CallsTyped
      <4> QED
        BY <1>5, <4>1, KidsType DEF IInv, Pages, Kids
    <3> QED
      BY <2>1, <3>1, <3>2
  <2>5. Calm'
    BY <1>1, <1>2, <1>5, <2>3, <2>4 DEF Calm, CalmIsSafe
  <2> QED
    BY <1>2, <2>1, <2>2, <2>5 DEF IInv
<1> QED
  BY <1>3, <1>4, <1>5 DEF Lookup, Spread

\* A call fails; its parent has not taken its result.
LEMMA FailStep ==
    ASSUME IInv, Calm, NEW p \in DOMAIN calls, Fail(p)
    PROVE  IInv' /\ Calm'
<1>1. /\ page' = page /\ storage' = storage /\ cancelled' = cancelled /\ count' = count
      /\ erred' = TRUE /\ todo' = todo /\ crashed' = crashed /\ calls[p].at # "collect" /\ Go(p, "failed")
  BY DEF Fail
<1>2. Received' = Received /\ open' = open /\ WriterInv'
  BY <1>1, StorageStays DEF storage, IInv
<1> QED
  BY <1>1, <1>2, GoStep DEF IInv, Typed, Places

\* When all results are in, every child has its label, and no call waits below.
LEMMA AllCollectedStep ==
    ASSUME IInv, Calm, NEW p \in DOMAIN calls, AllCollected(p)
    PROVE  IInv' /\ Calm'
<1>1. /\ page' = page /\ storage' = storage /\ cancelled' = cancelled /\ count' = count
      /\ erred' = erred /\ todo' = todo /\ crashed' = crashed /\ Go(p, "ask")
      /\ calls[p].at = "collect" /\ calls[p].left = 0
  BY DEF AllCollected
<1>2. Received' = Received /\ open' = open /\ WriterInv'
  BY <1>1, StorageStays DEF storage, IInv
<1>3. Collecting(p)
  BY <1>1 DEF IInv, Labelled
<1>4. Pending(p) = {}
  <2>1. IsFiniteSet(Pending(p))
    BY CallsType DEF IInv
  <2> QED
    BY <1>1, <1>3, <2>1, FS_EmptySet DEF Collecting
<1>5. Range(Kids(p)) \subseteq Received
  BY <1>3, <1>4 DEF Collecting, Range
<1>6. \A q \in DOMAIN calls : Len(q) > 1 => Front(q) # p
  BY <1>3, <1>4 DEF Collecting
<1> QED
  BY <1>1, <1>2, <1>5, <1>6, GoStep DEF IInv, Typed, Places

\* A result nobody awaits: the program panics, which it may once something has failed.
LEMMA SendOnClosedStep ==
    ASSUME IInv, Calm, NEW p \in DOMAIN calls, SendOnClosed(p)
    PROVE  IInv' /\ Calm'
<1>1. /\ page' = page /\ storage' = storage /\ cancelled' = cancelled /\ count' = count
      /\ erred' = erred /\ todo' = todo /\ crashed' = TRUE /\ calls' = calls /\ ~Awaited(p)
  BY DEF SendOnClosed, Awaited
<1>2. /\ Received' = Received /\ open' = open /\ WriterInv'
      /\ present' = present /\ changes' = changes
  BY <1>1, StorageStays DEF storage, page, IInv
<1>3. CalmIsSafe'
  BY <1>1 DEF Calm, CalmIsSafe
<1> QED
  BY <1>1, <1>2, <1>3, RestStep DEF IInv, Typed, Calm

\* The model is asked when no result is awaited, so every child has a label.
LEMMA AskStep ==
    ASSUME IInv, Calm, NEW p \in DOMAIN calls, Ask(p)
    PROVE  IInv' /\ Calm'
<1>1. /\ page' = page /\ storage' = storage /\ cancelled' = cancelled /\ count' = count
      /\ erred' = erred /\ todo' = todo /\ crashed' = crashed /\ Go(p, "record") /\ calls[p].at = "ask"
  BY DEF Ask
<1>2. Received' = Received /\ open' = open /\ WriterInv'
  BY <1>1, StorageStays DEF storage, IInv
<1>3. Range(Kids(p)) \subseteq Received
  BY <1>1 DEF IInv, AskedLast
<1> QED
  BY <1>1, <1>2, <1>3, GoStep DEF IInv, Typed, Places

\* The label goes to the writer.
LEMMA RecordStep ==
    ASSUME IInv, Calm, NEW p \in DOMAIN calls, Record(p)
    PROVE  IInv' /\ Calm'
<1>1. /\ page' = page /\ cancelled' = cancelled /\ count' = count /\ todo' = todo
      /\ db' = db /\ open' = open /\ calls[p].at = "record" /\ present' = present /\ changes' = changes
  BY DEF Record, page
<1>2. calls[p].hash \in Hashes /\ lost' = lost /\ Received \subseteq Hashes
  BY DEF Record, IInv, Typed, CallsTyped, WriterInv
<1>3. CASE /\ writer = {} /\ writer' = {calls[p].hash}
           /\ Go(p, "done") /\ erred' = erred /\ crashed' = crashed
  <2>1. Received' = Received \cup {calls[p].hash}
    BY <1>1, <1>2, <1>3 DEF Received
  <2>2. Kids(p) = anyNonCyclicStructure(calls[p].hash) /\ Range(Kids(p)) \subseteq db \cup lost
    BY <1>1, <1>3 DEF IInv, AskedLast, Received, Kids
  <2>3. WriterInv'
    BY <1>1, <1>2, <1>3, <2>1, <2>2 DEF IInv, WriterInv, WrittenLast
  <2> QED
    BY <1>1, <1>3, <2>1, <2>3, GoStep DEF IInv, Typed, Places
<1>4. CASE /\ cancelled /\ Go(p, "failed") /\ erred' = TRUE
           /\ writer' = writer /\ crashed' = crashed
  <2>1. WriterInv' /\ Received' = Received
    BY <1>1, <1>2, <1>4, StorageStays DEF IInv
  <2> QED
    BY <1>1, <1>2, <1>4, <2>1, GoStep DEF IInv, Typed, Places
<1>5. CASE /\ ~open /\ crashed' = TRUE
           /\ calls' = calls /\ writer' = writer /\ erred' = erred
  <2>1. CalmIsSafe'
    BY <1>1, <1>5 DEF Calm, CalmIsSafe
  <2>2. WriterInv' /\ Received' = Received
    BY <1>1, <1>2, <1>5, StorageStays DEF IInv
  <2> QED
    BY <1>1, <1>5, <2>1, <2>2, RestStep DEF IInv, Typed, Calm
<1> QED
  BY <1>3, <1>4, <1>5 DEF Record

\* childLabels receives the result of one child, and counts it off.
LEMMA CollectStep ==
    ASSUME IInv, Calm, NEW p \in DOMAIN calls, NEW q \in DOMAIN calls, Collect(p, q)
    PROVE  IInv' /\ Calm'
<1>1. /\ page' = page /\ storage' = storage /\ cancelled' = cancelled /\ count' = count
      /\ erred' = erred /\ todo' = todo /\ crashed' = crashed
      /\ Front(q) = p /\ calls[q].at \in {"done", "failed"} /\ calls[p].at = "collect"
  BY DEF Collect
<1>2. /\ q # p /\ Len(q) > 1 /\ DOMAIN calls' = DOMAIN calls \ {q}
      /\ \A r \in DOMAIN calls' \ {p} : calls'[r] = calls[r]
      /\ calls[q].at # "failed" => calls'[p].at = "collect"
      /\ calls'[p].hash = calls[p].hash
      /\ CallsTyped' /\ Numbered' /\ Fresh' /\ Labelled' /\ AskedLast'
  BY Collects
<1>3. Typed' /\ InstancesOK
  BY <1>1, <1>2 DEF page, storage, IInv, Typed, InstancesOK
<1>4. ASSUME ~erred, ~cancelled, NEW r \in DOMAIN calls' PROVE Awaited(r)'
  <2>1. Awaited(r) /\ Awaited(q)
    BY <1>2, <1>4 DEF Calm
  <2>2. calls'[p].at = "collect"
    BY <1>2, <2>1 DEF Awaited
  <2>3. calls'[r].at # "failed"
    BY <1>2, <2>1, <2>2 DEF Awaited
  <2>4. ASSUME Len(r) > 1 PROVE Front(r) \in DOMAIN calls' /\ calls'[Front(r)].at = "collect"
    <3>1. Front(r) \in DOMAIN calls /\ calls[Front(r)].at = "collect"
      BY <2>1, <2>4 DEF Awaited
    <3>2. Front(r) # q
      BY <1>1, <3>1
    <3> QED
      BY <1>2, <2>2, <3>1, <3>2
  <2> QED
    BY <2>3, <2>4 DEF Awaited
<1>5. ASSUME changes = 0 PROVE todo' \subseteq present /\ \A r \in DOMAIN calls' : calls'[r].hash \in present
  BY <1>1, <1>2, <1>5 DEF Calm
<1>6. Calm'
  BY <1>1, <1>4, <1>5 DEF Calm, CalmIsSafe, page, storage
<1> QED
  BY <1>1, <1>2, <1>3, <1>6, StorageStays DEF IInv, storage

\* What the writer, the page and the user do to no call.
LEMMA WriterSteps ==
    ASSUME IInv, Calm, Write \/ WriterExit \/ PageChange \/ Interrupt \/ UNCHANGED vars
    PROVE  IInv' /\ Calm'
<1>1. CASE Write
  <2>1. CalmIsSafe'
    BY <1>1 DEF Write, page, Calm, CalmIsSafe
  <2> QED
    <3>1. /\ calls' = calls /\ todo' = todo /\ count' = count /\ writer' = {}
          /\ present' = present /\ changes' = changes /\ open' = open /\ cancelled' = cancelled
          /\ crashed' = crashed
      BY <1>1 DEF Write, page
    <3>2. /\ Received' = Received /\ lost' \cap db' = {}
          /\ erred' \in BOOLEAN /\ (erred => erred')
      <4>1. lost \cap db = {} /\ erred \in BOOLEAN
        BY DEF IInv, Typed, WriterInv
      <4>2. CASE db' = db \cup writer /\ lost' = lost \ writer /\ erred' = erred
        BY <3>1, <4>1, <4>2 DEF Received
      <4>3. CASE lost' = lost \cup (writer \ db) /\ erred' = TRUE /\ db' = db
        BY <3>1, <4>1, <4>3 DEF Received
      <4> QED
        BY <1>1, <4>2, <4>3 DEF Write
    <3>3. WriterInv'
      BY <3>1, <3>2 DEF IInv, WriterInv, WrittenLast
    <3> QED
      BY <2>1, <3>1, <3>2, <3>3, RestStep DEF IInv, Typed, Calm
<1>2. CASE WriterExit
  <2>1. CalmIsSafe'
    BY <1>2 DEF WriterExit, page, Calm, CalmIsSafe
  <2> QED
    BY <1>2, <2>1, StorageStays, RestStep DEF WriterExit, page, IInv, Typed, Calm
<1>3. CASE PageChange
  <2>1. changes' \in 0..MaxChanges /\ changes' # 0
    BY <1>3 DEF PageChange, IInv, Typed, InstancesOK
  <2>2. CalmIsSafe'
    BY <1>3, <2>1 DEF PageChange, CalmIsSafe
  <2> QED
    BY <1>3, <2>1, <2>2, StorageStays, RestStep DEF PageChange, storage, IInv, Typed, Calm
<1>4. CASE Interrupt
  <2>1. CalmIsSafe'
    BY <1>4 DEF Interrupt, CalmIsSafe
  <2> QED
    BY <1>4, <2>1, StorageStays, RestStep DEF Interrupt, page, storage, IInv, Typed, Calm
<1>5. CASE UNCHANGED vars
  <2>1. CalmIsSafe'
    BY <1>5 DEF vars, page, Calm, CalmIsSafe
  <2> QED
    BY <1>5, <2>1, StorageStays, RestStep DEF vars, page, storage, IInv, Typed, Calm
<1> QED
  BY <1>1, <1>2, <1>3, <1>4, <1>5

\* Every step keeps both invariants.
LEMMA NextIInv == IInv /\ Calm /\ [Next]_vars => IInv' /\ Calm'
<1> SUFFICES ASSUME IInv, Calm, [Next]_vars PROVE IInv' /\ Calm'
  OBVIOUS
<1>1. CASE \E h \in todo : Begin(h)
  BY <1>1, BeginStep
<1>2. CASE \E p \in DOMAIN calls : Finish(p) \/ Lookup(p) \/ Fail(p)
  BY <1>2, FinishStep, LookupStep, FailStep
<1>3. CASE \E p \in DOMAIN calls : AllCollected(p) \/ SendOnClosed(p) \/ Ask(p) \/ Record(p)
  BY <1>3, AllCollectedStep, SendOnClosedStep, AskStep, RecordStep
<1>4. CASE \E p, q \in DOMAIN calls : Collect(p, q)
  BY <1>4, CollectStep
<1>5. CASE Write \/ WriterExit \/ PageChange \/ Interrupt \/ UNCHANGED vars
  BY <1>5, WriterSteps
<1> QED
  BY <1>1, <1>2, <1>3, <1>4, <1>5 DEF Next, Step
-----------------------------------------------------------------------------
(* What the model promises (labeler.go:69-190, db.go:60-140), for any      *)
(* structures and any number of calls and changes of the page.             *)

\* The types the run checks follow.
LEMMA TypedIsTyped == IInv => TypeOK
<1> SUFFICES ASSUME IInv PROVE TypeOK
  OBVIOUS
<1>1. present \subseteq Hashes
  BY DEF IInv, Typed, Pages
<1>2. writer \subseteq Hashes /\ Cardinality(writer) <= 1
  <2>1. CASE writer = {}
    BY <2>1, FS_EmptySet
  <2>2. CASE \E h \in Hashes : writer = {h}
    <3>1. PICK h \in Hashes : writer = {h}
      BY <2>2
    <3>2. Cardinality({h}) = 1
      BY FS_Singleton
    <3> QED
      BY <3>1, <3>2
  <2> QED
    BY <2>1, <2>2 DEF IInv, WriterInv
<1>3. db \subseteq Hashes /\ lost \subseteq Hashes \ db
  BY DEF IInv, WriterInv, Received
<1> QED
  BY <1>1, <1>2, <1>3 DEF IInv, Typed, CallsTyped, Places, TypeOK

\* Both invariants hold throughout.
LEMMA Invariant == ASSUME InstancesOK PROVE Spec => [](IInv /\ Calm)
<1>1. Init => IInv /\ Calm
  BY InitIInv
<1> QED
  BY <1>1, NextIInv, PTL DEF Spec

\* Every variable of the labelling program keeps its type: a call stands at one of
\* the places of Label, and the writer holds one label at most.
THEOREM LabelerType == ASSUME InstancesOK PROVE Spec => []TypeOK
BY Invariant, TypedIsTyped, PTL

\* Children come first: the model is asked about a structure, and its label is
\* written, only when the label of each child is in the database or its write has
\* failed (or, while the model is asked, is going on).
THEOREM LabelsBottomUp == ASSUME InstancesOK PROVE Spec => []BottomUp
<1>1. IInv => BottomUp
  BY DEF IInv, WriterInv, BottomUp
<1> QED
  BY <1>1, Invariant, PTL

\* Nothing panics while nothing fails, changes or is interrupted.
THEOREM LabelerCalm == ASSUME InstancesOK PROVE Spec => []CalmIsSafe
<1>1. Calm => CalmIsSafe
  BY DEF Calm
<1> QED
  BY <1>1, Invariant, PTL
=============================================================================
