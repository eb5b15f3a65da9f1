--------------------------- MODULE ListenerProofs ---------------------------
(***************************************************************************)
(* Proofs about Listener, for any ids and metadata, any page, any number   *)
(* of changes and loads and any size of the channel: whatever is under way *)
(* works for the current page, and the assertions of the event worker      *)
(* hold; nothing of the page is left out; and, for a page that loads as a  *)
(* tree and any changes of it other than moves, the stream to the consumer *)
(* tells all that the listener knows.                                      *)
(***************************************************************************)
EXTENDS Listener, SequenceTheorems, FiniteSetTheorems, TLAPS

USE ConstantsOK DEF ConstantsOK

Messages == [type : {"load"}, root : Snapshots] \cup [type : {"update"}, nodes : SUBSET Snapshots]
Jobs     == [call : Node \X Node, pid : Nat, id : Node,
             todo : SUBSET Snapshots, targets : SUBSET Node]

\* The types the proof needs; that the stream is within its capacity is in it.
PageTyped ==
    /\ kids \in [Node -> Seq(Node)] /\ meta \in [Node -> Meta]
    /\ retired \subseteq Node /\ moved \in BOOLEAN /\ failed \subseteq Node
    /\ subs \subseteq Node /\ dirty \subseteq subs
    /\ wire \in Seq(Messages)

NumbersTyped ==
    /\ loads \in 0..MaxLoads /\ missed \in Nat /\ pageID \in Nat /\ evPage \in 0..pageID
    /\ pageID + missed <= loads

WorkerTyped ==
    /\ nodes \in [Node -> Snapshots \cup {Absent}]
    /\ \A n \in Node : nodes[n] # Absent => nodes[n].id = n
    /\ lpc \in {"start", "idle", "load", "reconcile", "look", "overwrite", "panicked", "stopped",
               "overflow"}
    /\ left \subseteq Snapshots /\ updated \subseteq Node
    /\ lpc \in {"look", "overwrite"} => cur \in Snapshots
    /\ lpc = "look" => look \in Seq(Node)
    /\ spawned \subseteq [by : Node, root : Snapshots]
    /\ jobs \subseteq Jobs

OutTyped == Len(out) <= OutCap /\ \E S : out \in Seq(S)

Typed == PageTyped /\ NumbersTyped /\ WorkerTyped /\ OutTyped

\* Loads that are on their way to the event worker are behind all updates, and
\* as many as pages that the listener has not heard of; while there are any it
\* has subscribed to nothing.
Unheard   == loads - missed - pageID
LoadsLast == \A i \in 1..Len(wire) : wire[i].type = "load" <=> i > Len(wire) - Unheard
InOrder ==
    /\ LoadsLast
    /\ Unheard > 0 => subs = {}
    /\ lpc = "start" => jobs = {} /\ spawned = {}

\* Whatever Chrome may report a change of is stored: nodes subscribed to, nodes in
\* updates on their way or in progress, and nodes about to be asked for.
Stored(n) == nodes[n] # Absent
AllStored ==
    /\ \A n \in subs : Stored(n)
    /\ \A i \in 1..Len(wire) : wire[i].type = "update" => \A s \in wire[i].nodes : Stored(s.id)
    /\ lpc \in {"reconcile", "look", "overwrite"} => \A s \in left : Stored(s.id)
    /\ lpc \in {"look", "overwrite"} => Stored(cur.id)
    /\ \A j \in jobs : Stored(j.id) /\ \A t \in j.targets : Stored(t)

IInv == Typed /\ InOrder /\ AllStored /\ NeverStale /\ NoPanic
-----------------------------------------------------------------------------
\* Before anything has happened the invariant holds.
LEMMA InitIInv == Init => IInv
<1> SUFFICES ASSUME Init PROVE IInv
  OBVIOUS
<1> USE DEF Init
<1>1. PageTyped
  <2>1. wire \in Seq(Messages)
    <3> HIDE DEF Messages
    <3> QED
      OBVIOUS
  <2>2. kids \in [Node -> Seq(Node)] /\ meta \in [Node -> Meta]
    OBVIOUS
  <2> QED
    BY <2>1, <2>2 DEF PageTyped
<1>2. NumbersTyped
  BY DEF NumbersTyped
<1>3. WorkerTyped
  BY DEF WorkerTyped, Empty
<1>4. OutTyped
  <2>1. out \in Seq({})
    OBVIOUS
  <2> QED
    BY <2>1 DEF OutTyped
<1>5. InOrder
  BY DEF InOrder, LoadsLast, Unheard
<1>6. AllStored
  BY DEF AllStored
<1> QED
  BY <1>1, <1>2, <1>3, <1>4, <1>5, <1>6 DEF IInv, Typed, NeverStale, NoPanic, Stale

\* Inserting and removing keep a sequence of the elements' type.
LEMMA InsertAtType ==
    ASSUME NEW S, NEW s \in Seq(S), NEW i \in 0..Len(s), NEW e \in S
    PROVE  InsertAt(s, i + 1, e) \in Seq(S)
<1>1. Len(s) \in Nat /\ \A k \in 1..Len(s) : s[k] \in S
  BY ElementOfSeq, LenProperties
<1>2. SubSeq(s, 1, i) \in Seq(S) /\ SubSeq(s, i + 1, Len(s)) \in Seq(S)
  BY <1>1, SubSeqProperties
<1>3. i + 1 - 1 = i /\ <<e>> \in Seq(S)
  BY <1>1
<1> QED
  BY <1>2, <1>3, ConcatProperties DEF InsertAt

\* A removal leaves a sequence over the same set.
LEMMA RemoveAtType ==
    ASSUME NEW S, NEW s \in Seq(S), NEW i \in DOMAIN s
    PROVE  RemoveAt(s, i) \in Seq(S)
<1>1. Len(s) \in Nat /\ i \in 1..Len(s) /\ \A k \in 1..Len(s) : s[k] \in S
  BY ElementOfSeq, LenProperties
<1>2. SubSeq(s, 1, i - 1) \in Seq(S) /\ SubSeq(s, i + 1, Len(s)) \in Seq(S)
  BY <1>1, SubSeqProperties
<1> QED
  BY <1>2, ConcatProperties DEF RemoveAt

\* A node's snapshot is a snapshot.
LEMMA SnapType ==
    ASSUME PageTyped, NEW n \in Node
    PROVE  Snap(n) \in Snapshots /\ Snap(n).id = n
  BY DEF PageTyped, Snap, Snapshots

\* The nodes an update on its way names are nodes.
LEMMA UpdateTypes ==
    ASSUME PageTyped
    PROVE  \A i \in 1..Len(wire) : wire[i].type = "update" => \A s \in wire[i].nodes : s.id \in Node
<1> SUFFICES ASSUME NEW i \in 1..Len(wire) PROVE wire[i] \in Messages
  BY DEF Messages, Snapshots
<1> QED
  BY ElementOfSeq DEF PageTyped

\* Appending to the wire keeps what is there.
LEMMA WireAppend ==
    ASSUME wire \in Seq(Messages), NEW m \in Messages, wire' = Append(wire, m)
    PROVE  /\ wire' \in Seq(Messages) /\ Len(wire') = Len(wire) + 1
           /\ wire'[Len(wire) + 1] = m
           /\ \A i \in 1..Len(wire) : wire'[i] = wire[i]
  BY AppendProperties

\* Receiving the first message leaves the others in their order.
LEMMA WireTail ==
    ASSUME wire \in Seq(Messages), wire # <<>>, wire' = Tail(wire)
    PROVE  /\ wire' \in Seq(Messages) /\ Len(wire') = Len(wire) - 1 /\ Len(wire) > 0
           /\ Head(wire) = wire[1] /\ Head(wire) \in Messages
           /\ \A i \in 1..Len(wire') : wire'[i] = wire[i + 1]
  BY HeadTailProperties, ElementOfSeq

\* A load may always be appended, an update when there are no loads.
LEMMA WireInOrder ==
    ASSUME wire \in Seq(Messages), NEW m \in Messages, wire' = Append(wire, m),
           LoadsLast, Unheard \in Nat,
           \/ m.type = "load" /\ Unheard' = Unheard + 1
           \/ m.type # "load" /\ Unheard = 0 /\ Unheard' = 0
    PROVE  LoadsLast'
<1>1. /\ Len(wire) \in Nat /\ Len(wire') = Len(wire) + 1
      /\ wire'[Len(wire) + 1] = m
      /\ \A i \in 1..Len(wire) : wire'[i] = wire[i]
  BY WireAppend, LenProperties
<1> SUFFICES ASSUME NEW i \in 1..Len(wire')
             PROVE  wire'[i].type = "load" <=> i > Len(wire') - Unheard'
  BY DEF LoadsLast
<1>2. CASE i = Len(wire) + 1
  BY <1>1, <1>2
<1>3. CASE i \in 1..Len(wire)
  BY <1>1, <1>3 DEF LoadsLast
<1> QED
  BY <1>1, <1>2, <1>3
-----------------------------------------------------------------------------
\* A load is the last message on its way, and what Chrome subscribed is gone.
LEMMA LoadIInv == ASSUME IInv, Load PROVE IInv'
<1> USE DEF IInv, Typed, Load, listener
<1> DEFINE msg == [type |-> "load", root |-> [id |-> Top, kids |-> FirstKids[Top], meta |-> FirstMeta]]
<1>1. PageTyped' /\ msg \in Messages
  <2>1. msg \in Messages
    BY DEF Messages, Snapshots
  <2> QED
    BY <2>1, WireAppend DEF PageTyped
<1>2. NumbersTyped'
  BY DEF NumbersTyped
<1>3. WorkerTyped' /\ OutTyped'
  BY DEF WorkerTyped, OutTyped, recVars
<1>4. InOrder'
  <2>1. CASE lpc = "start"
    <3>1. Unheard' = Unheard
      BY <2>1 DEF Unheard, NumbersTyped
    <3> QED
      BY <2>1, <3>1 DEF InOrder, LoadsLast
  <2>2. CASE lpc # "start"
    <3>1. Unheard' = Unheard + 1 /\ Unheard \in Nat
      BY <2>2 DEF Unheard, NumbersTyped
    <3>2. wire' = Append(wire, msg) /\ wire \in Seq(Messages) /\ msg.type = "load"
      BY <2>2 DEF PageTyped
    <3>3. LoadsLast'
      BY <1>1, <3>1, <3>2, WireInOrder DEF InOrder, LoadsLast
    <3> QED
      BY <2>2, <3>3 DEF InOrder, LoadsLast
  <2> QED
    BY <2>1, <2>2
<1>5. AllStored'
  <2>1. CASE lpc = "start"
    BY <2>1 DEF AllStored, Stored, recVars
  <2>2. CASE lpc # "start"
    <3>1. wire' = Append(wire, msg) /\ wire \in Seq(Messages) /\ msg \in Messages
      BY <1>1, <2>2 DEF PageTyped
    <3>2. UNCHANGED <<nodes, lpc, left, cur, jobs>> /\ subs' = {}
      BY DEF recVars
    <3>3. \A i \in 1..Len(wire') : wire'[i].type = "update" =>
             \E k \in 1..Len(wire) : wire'[i] = wire[k]
      BY <3>1, WireAppend
    <3> HIDE DEF Load, msg
    <3> QED
      BY <3>2, <3>3 DEF AllStored, Stored
  <2> QED
    BY <2>1, <2>2
<1> QED
  BY <1>1, <1>2, <1>3, <1>4, <1>5 DEF NeverStale, NoPanic, Stale

\* The page changes; nothing is reported yet.
LEMMA ChangeIInv == ASSUME IInv, Change PROVE IInv'
<1> USE DEF IInv, Typed, Change, listener
<1>1. /\ kids' \in [Node -> Seq(Node)] /\ meta' \in [Node -> Meta]
      /\ retired' \subseteq Node /\ moved' \in BOOLEAN /\ dirty' \subseteq subs
  <2> USE DEF PageTyped, Changed
  <2> Attached \subseteq Node
    BY DEF Attached, Below
  <2>1. CASE InsertNode
    <3>0. PICK n \in Node, p \in Node : \E i \in 0..Len(kids[p]) :
            /\ kids' = [kids EXCEPT ![p] = InsertAt(@, i + 1, n), ![n] = <<>>]
            /\ Changed({p}) /\ UNCHANGED <<meta, retired, moved>>
      BY <2>1 DEF InsertNode
    <3>1. PICK i \in 0..Len(kids[p]) :
            /\ kids' = [kids EXCEPT ![p] = InsertAt(@, i + 1, n), ![n] = <<>>]
            /\ Changed({p}) /\ UNCHANGED <<meta, retired, moved>>
      BY <3>0
    <3>2. InsertAt(kids[p], i + 1, n) \in Seq(Node)
      BY InsertAtType
    <3> DEFINE longer == [kids EXCEPT ![p] = InsertAt(@, i + 1, n)]
    <3>3. longer \in [Node -> Seq(Node)]
      BY <3>2
    <3>4. kids' = [longer EXCEPT ![n] = <<>>]
      BY <3>1
    <3> HIDE DEF longer
    <3>5. kids' \in [Node -> Seq(Node)]
      <4>1. <<>> \in Seq(Node)
        OBVIOUS
      <4> QED
        BY <3>3, <3>4, <4>1
    <3> QED
      BY <3>1, <3>5
  <2>3. CASE RemoveNode
    <3>1. PICK n \in Attached : \E i \in DOMAIN kids[Parent(n)] :
            LET gone == Below(Page, n)
            IN  /\ kids' = [m \in Node |-> IF m \in gone THEN <<>>
                                           ELSE IF m = Parent(n) THEN RemoveAt(kids[Parent(n)], i)
                                           ELSE kids[m]]
                /\ retired' = retired \cup gone
                /\ dirty' = (dirty \cup ({Parent(n)} \cap subs)) \ gone
                /\ UNCHANGED <<meta, moved>>
      BY <2>3 DEF RemoveNode
    <3> DEFINE gone == Below(Page, n)
    <3>2. PICK i \in DOMAIN kids[Parent(n)] :
            kids' = [m \in Node |-> IF m \in gone THEN <<>>
                                    ELSE IF m = Parent(n) THEN RemoveAt(kids[Parent(n)], i)
                                    ELSE kids[m]]
      BY <3>1
    <3>3. gone \subseteq Node
      BY DEF Below
    <3>4. kids' \in [Node -> Seq(Node)]
      <4> SUFFICES ASSUME NEW m \in Node, m = Parent(n)
                   PROVE  RemoveAt(kids[Parent(n)], i) \in Seq(Node)
        BY <3>2
      <4> QED
        BY <3>2, RemoveAtType
    <3> HIDE DEF gone
    <3> QED
      BY <3>1, <3>3, <3>4 DEF gone
  <2>4. CASE MoveNode
    <3>0. PICK n \in Attached, q \in Node : \E i \in DOMAIN kids[Parent(n)] :
            /\ kids' = [[kids EXCEPT ![Parent(n)] = RemoveAt(@, i)] EXCEPT ![q] = Append(@, n)]
            /\ Changed({q, Parent(n)}) /\ moved' = TRUE /\ UNCHANGED <<meta, retired>>
      BY <2>4 DEF MoveNode
    <3>1. PICK i \in DOMAIN kids[Parent(n)] :
            /\ kids' = [[kids EXCEPT ![Parent(n)] = RemoveAt(@, i)] EXCEPT ![q] = Append(@, n)]
            /\ Changed({q, Parent(n)}) /\ moved' = TRUE /\ UNCHANGED <<meta, retired>>
      BY <3>0
    <3> DEFINE rest == [kids EXCEPT ![Parent(n)] = RemoveAt(@, i)]
    <3>2. rest \in [Node -> Seq(Node)]
      <4>1. CASE Parent(n) \in Node
        <5>1. RemoveAt(kids[Parent(n)], i) \in Seq(Node)
          BY <3>1, <4>1, RemoveAtType
        <5> QED
          BY <5>1
      <4>2. CASE Parent(n) \notin Node
        <5>1. rest = kids
          BY <4>2
        <5> QED
          BY <5>1
      <4> QED
        BY <4>1, <4>2
    <3> HIDE DEF rest
    <3>3. kids' = [rest EXCEPT ![q] = Append(@, n)]
      BY <3>1 DEF rest
    <3>4. Append(rest[q], n) \in Seq(Node)
      BY <3>2, AppendProperties
    <3>5. kids' \in [Node -> Seq(Node)]
      BY <3>2, <3>3, <3>4
    <3> QED
      BY <3>1, <3>5
  <2>5. CASE RelabelNode
    BY <2>5 DEF RelabelNode
  <2> QED
    BY <2>1, <2>3, <2>4, <2>5
<1>2. PageTyped'
  BY <1>1 DEF PageTyped
<1>3. NumbersTyped' /\ WorkerTyped' /\ OutTyped'
  BY DEF NumbersTyped, WorkerTyped, OutTyped, recVars
<1>4. InOrder' /\ AllStored'
  BY DEF InOrder, LoadsLast, Unheard, AllStored, Stored, recVars
<1> QED
  BY <1>2, <1>3, <1>4 DEF NeverStale, NoPanic, Stale

\* A report names stored nodes: those subscribed to.
LEMMA ReportIInv == ASSUME IInv, Report PROVE IInv'
<1> USE DEF IInv, Typed, Report, page, listener
<1> DEFINE msg == [type |-> "update", nodes |-> {Snap(n) : n \in dirty}]
<1>1. msg \in Messages /\ \A s \in msg.nodes : s.id \in subs
  BY SnapType DEF Messages, PageTyped
<1>2. wire' = Append(wire, msg) /\ wire \in Seq(Messages)
  BY DEF PageTyped
<1> HIDE DEF msg
<1>3. PageTyped'
  BY <1>1, <1>2, WireAppend DEF PageTyped
<1>4. NumbersTyped' /\ WorkerTyped' /\ OutTyped'
  BY DEF NumbersTyped, WorkerTyped, OutTyped, recVars
<1>5. Unheard = 0 /\ Unheard' = 0 /\ msg.type = "update"
  BY DEF InOrder, PageTyped, NumbersTyped, Unheard, msg
<1>6. InOrder'
  <2>1. LoadsLast'
    BY <1>1, <1>2, <1>5, WireInOrder DEF InOrder, LoadsLast
  <2> QED
    BY <1>5, <2>1 DEF InOrder, LoadsLast
<1>7. AllStored'
  BY <1>1, <1>2, WireAppend DEF AllStored, Stored, recVars
<1> QED
  BY <1>3, <1>4, <1>6, <1>7 DEF NeverStale, NoPanic, Stale
-----------------------------------------------------------------------------
\* A step that stores snapshots keeps what is stored.
LEMMA StoreType ==
    ASSUME WorkerTyped, NEW n \in Snapshots, UpdateNode(n)
    PROVE  /\ nodes' \in [Node -> Snapshots \cup {Absent}]
           /\ \A m \in Node : nodes'[m] # Absent => nodes'[m].id = m
           /\ n.id \in Node /\ nodes'[n.id] # Absent
           /\ \A m : m \in Node /\ nodes[m] # Absent => nodes'[m] # Absent
  BY DEF WorkerTyped, UpdateNode, Snapshots

\* The worker begins to listen.
LEMMA SubscribeIInv == ASSUME IInv, Subscribe PROVE IInv'
<1> USE DEF IInv, Typed, Subscribe, listenerRest, browser, recVars
<1>1. PageTyped' /\ NumbersTyped' /\ WorkerTyped' /\ OutTyped'
  BY DEF PageTyped, NumbersTyped, WorkerTyped, OutTyped
<1>2. InOrder' /\ AllStored'
  BY DEF InOrder, LoadsLast, Unheard, AllStored, Stored
<1> QED
  BY <1>1, <1>2 DEF InOrder, NeverStale, NoPanic, Stale

\* Nothing is under way when a load is received, no update is behind it, and
\* nothing is subscribed to: what is forgotten is missed by nobody.
LEMMA ReceiveLoadIInv == ASSUME IInv, ReceiveLoad PROVE IInv'
<1> USE DEF IInv, Typed, ReceiveLoad, page, recVars
<1> DEFINE root == Head(wire).root
<1>1. wire \in Seq(Messages) /\ wire # <<>> /\ wire' = Tail(wire)
  BY DEF PageTyped
<1>2. root \in Snapshots /\ root.id \in Node
  BY <1>1, WireTail DEF Messages, Snapshots
<1>3. jobs = {} /\ spawned = {}
  BY DEF NeverStale
<1>4. Unheard \in Nat /\ Unheard >= Len(wire) /\ Len(wire) > 0 /\ Unheard' = Unheard - 1
  BY <1>1, WireTail DEF InOrder, LoadsLast, Unheard, NumbersTyped, PageReset
<1>5. subs = {} /\ \A i \in 1..Len(wire) : wire[i].type = "load"
  BY <1>1, <1>4, WireTail DEF InOrder, LoadsLast
<1>6. PageTyped'
  BY <1>1, WireTail DEF PageTyped
<1>7. NumbersTyped'
  BY <1>4 DEF NumbersTyped, PageReset, Unheard
<1>8. WorkerTyped'
  BY <1>2, <1>3 DEF WorkerTyped, PageReset, Empty
<1>9. OutTyped'
  BY DEF OutTyped
<1>10. InOrder'
  BY <1>1, <1>4, <1>5, WireTail DEF InOrder, LoadsLast
<1>11. AllStored'
  BY <1>1, <1>3, <1>5, WireTail DEF AllStored
<1> QED
  BY <1>3, <1>6, <1>7, <1>8, <1>9, <1>10, <1>11 DEF NeverStale, NoPanic, Stale, PageReset

\* The nodes of an update that is received are stored.
LEMMA ReceiveUpdateIInv == ASSUME IInv, ReceiveUpdate PROVE IInv'
<1> USE DEF IInv, Typed, ReceiveUpdate, page
<1>1. wire \in Seq(Messages) /\ wire # <<>> /\ wire' = Tail(wire)
  BY DEF PageTyped
<1>2. left' \subseteq Snapshots /\ \A s \in left' : Stored(s.id)
  BY <1>1, WireTail DEF Messages, AllStored
<1>3. PageTyped'
  BY <1>1, WireTail DEF PageTyped
<1>4. NumbersTyped'
  BY DEF NumbersTyped
<1>5. WorkerTyped' /\ OutTyped'
  BY <1>2 DEF WorkerTyped, OutTyped
<1>6. InOrder'
  <2>1. Unheard \in Nat /\ Unheard' = Unheard
    BY DEF Unheard, NumbersTyped
  <2>2. /\ Len(wire) \in Nat /\ Len(wire') = Len(wire) - 1
        /\ \A i \in 1..Len(wire') : wire'[i] = wire[i + 1]
    BY <1>1, WireTail, LenProperties
  <2>3. LoadsLast'
    BY <2>1, <2>2 DEF InOrder, LoadsLast
  <2> QED
    BY <2>1, <2>3 DEF InOrder
<1>7. AllStored'
  BY <1>1, <1>2, WireTail DEF AllStored, Stored
<1> QED
  BY <1>3, <1>4, <1>5, <1>6, <1>7 DEF NeverStale, NoPanic, Stale
-----------------------------------------------------------------------------
\* The steps of reconcile that only read what is stored.
LEMMA ReconcileIInv == ASSUME IInv, Pick \/ LookUp \/ Compare PROVE IInv'
<1> USE DEF IInv, Typed, listenerRest, browser
<1>1. PageTyped' /\ NumbersTyped' /\ OutTyped' /\ NoPanic'
  <2>1. UNCHANGED <<browser, out, pageID, evPage, panicked>>
    BY DEF Pick, LookUp, Compare
  <2> QED
    BY <2>1 DEF PageTyped, NumbersTyped, OutTyped, NoPanic
<1>2. CASE Pick
  <2>1. WorkerTyped'
    BY <1>2 DEF Pick, WorkerTyped, Snapshots
  <2>2. InOrder' /\ AllStored'
    BY <1>2 DEF Pick, InOrder, LoadsLast, Unheard, AllStored, Stored
  <2> QED
    BY <1>1, <1>2, <2>1, <2>2 DEF Pick, NeverStale, Stale
<1>3. CASE LookUp
  <2>1. Head(look) \in Node /\ Tail(look) \in Seq(Node)
    BY <1>3, HeadTailProperties DEF LookUp, WorkerTyped
  <2>2. spawned' \subseteq [by : Node, root : Snapshots]
    BY <1>3, <2>1 DEF LookUp, WorkerTyped
  <2>3. WorkerTyped'
    BY <1>3, <2>1, <2>2 DEF LookUp, WorkerTyped
  <2>4. InOrder' /\ AllStored'
    BY <1>3 DEF LookUp, InOrder, LoadsLast, Unheard, AllStored, Stored
  <2> QED
    BY <1>1, <1>3, <2>3, <2>4 DEF LookUp, NeverStale, Stale
<1>4. CASE Compare
  <2>1. lpc' \in {"overwrite", "reconcile"}
    BY <1>4 DEF Compare
  <2>2. WorkerTyped'
    BY <1>4, <2>1 DEF Compare, recVars, WorkerTyped
  <2>3. InOrder' /\ AllStored'
    BY <1>4, <2>1 DEF Compare, recVars, InOrder, LoadsLast, Unheard, AllStored, Stored
  <2> QED
    BY <1>1, <1>4, <2>1, <2>2, <2>3 DEF Compare, recVars, NeverStale, Stale
<1> QED
  BY <1>2, <1>3, <1>4

\* The node that is overwritten is stored, and the page is the current one.
LEMMA OverwriteIInv == ASSUME IInv, Overwrite PROVE IInv'
<1> USE DEF IInv, Typed, Overwrite, listenerRest, browser, recVars
<1>1. ~Stale(evPage) /\ cur \in Snapshots /\ cur.id \in Node /\ nodes[cur.id] # Absent
  BY DEF NeverStale, WorkerTyped, AllStored, Stored, Snapshots
<1>2. UpdateNode(cur) /\ lpc' = "reconcile" /\ updated' = updated \cup {cur.id} /\ UNCHANGED panicked
  BY <1>1
<1>3. PageTyped' /\ NumbersTyped' /\ OutTyped'
  BY DEF PageTyped, NumbersTyped, OutTyped
<1>4. WorkerTyped'
  BY <1>1, <1>2, StoreType DEF WorkerTyped
<1>5. InOrder'
  BY <1>2 DEF InOrder, LoadsLast, Unheard
<1>6. AllStored'
  <2>1. \A n \in Node : Stored(n) => Stored(n)'
    BY <1>1, <1>2, StoreType DEF Stored
  <2>2. /\ subs \subseteq Node /\ \A s \in left : s.id \in Node
        /\ \A j \in jobs : j.id \in Node /\ j.targets \subseteq Node
    BY DEF PageTyped, WorkerTyped, Snapshots, Jobs
  <2>3. \A i \in 1..Len(wire) : wire[i].type = "update" => \A s \in wire[i].nodes : s.id \in Node
    BY UpdateTypes
  <2> QED
    BY <1>2, <2>1, <2>2, <2>3 DEF AllStored
<1> QED
  BY <1>2, <1>3, <1>4, <1>5, <1>6 DEF NeverStale, NoPanic, Stale

\* An event is sent once everything it started has ended.
LEMMA EmitIInv == ASSUME IInv, Emit PROVE IInv'
<1> USE DEF IInv, Typed, WaitPassed, browser, recVars
<1> DEFINE ev == [type  |-> IF lpc = "load" THEN "reset" ELSE "patch",
                  trees |-> {GetTree(nodes, id) : id \in updated}]
<1>1. ~Stale(evPage)
  BY DEF NeverStale, Emit
<1>2. /\ spawned = {} /\ jobs = {}
      /\ \/ lpc' = "overflow" /\ UNCHANGED out
         \/ Len(out) < OutCap /\ lpc' = "idle" /\ out' = Append(out, ev)
      /\ UNCHANGED <<browser, pageID, nodes, recVars, updated, evPage, spawned, jobs, panicked>>
  BY <1>1 DEF Emit
<1> HIDE DEF ev
<1>3. PageTyped' /\ NumbersTyped' /\ WorkerTyped'
  BY <1>2 DEF PageTyped, NumbersTyped, WorkerTyped
<1>4. OutTyped'
  <2>1. PICK S : out \in Seq(S)
    BY DEF OutTyped
  <2>2. out \in Seq(S \cup {ev})
    BY <2>1, SeqMonotonic
  <2>3. CASE out' = Append(out, ev) /\ Len(out) < OutCap
    <3>1. out' \in Seq(S \cup {ev}) /\ Len(out') = Len(out) + 1
      BY <2>2, <2>3, AppendProperties
    <3> QED
      BY <2>2, <2>3, <3>1, LenProperties DEF OutTyped
  <2>4. CASE UNCHANGED out
    BY <2>4 DEF OutTyped
  <2> QED
    BY <1>2, <2>3, <2>4
<1>5. InOrder' /\ AllStored'
  BY <1>2 DEF InOrder, LoadsLast, Unheard, AllStored, Stored
<1> QED
  BY <1>2, <1>3, <1>4, <1>5 DEF NeverStale, NoPanic, Stale

\* The worker may stop, and the consumer takes what there is.
LEMMA StopIInv == ASSUME IInv, Stop PROVE IInv'
<1> USE DEF IInv, Typed, Stop, listenerRest, browser, recVars
<1>1. PageTyped' /\ NumbersTyped' /\ WorkerTyped' /\ OutTyped'
  BY DEF PageTyped, NumbersTyped, WorkerTyped, OutTyped
<1>2. InOrder' /\ AllStored'
  BY DEF InOrder, LoadsLast, Unheard, AllStored, Stored
<1> QED
  BY <1>1, <1>2 DEF NeverStale, NoPanic, Stale

\* The consumer takes the first event.
LEMMA ConsumeIInv == ASSUME IInv, Consume PROVE IInv'
<1> USE DEF IInv, Typed, Consume, browser, recVars
<1>1. PageTyped' /\ NumbersTyped' /\ WorkerTyped'
  BY DEF PageTyped, NumbersTyped, WorkerTyped
<1>2. OutTyped'
  <2>1. PICK S : out \in Seq(S)
    BY DEF OutTyped
  <2>2. out' \in Seq(S) /\ Len(out') = Len(out) - 1
    BY <2>1, HeadTailProperties
  <2> QED
    BY <2>1, <2>2, LenProperties DEF OutTyped
<1>3. InOrder' /\ AllStored'
  BY DEF InOrder, LoadsLast, Unheard, AllStored, Stored
<1> QED
  BY <1>1, <1>2, <1>3 DEF NeverStale, NoPanic, Stale
-----------------------------------------------------------------------------
\* What is stored elsewhere stays stored when a snapshot is stored; the steps of
\* a subscription have only their jobs to account for.
LEMMA StillStored ==
    ASSUME Typed, AllStored, NEW s \in Snapshots, UpdateNode(s),
           UNCHANGED <<subs, wire, lpc, left, cur>>
    PROVE  /\ \A n \in subs' : Stored(n)'
           /\ \A i \in 1..Len(wire') : wire'[i].type = "update" => \A t \in wire'[i].nodes : Stored(t.id)'
           /\ lpc' \in {"reconcile", "look", "overwrite"} => \A t \in left' : Stored(t.id)'
           /\ lpc' \in {"look", "overwrite"} => Stored(cur.id)'
           /\ \A j \in jobs : Stored(j.id)' /\ \A t \in j.targets : Stored(t)'
<1>1. \A n \in Node : Stored(n) => Stored(n)'
  BY StoreType DEF Stored, Typed
<1>2. /\ subs \subseteq Node /\ \A t \in left : t.id \in Node
      /\ lpc \in {"look", "overwrite"} => cur.id \in Node
      /\ \A j \in jobs : j.id \in Node /\ j.targets \subseteq Node
  BY DEF Typed, PageTyped, WorkerTyped, Snapshots, Jobs
<1>3. \A i \in 1..Len(wire) : wire[i].type = "update" => \A t \in wire[i].nodes : t.id \in Node
  BY UpdateTypes DEF Typed
<1> QED
  BY <1>1, <1>2, <1>3 DEF AllStored

\* A call's root is stored before it is asked for.
LEMMA StartCallIInv == ASSUME IInv, StartCall PROVE IInv'
<1> USE DEF IInv, Typed, listenerRest, browser, recVars
<1>1. PICK c \in spawned :
        /\ spawned' = spawned \ {c} /\ UpdateNode(c.root)
        /\ jobs' = jobs \cup {NewJob(<<c.root.id, c.by>>, pageID, c.root.id)}
        /\ UNCHANGED <<listenerRest, pageID, lpc, recVars, updated, evPage, panicked>>
  BY DEF StartCall
<1> DEFINE new == NewJob(<<c.root.id, c.by>>, pageID, c.root.id)
<1>2. c.root \in Snapshots /\ c.by \in Node
  BY DEF WorkerTyped
<1>3. c.root.id \in Node /\ nodes'[c.root.id] # Absent
  BY <1>1, <1>2, StoreType
<1>4. new \in Jobs /\ new.id = c.root.id /\ new.pid = pageID /\ new.targets = {}
  BY <1>2, <1>3 DEF NewJob, Jobs, NumbersTyped
<1> HIDE DEF new
<1>5. PageTyped' /\ NumbersTyped' /\ OutTyped'
  BY <1>1 DEF PageTyped, NumbersTyped, OutTyped
<1>6. WorkerTyped'
  BY <1>1, <1>2, <1>4, StoreType DEF WorkerTyped, new
<1>7. InOrder'
  BY <1>1 DEF InOrder, LoadsLast, Unheard
<1>8. AllStored'
  <2>1. \A j \in jobs' : j \in jobs \/ j = new
    BY <1>1 DEF new
  <2>2. nodes'[new.id] # Absent /\ new.targets = {}
    BY <1>3, <1>4
  <2>3. UNCHANGED <<subs, wire, lpc, left, cur>>
    BY <1>1
  <2>4. Typed /\ AllStored
    OBVIOUS
  <2> HIDE DEF Typed, IInv
  <2> QED
    BY <1>1, <1>2, <1>4, <2>1, <2>2, <2>3, <2>4, StillStored DEF AllStored, Stored
<1>9. NeverStale' /\ NoPanic'
  BY <1>1, <1>4 DEF NeverStale, NoPanic, Stale, new
<1> QED
  BY <1>5, <1>6, <1>7, <1>8, <1>9

\* The jobs that replace a job that is over are of the same page, and stored if
\* its targets are.
LEMMA DoneJobs ==
    ASSUME Typed, NEW j \in jobs, NEW ts \in SUBSET Node
    PROVE  /\ Done(j, ts) \subseteq Jobs
           /\ \A k \in Done(j, ts) : k \in jobs \/ (k.pid = j.pid /\ k.id \in ts /\ k.targets = {})
<1>1. j \in Jobs /\ jobs \subseteq Jobs
  BY DEF Typed, WorkerTyped
<1>2. \A id \in ts : /\ NewJob(j.call, j.pid, id) \in Jobs
                     /\ NewJob(j.call, j.pid, id).pid = j.pid
                     /\ NewJob(j.call, j.pid, id).id = id
                     /\ NewJob(j.call, j.pid, id).targets = {}
  BY <1>1 DEF NewJob, Jobs
<1> QED
  BY <1>1, <1>2 DEF Done

\* Chrome subscribes to a node of the current page that is stored: every load
\* there has been was heard of, or was missed.
LEMMA AnswerIInv == ASSUME IInv, Answer PROVE IInv'
<1> USE DEF IInv, Typed, content, recVars
<1>1. PICK j \in jobs :
        /\ Succeed(j) \/ FailRequest(j)
        /\ UNCHANGED <<content, dirty, wire, missed, loads, pageID, nodes, lpc,
                       recVars, updated, evPage, spawned, panicked, out, view>>
  BY DEF Answer
<1> DEFINE asked == [j EXCEPT !.todo = {Snap(n) : n \in Range(kids[j.id])}]
<1>2. /\ j \in Jobs /\ jobs \subseteq Jobs /\ j.id \in Node /\ j.pid = pageID
      /\ Stored(j.id) /\ \A t \in j.targets : Stored(t)
  BY DEF WorkerTyped, NeverStale, Stale, AllStored, Jobs
<1>3. /\ asked \in Jobs /\ asked.id = j.id /\ asked.pid = j.pid /\ asked.targets = j.targets
  <2>1. Range(kids[j.id]) \subseteq Node
    BY <1>2, ElementOfSeq DEF PageTyped, Range
  <2>2. {Snap(n) : n \in Range(kids[j.id])} \subseteq Snapshots
    BY <2>1, SnapType
  <2> QED
    BY <1>2, <2>2 DEF Jobs
<1> HIDE DEF asked
<1>4. jobs' \subseteq Jobs /\ \A k \in jobs' : k \in jobs \/ k = asked
  <2>1. Done(j, {}) \subseteq Jobs /\ Done(j, {}) \subseteq jobs
    BY DoneJobs
  <2>2. jobs' = Done(j, {}) \/ jobs' = (jobs \ {j}) \cup {asked}
    BY <1>1 DEF asked, Succeed, FailRequest
  <2> QED
    BY <1>2, <1>3, <2>1, <2>2
<1>5. /\ subs' \subseteq Node /\ subs \subseteq subs' /\ \A n \in subs' : Stored(n)
      /\ subs' # subs => Unheard = 0
      /\ failed' \subseteq Node
  <2>1. subs' = subs \/ (Askable(j) /\ subs' = subs \cup {j.id})
    BY <1>1 DEF Succeed, FailRequest
  <2>2. failed' \subseteq failed \cup {j.id}
    BY <1>1 DEF Succeed, FailRequest
  <2> QED
    BY <1>1, <1>2, <2>1, <2>2 DEF PageTyped, AllStored, Unheard, NumbersTyped, Askable
<1>6. PageTyped' /\ NumbersTyped' /\ OutTyped'
  BY <1>1, <1>5 DEF PageTyped, NumbersTyped, OutTyped
<1>7. WorkerTyped'
  BY <1>1, <1>4 DEF WorkerTyped
<1>8. InOrder'
  BY <1>1, <1>5 DEF InOrder, LoadsLast, Unheard
<1>9. AllStored'
  BY <1>1, <1>2, <1>3, <1>4, <1>5 DEF AllStored, Stored
<1>10. NeverStale' /\ NoPanic'
  BY <1>1, <1>2, <1>3, <1>4 DEF NeverStale, NoPanic, Stale
<1> QED
  BY <1>6, <1>7, <1>8, <1>9, <1>10

\* What a subscription goes on to ask for it has stored.
LEMMA StoreIInv == ASSUME IInv, Store PROVE IInv'
<1> USE DEF IInv, Typed, listenerRest, browser, recVars
<1>1. PICK j \in jobs :
        /\ j.todo # {}
        /\ IF Stale(j.pid)
           THEN jobs' = Done(j, j.targets) /\ UNCHANGED nodes
           ELSE \E n \in j.todo :
                   LET targets == IF nodes[n.id] = Absent THEN j.targets \cup {n.id}
                                  ELSE j.targets
                   IN  /\ UpdateNode(n)
                       /\ jobs' = IF j.todo = {n} THEN Done(j, targets)
                                  ELSE (jobs \ {j}) \cup
                                       {[j EXCEPT !.todo = @ \ {n}, !.targets = targets]}
        /\ UNCHANGED <<listenerRest, pageID, lpc, recVars, updated, evPage, spawned, panicked>>
  BY DEF Store
<1>2. /\ j \in Jobs /\ jobs \subseteq Jobs /\ ~Stale(j.pid) /\ j.pid = pageID
      /\ j.todo \subseteq Snapshots /\ j.targets \subseteq Node
  BY <1>1 DEF WorkerTyped, NeverStale, Stale, Jobs
<1>3. PICK n \in j.todo :
        LET targets == IF nodes[n.id] = Absent THEN j.targets \cup {n.id} ELSE j.targets
        IN  /\ UpdateNode(n)
            /\ jobs' = IF j.todo = {n} THEN Done(j, targets)
                       ELSE (jobs \ {j}) \cup
                            {[j EXCEPT !.todo = @ \ {n}, !.targets = targets]}
  BY <1>1, <1>2
<1> DEFINE targets == IF nodes[n.id] = Absent THEN j.targets \cup {n.id} ELSE j.targets
           rest    == [j EXCEPT !.todo = @ \ {n}, !.targets = targets]
<1>4. n \in Snapshots /\ n.id \in Node /\ nodes'[n.id] # Absent
  BY <1>2, <1>3, StoreType
<1>5. targets \subseteq Node /\ \A t \in targets : Stored(t)'
  <2>1. \A t \in j.targets : Stored(t)'
    BY <1>1, <1>3, <1>4, StillStored
  <2> QED
    BY <1>2, <1>4, <2>1 DEF Stored
<1>6. /\ rest \in Jobs /\ rest.id = j.id /\ rest.pid = j.pid /\ rest.targets = targets
  BY <1>2, <1>5 DEF Jobs
<1>7. jobs' = IF j.todo = {n} THEN Done(j, targets) ELSE (jobs \ {j}) \cup {rest}
  BY <1>3
<1> HIDE DEF targets, rest
<1>8. /\ jobs' \subseteq Jobs
      /\ \A k \in jobs' :
            k \in jobs \/ k = rest \/ (k.pid = j.pid /\ k.id \in targets /\ k.targets = {})
  <2>1. /\ Done(j, targets) \subseteq Jobs
        /\ \A k \in Done(j, targets) :
              k \in jobs \/ (k.pid = j.pid /\ k.id \in targets /\ k.targets = {})
    BY <1>5, DoneJobs
  <2>2. CASE jobs' = Done(j, targets)
    BY <2>1, <2>2
  <2>3. CASE jobs' = (jobs \ {j}) \cup {rest}
    BY <1>2, <1>6, <2>3
  <2> QED
    BY <1>7, <2>2, <2>3
<1>9. PageTyped' /\ NumbersTyped' /\ OutTyped'
  BY <1>1 DEF PageTyped, NumbersTyped, OutTyped
<1>10. WorkerTyped'
  BY <1>1, <1>3, <1>4, <1>8, StoreType DEF WorkerTyped
<1>11. InOrder'
  BY <1>1 DEF InOrder, LoadsLast, Unheard, NeverStale
<1>12. AllStored'
  BY <1>1, <1>3, <1>4, <1>5, <1>6, <1>8, StillStored DEF AllStored
<1>13. NeverStale' /\ NoPanic'
  BY <1>1, <1>2, <1>6, <1>8 DEF NeverStale, NoPanic, Stale
<1> QED
  BY <1>9, <1>10, <1>11, <1>12, <1>13
-----------------------------------------------------------------------------
\* Every step preserves the invariant.
LEMMA NextIInv == IInv /\ [Next]_vars => IInv'
<1> SUFFICES ASSUME IInv, [Next]_vars PROVE IInv'
  OBVIOUS
<1>1. CASE Browser
  BY <1>1, LoadIInv, ChangeIInv, ReportIInv DEF Browser
<1>2. CASE Worker
  BY <1>2, SubscribeIInv, ReceiveLoadIInv, ReceiveUpdateIInv, ReconcileIInv,
     OverwriteIInv, EmitIInv DEF Worker
<1>3. CASE Subscription
  BY <1>3, StartCallIInv, AnswerIInv, StoreIInv DEF Subscription
<1>4. CASE UNCHANGED vars
  BY <1>4 DEF IInv, Typed, PageTyped, NumbersTyped, WorkerTyped, OutTyped, InOrder, LoadsLast, Unheard,
     AllStored, Stored, NeverStale, NoPanic, Stale, vars, browser, listener, recVars
<1> QED
  BY <1>1, <1>2, <1>3, <1>4, StopIInv, ConsumeIInv DEF Next

\* The invariant implies the types that are checked.
LEMMA IInvType == IInv => TypeOK
<1> SUFFICES ASSUME IInv PROVE TypeOK
  OBVIOUS
<1> USE DEF IInv, Typed
<1>1. \A i \in DOMAIN wire :
        \/ wire[i].type = "load" /\ wire[i].root \in Snapshots
        \/ wire[i].type = "update" /\ wire[i].nodes \subseteq Snapshots
  <2>1. DOMAIN wire = 1..Len(wire) /\ \A i \in 1..Len(wire) : wire[i] \in Messages
    BY ElementOfSeq, LenProperties DEF PageTyped
  <2>2. \A m \in Messages :
          \/ m.type = "load" /\ m.root \in Snapshots
          \/ m.type = "update" /\ m.nodes \subseteq Snapshots
    BY DEF Messages
  <2> QED
    BY <2>1, <2>2
<1>2. pageID \in 0..MaxLoads /\ evPage \in 0..MaxLoads /\ missed \in 0..loads
  BY DEF NumbersTyped
<1>3. \A n \in Node : nodes[n] # Absent => nodes[n] \in Snapshots /\ nodes[n].id = n
  BY DEF WorkerTyped
<1>4. \A j \in jobs : j.id \in Node /\ j.todo \subseteq Snapshots
  BY DEF WorkerTyped, Jobs
<1> QED
  BY <1>1, <1>2, <1>3, <1>4 DEF TypeOK, PageTyped, WorkerTyped, OutTyped

\* The invariant holds throughout.
LEMMA Invariance == Spec => []IInv
  BY InitIInv, NextIInv, PTL DEF Spec

\* Page state, event worker, subscriptions and stream have their types, and no
\* more events wait than the channel holds.
THEOREM ListenerType == Spec => []TypeOK
  BY Invariance, IInvType, PTL

\* "page should never become stale within the single event loop goroutine"
\* (handleNodesUpdated): a call or handler works for the page that is current,
\* whatever loads meanwhile, since only the worker, which waits for them, moves on
\* to the next page.
THEOREM NeverStaleCorrect == Spec => []NeverStale
<1>1. IInv => NeverStale
  BY DEF IInv
<1> QED
  BY <1>1, Invariance, PTL

\* The panics of reconcile and of handleNodesUpdated are not reached: Chrome reports
\* only nodes that were asked for, and those are stored before they are asked for
\* and until the next page is known.
THEOREM NoPanicCorrect == Spec => []NoPanic
<1>1. IInv => NoPanic
  BY DEF IInv
<1> QED
  BY <1>1, Invariance, PTL
-----------------------------------------------------------------------------
(* Nothing of the page is left out.                                        *)

HIDE ConstantsOK DEF ConstantsOK

\* The sets of nodes that lead nowhere else, and the least of them that has n.
Leads(ks, S) == \A m \in S : Range(ks[m]) \subseteq S
Reach(ks, n) == {m \in Node : \A S \in SUBSET Node : n \in S /\ Leads(ks, S) => m \in S}

\* Node n is about to be asked for.
Asking(n) ==
    \/ \E c \in spawned : c.root.id = n
    \/ \E j \in jobs : (j.id = n /\ j.todo = {}) \/ n \in j.targets

\* That k is a child of n is yet to be reported, or to be reconciled.
Reporting(n, k) ==
    \/ n \in dirty
    \/ \E i \in 1..Len(wire) : /\ wire[i].type = "update"
                               /\ \E s \in wire[i].nodes : s.id = n /\ k \in Range(s.kids)
    \/ lpc \in {"reconcile", "look", "overwrite"} /\ \E s \in left : s.id = n /\ k \in Range(s.kids)
    \/ lpc = "look" /\ cur.id = n /\ k \in Range(look)

\* The browser has answered with a snapshot of k.
Storing(k) == \E j \in jobs : \E s \in j.todo : s.id = k

\* The listener has heard of the page that is loaded.
Current == pageID > 0 /\ Unheard = 0

KidsCaught ==
    \A n \in (subs \cap Attached) \ failed : \A k \in Range(kids[n]) :
        Stored(k) \/ Reporting(n, k) \/ Asking(n) \/ Storing(k)
StoredAsked == \A k \in Attached : Stored(k) => k \in subs \/ k \in failed \/ Asking(k)
Known(k)    == k \in Attached \cup retired
StoredKnown == \A k \in Node : Stored(k) => Known(k)
RootsStored == \A c \in spawned : Stored(c.root.id)
JobOK(j)    == (j.todo = {} => j.targets = {}) /\ \A s \in j.todo : Known(s.id)
JobsOK      == \A j \in jobs : JobOK(j)

\* Of the page that is loaded the root is stored; a child of a node that reports
\* its changes is stored or on its way to it; and what is stored reports its
\* changes or is about to be asked for.  Nodes whose request has failed are
\* neither's business.
Caught == Stored(Top) /\ KidsCaught /\ StoredAsked /\ StoredKnown /\ RootsStored /\ JobsOK

CInv ==
    /\ Unheard <= Len(wire)
    /\ lpc = "start" => pageID = 0
    /\ Current => Caught
-----------------------------------------------------------------------------
(* Sequences.                                                              *)

\* An insertion adds its element to those of the sequence.
LEMMA RangeOfInsert ==
    ASSUME NEW S, NEW s \in Seq(S), NEW i \in 1..(Len(s) + 1), NEW e \in S
    PROVE  Range(InsertAt(s, i, e)) = Range(s) \cup {e}
<1> DEFINE a   == SubSeq(s, 1, i - 1)
           b   == SubSeq(s, i, Len(s))
           one == <<e>>
           c   == a \o one
<1>1. Len(s) \in Nat /\ i \in Int /\ \A k \in 1..Len(s) : s[k] \in S
  BY ElementOfSeq, LenProperties
<1>2. a \in Seq(S) /\ b \in Seq(S)
  <2>1. i - 1 \in Int /\ \A k \in 1..(i - 1) : s[k] \in S
    BY <1>1
  <2>2. \A k \in i..Len(s) : s[k] \in S
    BY <1>1
  <2> QED
    BY <1>1, <2>1, <2>2, SubSeqProperties
<1>3. one \in Seq(S) /\ Range(one) = {e}
  BY DEF Range
<1>4. s = a \o b
  <2>1. SubSeq(s, 1, Len(s)) = s
    BY SubSeqFull
  <2>2. /\ 1 \in 1..(Len(s) + 1) /\ i - 1 \in (1 - 1)..Len(s) /\ Len(s) \in (i - 1)..Len(s)
        /\ (i - 1) + 1 = i
    BY <1>1
  <2>3. SubSeq(s, 1, i - 1) \o SubSeq(s, (i - 1) + 1, Len(s)) = SubSeq(s, 1, Len(s))
    BY <2>2, ConcatAdjacentSubSeq
  <2> QED
    BY <2>1, <2>2, <2>3
<1>5. InsertAt(s, i, e) = c \o b
  BY DEF InsertAt
<1> HIDE DEF a, b, one
<1>6. Range(s) = Range(a) \cup Range(b)
  BY <1>2, <1>4, RangeConcatenation
<1>7. c \in Seq(S) /\ Range(c) = Range(a) \cup {e}
  BY <1>2, <1>3, RangeConcatenation, ConcatProperties
<1> HIDE DEF c
<1>8. Range(c \o b) = Range(c) \cup Range(b)
  BY <1>2, <1>7, RangeConcatenation
<1> QED
  BY <1>5, <1>6, <1>7, <1>8

\* A removal takes away no element but the one at its place.
LEMMA RangeOfRemove ==
    ASSUME NEW S, NEW s \in Seq(S), NEW i \in DOMAIN s
    PROVE  /\ Range(RemoveAt(s, i)) \subseteq Range(s)
           /\ Range(s) \subseteq Range(RemoveAt(s, i)) \cup {s[i]}
<1> DEFINE a == SubSeq(s, 1, i - 1)
           b == SubSeq(s, i + 1, Len(s))
<1>1. Len(s) \in Nat /\ i \in 1..Len(s) /\ \A k \in 1..Len(s) : s[k] \in S
  BY ElementOfSeq, LenProperties
<1>2. /\ a \in Seq(S) /\ Len(a) = i - 1 /\ \A k \in 1..(i - 1) : a[k] = s[k]
      /\ b \in Seq(S) /\ Len(b) = Len(s) - i /\ \A k \in 1..(Len(s) - i) : b[k] = s[i + k]
  BY <1>1, SubSeqProperties
<1> HIDE DEF a, b
<1>3. Range(RemoveAt(s, i)) = Range(a) \cup Range(b)
  BY <1>2, RangeConcatenation DEF RemoveAt, a, b
<1>4. Range(s) = {s[k] : k \in 1..Len(s)}
  BY <1>1, LenProperties DEF Range
<1>5. Range(a) = {a[k] : k \in 1..(i - 1)} /\ Range(b) = {b[k] : k \in 1..(Len(s) - i)}
  BY <1>2, LenProperties DEF Range
<1>6. Range(a) \cup Range(b) \subseteq Range(s)
  <2>1. ASSUME NEW k \in 1..(i - 1) PROVE k \in 1..Len(s) /\ a[k] = s[k]
    BY <1>1, <1>2
  <2>2. ASSUME NEW k \in 1..(Len(s) - i) PROVE i + k \in 1..Len(s) /\ b[k] = s[i + k]
    BY <1>1, <1>2
  <2> QED
    BY <1>4, <1>5, <2>1, <2>2
<1>7. ASSUME NEW k \in 1..Len(s), k # i PROVE s[k] \in Range(a) \cup Range(b)
  <2>1. CASE k < i
    <3>1. k \in 1..(i - 1)
      BY <1>1, <2>1
    <3> QED
      BY <1>2, <1>5, <3>1
  <2>2. CASE k > i
    <3>1. k - i \in 1..(Len(s) - i) /\ i + (k - i) = k
      BY <1>1, <1>7, <2>2
    <3> QED
      BY <1>2, <1>5, <3>1
  <2> QED
    BY <1>1, <1>7, <2>1, <2>2
<1> QED
  BY <1>3, <1>4, <1>6, <1>7

\* Append adds its element.
LEMMA RangeOfAppend ==
    ASSUME NEW S, NEW s \in Seq(S), NEW e \in S
    PROVE  Range(Append(s, e)) = Range(s) \cup {e}
<1> DEFINE one == <<e>>
<1>1. Append(s, e) = s \o one
  BY AppendIsConcat
<1>2. one \in Seq(S) /\ Range(one) = {e}
  BY DEF Range
<1> HIDE DEF one
<1> QED
  BY <1>1, <1>2, RangeConcatenation

\* Every element is the head or in the tail.
LEMMA RangeOfTail ==
    ASSUME NEW S, NEW s \in Seq(S), s # <<>>
    PROVE  \A e \in Range(s) : e = Head(s) \/ e \in Range(Tail(s))
<1>1. /\ Len(s) \in Nat /\ DOMAIN s = 1..Len(s) /\ Head(s) = s[1]
      /\ Len(Tail(s)) = Len(s) - 1 /\ DOMAIN Tail(s) = 1..(Len(s) - 1)
      /\ \A i \in 1..(Len(s) - 1) : Tail(s)[i] = s[i + 1]
  BY HeadTailProperties, LenProperties
<1> SUFFICES ASSUME NEW i \in 1..Len(s), i # 1 PROVE s[i] \in Range(Tail(s))
  BY <1>1 DEF Range
<1>2. i - 1 \in 1..(Len(s) - 1) /\ (i - 1) + 1 = i
  BY <1>1
<1>3. Tail(s)[i - 1] = s[i]
  BY <1>1, <1>2
<1> QED
  BY <1>1, <1>2, <1>3 DEF Range

\* The elements of a sequence over S are in S.
LEMMA RangeType ==
    ASSUME NEW S, NEW s \in Seq(S)
    PROVE  Range(s) \subseteq S
  BY ElementOfSeq DEF Range
-----------------------------------------------------------------------------
(* The nodes of the page.                                                  *)

\* What a node reaches has the node and leads nowhere else.
LEMMA ReachClosed ==
    ASSUME NEW ks \in [Node -> Seq(Node)], NEW n \in Node
    PROVE  n \in Reach(ks, n) /\ Reach(ks, n) \subseteq Node /\ Leads(ks, Reach(ks, n))
<1>1. ASSUME NEW m \in Reach(ks, n), NEW k \in Range(ks[m]) PROVE k \in Reach(ks, n)
  <2>1. m \in Node /\ k \in Node
    BY RangeType DEF Reach
  <2> QED
    BY <2>1 DEF Reach, Leads
<1> QED
  BY <1>1 DEF Reach, Leads

\* It is within every such set.
LEMMA ReachLeast ==
    ASSUME NEW ks, NEW n, NEW S \in SUBSET Node, n \in S, Leads(ks, S)
    PROVE  Reach(ks, n) \subseteq S
  BY DEF Reach

\* On the page every node is there, so that nothing is cut off.
LEMMA BelowIsReach ==
    ASSUME NEW ks \in [Node -> Seq(Node)], NEW n \in Node,
           NEW f, \A m \in Node : f[m] # Absent /\ f[m].kids = ks[m]
    PROVE  Below(f, n) = Reach(ks, n)
<1>1. ASSUME NEW m \in Node PROVE Shown(f, m) = ks[m]
  <2>1. {i \in DOMAIN ks[m] : f[ks[m][i]] = Absent} = {}
    <3> SUFFICES ASSUME NEW i \in DOMAIN ks[m] PROVE ks[m][i] \in Node
      OBVIOUS
    <3> QED
      BY ElementOfSeq
  <2> QED
    BY <2>1 DEF Shown
<1> QED
  BY <1>1 DEF Below, Reach, Leads

\* No snapshot is Absent.
LEMMA SnapshotsKnown ==
    /\ Top \in Node
    /\ \A s \in Snapshots : s # Absent
  BY ConstantsOK DEF ConstantsOK, Snapshots

\* In the page, where every node has a snapshot, getTreeInner would follow all children.
LEMMA PageReach == ASSUME PageTyped, NEW n \in Node PROVE Below(Page, n) = Reach(kids, n)
<1>1. ASSUME NEW m \in Node PROVE Page[m] # Absent /\ Page[m].kids = kids[m]
  <2>1. Page[m] = Snap(m)
    BY DEF Page
  <2> QED
    BY <2>1, SnapType, SnapshotsKnown DEF Snap
<1> QED
  BY <1>1, BelowIsReach DEF PageTyped

\* The nodes of the page are those its root reaches.
LEMMA AttachedIsReach == ASSUME PageTyped PROVE Attached = Reach(kids, Top)
  BY PageReach, SnapshotsKnown DEF Attached

\* They are so after a step too.
LEMMA AttachedIsReachNext == ASSUME PageTyped' PROVE Attached' = Reach(kids', Top)
<1>1. Attached' = Below(Page', Top)
  BY DEF Attached
<1>2. ASSUME NEW m \in Node PROVE Page'[m] # Absent /\ Page'[m].kids = kids'[m]
  <2>1. [id |-> m, kids |-> kids'[m], meta |-> meta'[m]] \in Snapshots
    BY DEF PageTyped, Snapshots
  <2>2. Page'[m] = [id |-> m, kids |-> kids'[m], meta |-> meta'[m]]
    BY DEF Page, Snap
  <2> QED
    BY <2>1, <2>2, SnapshotsKnown
<1> QED
  BY <1>1, <1>2, BelowIsReach, SnapshotsKnown DEF PageTyped
-----------------------------------------------------------------------------
(* Changes of the page.                                                    *)

\* What a change does to the nodes of the page: none is lost that is not retired,
\* new ones have new ids, a subscribed node that gets another child is due to be
\* reported, and unless a node is moved only a new one gets another parent.
Keeps ==
    /\ Attached' \subseteq Node
    /\ Attached \subseteq Attached' \cup retired' /\ retired \subseteq retired'
    /\ (Attached' \ Attached) \cap retired = {}
    /\ \A m \in Attached \cap Attached' \cap subs :
          Range(kids'[m]) \subseteq Range(kids[m]) \/ m \in dirty'
    /\ \A m \in dirty : m \in dirty' \/ Range(kids'[m]) = {}
    /\ \/ moved'
       \/ \A m \in Node : Range(kids'[m]) \subseteq Range(kids[m])
       \/ \E n \in Attached' \ (Attached \cup retired), p \in Node :
             \A m \in Node : Range(kids'[m]) \subseteq Range(kids[m]) \cup (IF m = p THEN {n} ELSE {})

\* A new node has no children, and cuts nothing off.
LEMMA InsertKeeps == ASSUME PageTyped, PageTyped', InsertNode PROVE Keeps
<1>1. PICK n \in Node \ (Attached \cup retired), p \in Attached : \E i \in 0..Len(kids[p]) :
        /\ kids' = [kids EXCEPT ![p] = InsertAt(@, i + 1, n), ![n] = <<>>]
        /\ Changed({p}) /\ UNCHANGED <<meta, retired, moved>>
  BY DEF InsertNode
<1>2. PICK i \in 0..Len(kids[p]) :
        /\ kids' = [kids EXCEPT ![p] = InsertAt(@, i + 1, n), ![n] = <<>>]
        /\ Changed({p}) /\ UNCHANGED <<meta, retired, moved>>
  BY <1>1
<1>3. /\ kids \in [Node -> Seq(Node)] /\ kids' \in [Node -> Seq(Node)]
      /\ dirty \subseteq subs /\ Top \in Node
      /\ Attached = Reach(kids, Top) /\ Attached' = Reach(kids', Top)
  BY AttachedIsReach, AttachedIsReachNext, SnapshotsKnown DEF PageTyped
<1>4. /\ Attached \subseteq Node /\ Top \in Attached /\ Leads(kids, Attached)
      /\ Attached' \subseteq Node /\ Top \in Attached' /\ Leads(kids', Attached')
  BY <1>3, ReachClosed
<1>5. p \in Node /\ n \in Node /\ n # p
  BY <1>1, <1>4
<1>6. \A m \in Node : kids'[m] = IF m = n THEN <<>>
                                 ELSE IF m = p THEN InsertAt(kids[p], i + 1, n) ELSE kids[m]
  <2> DEFINE longer == [kids EXCEPT ![p] = InsertAt(@, i + 1, n)]
  <2>1. longer \in [Node -> {longer[m] : m \in Node}]
        /\ \A m \in Node : longer[m] = IF m = p THEN InsertAt(kids[p], i + 1, n) ELSE kids[m]
    BY <1>3
  <2>2. kids' = [longer EXCEPT ![n] = <<>>]
    BY <1>2
  <2> HIDE DEF longer
  <2> QED
    BY <2>1, <2>2
<1>7. Range(InsertAt(kids[p], i + 1, n)) = Range(kids[p]) \cup {n}
  <2> DEFINE list  == kids[p]
             place == i + 1
  <2>1. list \in Seq(Node) /\ n \in Node /\ place \in 1..(Len(list) + 1)
    BY <1>3, <1>5, LenProperties
  <2> HIDE DEF list, place
  <2>2. Range(InsertAt(list, place, n)) = Range(list) \cup {n}
    BY <2>1, RangeOfInsert
  <2> QED
    BY <2>2 DEF list, place
<1>8. Range(<<>>) = {}
  BY DEF Range
<1>9. /\ Range(kids'[n]) = {} /\ Range(kids'[p]) = Range(kids[p]) \cup {n}
      /\ \A m \in Node \ {n, p} : Range(kids'[m]) = Range(kids[m])
  BY <1>5, <1>6, <1>7, <1>8
<1>10. Attached' \subseteq Attached \cup {n}
  <2>1. Leads(kids', Attached \cup {n})
    BY <1>4, <1>5, <1>9 DEF Leads
  <2>2. Attached \cup {n} \in SUBSET Node /\ Top \in Attached \cup {n}
    BY <1>4, <1>5
  <2> QED
    BY <1>3, <2>1, <2>2, ReachLeast
<1>11. Attached \subseteq Attached'
  <2>1. Leads(kids, Attached \cap Attached')
    BY <1>1, <1>4, <1>9 DEF Leads
  <2>2. Attached \subseteq Attached \cap Attached'
    BY <1>3, <1>4, <2>1, ReachLeast
  <2> QED
    BY <2>2
<1>12. dirty' = dirty \cup ({p} \cap subs) /\ retired' = retired
  BY <1>2 DEF Changed
<1>13. n \in Attached'
  BY <1>1, <1>4, <1>9, <1>11 DEF Leads
<1>14. \A m \in Node : Range(kids'[m]) \subseteq Range(kids[m]) \cup (IF m = p THEN {n} ELSE {})
  BY <1>9
<1> QED
  BY <1>1, <1>4, <1>5, <1>9, <1>10, <1>11, <1>12, <1>13, <1>14 DEF Keeps

\* All that is cut off is retired.
LEMMA RemoveKeeps == ASSUME PageTyped, PageTyped', RemoveNode PROVE Keeps
<1>1. PICK n \in Attached \ {Top} : \E i \in DOMAIN kids[Parent(n)] :
        LET gone == Below(Page, n)
        IN  /\ kids[Parent(n)][i] = n
            /\ kids' = [m \in Node |-> IF m \in gone THEN <<>>
                                       ELSE IF m = Parent(n) THEN RemoveAt(kids[Parent(n)], i)
                                       ELSE kids[m]]
            /\ retired' = retired \cup gone
            /\ dirty' = (dirty \cup ({Parent(n)} \cap subs)) \ gone
  BY DEF RemoveNode
<1> DEFINE up   == Parent(n)
           gone == Below(Page, n)
<1>2. PICK i \in DOMAIN kids[up] :
        /\ kids[up][i] = n
        /\ kids' = [m \in Node |-> IF m \in gone THEN <<>>
                                   ELSE IF m = up THEN RemoveAt(kids[up], i) ELSE kids[m]]
        /\ retired' = retired \cup gone
        /\ dirty' = (dirty \cup ({up} \cap subs)) \ gone
  BY <1>1
<1>3. /\ kids \in [Node -> Seq(Node)] /\ kids' \in [Node -> Seq(Node)]
      /\ dirty \subseteq subs /\ subs \subseteq Node /\ Top \in Node
      /\ Attached = Reach(kids, Top) /\ Attached' = Reach(kids', Top)
  BY AttachedIsReach, AttachedIsReachNext, SnapshotsKnown DEF PageTyped
<1>4. /\ Attached \subseteq Node /\ Top \in Attached /\ Leads(kids, Attached)
      /\ Attached' \subseteq Node /\ Top \in Attached' /\ Leads(kids', Attached')
  BY <1>3, ReachClosed
<1>5. gone = Reach(kids, n) /\ n \in gone /\ gone \subseteq Node /\ Leads(kids, gone)
  <2>1. n \in Node /\ gone = Reach(kids, n)
    BY <1>4, PageReach
  <2> QED
    BY <1>3, <2>1, ReachClosed
<1> HIDE DEF up, gone
<1>6. ASSUME NEW m \in Node
      PROVE  /\ m \in gone => Range(kids'[m]) = {}
             /\ Range(kids'[m]) \subseteq Range(kids[m])
             /\ m \notin gone => Range(kids[m]) \subseteq Range(kids'[m]) \cup {n}
  <2>1. Range(<<>>) = {}
    BY DEF Range
  <2>2. CASE m \notin gone /\ m = up
    <3>1. kids'[m] = RemoveAt(kids[m], i) /\ kids[m] \in Seq(Node) /\ i \in DOMAIN kids[m]
      BY <1>2, <1>3, <2>2
    <3> QED
      BY <1>2, <2>2, <3>1, RangeOfRemove
  <2>3. CASE m \in gone
    BY <1>2, <2>1, <2>3
  <2>4. CASE m \notin gone /\ m # up
    BY <1>2, <2>4
  <2> QED
    BY <2>2, <2>3, <2>4
<1>7. Attached' \subseteq Attached
  <2>1. Leads(kids', Attached)
    BY <1>4, <1>6 DEF Leads
  <2> QED
    BY <1>3, <1>4, <2>1, ReachLeast
<1>8. Attached \subseteq Attached' \cup gone
  <2> DEFINE rest == Attached \cap (Attached' \cup gone)
  <2>1. Leads(kids, rest)
    BY <1>4, <1>5, <1>6 DEF Leads
  <2>2. Top \in rest /\ rest \in SUBSET Node
    BY <1>4
  <2> HIDE DEF rest
  <2>3. Attached \subseteq rest
    BY <1>3, <2>1, <2>2, ReachLeast
  <2> QED
    BY <2>3 DEF rest
<1> QED
  BY <1>2, <1>3, <1>4, <1>6, <1>7, <1>8 DEF Keeps

\* What is moved does not lead to where it is moved to, so that the same nodes stay
\* attached.
LEMMA MoveKeeps == ASSUME PageTyped, PageTyped', MoveNode PROVE Keeps
<1>1. PICK n \in Attached \ {Top} : \E q \in Attached \ Below(Page, n), i \in DOMAIN kids[Parent(n)] :
        /\ kids[Parent(n)][i] = n
        /\ kids' = [[kids EXCEPT ![Parent(n)] = RemoveAt(@, i)] EXCEPT ![q] = Append(@, n)]
        /\ Changed({q, Parent(n)}) /\ UNCHANGED <<meta, retired>>
  BY DEF MoveNode
<1> DEFINE up   == Parent(n)
           tree == Below(Page, n)
<1>2. PICK q \in Attached \ tree : \E i \in DOMAIN kids[up] :
        /\ kids[up][i] = n
        /\ kids' = [[kids EXCEPT ![up] = RemoveAt(@, i)] EXCEPT ![q] = Append(@, n)]
        /\ Changed({q, up}) /\ UNCHANGED <<meta, retired>>
  BY <1>1
<1>3. PICK i \in DOMAIN kids[up] :
        /\ kids[up][i] = n
        /\ kids' = [[kids EXCEPT ![up] = RemoveAt(@, i)] EXCEPT ![q] = Append(@, n)]
        /\ Changed({q, up}) /\ UNCHANGED <<meta, retired>>
  BY <1>2
<1>4. /\ kids \in [Node -> Seq(Node)] /\ kids' \in [Node -> Seq(Node)]
      /\ dirty \subseteq subs /\ subs \subseteq Node /\ Top \in Node
      /\ Attached = Reach(kids, Top) /\ Attached' = Reach(kids', Top)
  BY AttachedIsReach, AttachedIsReachNext, SnapshotsKnown DEF PageTyped
<1>5. /\ Attached \subseteq Node /\ Top \in Attached /\ Leads(kids, Attached)
      /\ Attached' \subseteq Node /\ Top \in Attached' /\ Leads(kids', Attached')
  BY <1>4, ReachClosed
<1>6. n \in Node /\ tree = Reach(kids, n) /\ n \in tree /\ tree \subseteq Node /\ Leads(kids, tree)
  <2>1. n \in Node /\ tree = Reach(kids, n)
    BY <1>5, PageReach
  <2> QED
    BY <1>4, <2>1, ReachClosed
<1>7. q \in Node /\ q \in Attached /\ q \notin tree
  BY <1>2, <1>5
<1> HIDE DEF up, tree
<1>8. ASSUME NEW m \in Node
      PROVE  /\ Range(kids'[m]) \subseteq Range(kids[m]) \cup {n}
             /\ m # q => Range(kids'[m]) \subseteq Range(kids[m])
             /\ Range(kids[m]) \subseteq Range(kids'[m]) \cup {n}
             /\ m = q => n \in Range(kids'[m])
  <2> DEFINE rest == [kids EXCEPT ![up] = RemoveAt(@, i)]
             most == rest[m]
  <2>1. kids' = [rest EXCEPT ![q] = Append(@, n)] /\ DOMAIN rest = Node
    BY <1>3, <1>4
  <2>2. kids'[m] = IF m = q THEN Append(most, n) ELSE most
    <3> HIDE DEF rest
    <3> QED
      BY <2>1
  <2>3. /\ most \in Seq(Node) /\ Range(most) \subseteq Range(kids[m])
        /\ Range(kids[m]) \subseteq Range(most) \cup {n}
    <3>1. CASE m = up
      <4>1. most = RemoveAt(kids[m], i) /\ kids[m] \in Seq(Node) /\ i \in DOMAIN kids[m] /\ kids[m][i] = n
        BY <1>3, <1>4, <3>1
      <4> HIDE DEF most
      <4> QED
        BY <4>1, RangeOfRemove, RemoveAtType
    <3>2. CASE m # up
      BY <1>4, <3>2
    <3> QED
      BY <3>1, <3>2
  <2> HIDE DEF most
  <2>4. Range(Append(most, n)) = Range(most) \cup {n}
    BY <1>6, <2>3, RangeOfAppend
  <2> QED
    BY <2>2, <2>3, <2>4
<1>9. Attached' \subseteq Attached
  <2>1. Leads(kids', Attached)
    BY <1>1, <1>5, <1>8 DEF Leads
  <2> QED
    BY <1>4, <1>5, <2>1, ReachLeast
<1>10. Attached \subseteq Attached' \cup tree
  <2> DEFINE reached == Attached \cap (Attached' \cup tree)
  <2>1. Leads(kids, reached)
    BY <1>5, <1>6, <1>8 DEF Leads
  <2>2. Top \in reached /\ reached \in SUBSET Node
    BY <1>5
  <2> HIDE DEF reached
  <2>3. Attached \subseteq reached
    BY <1>4, <2>1, <2>2, ReachLeast
  <2> QED
    BY <2>3 DEF reached
<1>11. tree \subseteq Attached'
  <2> DEFINE reached == tree \cap Attached'
  <2>1. n \in Attached'
    BY <1>5, <1>7, <1>8, <1>10 DEF Leads
  <2>2. Leads(kids, reached)
    BY <1>5, <1>6, <1>8, <2>1 DEF Leads
  <2>3. n \in reached /\ reached \in SUBSET Node
    BY <1>6, <2>1
  <2> HIDE DEF reached
  <2>4. tree \subseteq reached
    BY <1>6, <2>2, <2>3, ReachLeast
  <2> QED
    BY <2>4 DEF reached
<1>12. dirty' = dirty \cup ({q, up} \cap subs) /\ retired' = retired /\ moved'
  BY <1>3 DEF Changed, MoveNode
<1> QED
  BY <1>5, <1>8, <1>9, <1>10, <1>11, <1>12 DEF Keeps

\* Metadata do not matter.
LEMMA RelabelKeeps == ASSUME PageTyped, PageTyped', RelabelNode PROVE Keeps
<1>1. kids' = kids /\ retired' = retired /\ dirty \subseteq dirty'
  BY DEF RelabelNode, Changed
<1>2. Attached' = Attached /\ Attached \subseteq Node
  BY <1>1, AttachedIsReach, AttachedIsReachNext, ReachClosed, SnapshotsKnown DEF PageTyped
<1> QED
  BY <1>1, <1>2 DEF Keeps

\* A change keeps what has been caught: children that are new to a subscribed node
\* will be reported, and new nodes are not stored.
LEMMA ChangeCInv == ASSUME IInv, IInv', CInv, Change PROVE CInv'
<1>1. PageTyped /\ PageTyped' /\ AllStored
  BY DEF IInv, Typed
<1>2. Keeps
  BY <1>1, InsertKeeps, RemoveKeeps, MoveKeeps, RelabelKeeps DEF Change
<1>3. UNCHANGED <<subs, failed, wire, missed, loads, pageID, nodes, lpc, left, cur, look, spawned, jobs>>
  BY DEF Change, listener, recVars
<1>4. UNCHANGED Unheard /\ (\A k : Stored(k)' <=> Stored(k)) /\ (\A k : Asking(k)' <=> Asking(k))
      /\ (\A k : Storing(k)' <=> Storing(k))
      /\ \A n, k : Reporting(n, k) => Reporting(n, k)' \/ n \in dirty \ dirty'
  BY <1>3 DEF Unheard, Stored, Asking, Storing, Reporting
<1> SUFFICES ASSUME Current' PROVE Caught'
  BY <1>3, <1>4 DEF CInv
<1>5. Caught
  BY <1>3, <1>4 DEF CInv, Current
<1>6. \A k : Known(k) => Known(k)'
  BY <1>2 DEF Keeps, Known
<1>7. StoredKnown'
  BY <1>4, <1>5, <1>6 DEF Caught, StoredKnown
<1>8. \A k \in Attached' : Stored(k) => k \in Attached
  BY <1>2, <1>5 DEF Keeps, Caught, StoredKnown, Known
<1>9. KidsCaught'
  <2> SUFFICES ASSUME NEW n \in (subs \cap Attached') \ failed, NEW k \in Range(kids'[n])
               PROVE  Stored(k)' \/ Reporting(n, k)' \/ Asking(n)' \/ Storing(k)'
    BY <1>3 DEF KidsCaught
  <2>1. n \in Attached
    BY <1>1, <1>8 DEF AllStored
  <2>2. CASE n \in dirty'
    BY <2>2 DEF Reporting
  <2>3. CASE n \notin dirty' /\ k \in Range(kids[n])
    <3>1. n \notin dirty
      BY <1>2, <2>3 DEF Keeps
    <3> QED
      BY <1>4, <1>5, <2>1, <2>3, <3>1 DEF Caught, KidsCaught
  <2> QED
    BY <1>2, <2>1, <2>2, <2>3 DEF Keeps
<1>10. StoredAsked'
  BY <1>3, <1>4, <1>5, <1>8 DEF Caught, StoredAsked
<1>11. RootsStored' /\ JobsOK' /\ Stored(Top)'
  BY <1>3, <1>4, <1>5, <1>6 DEF Caught, RootsStored, JobsOK, JobOK
<1> QED
  BY <1>7, <1>9, <1>10, <1>11 DEF Caught
-----------------------------------------------------------------------------
(* Steps of the listener.                                                  *)

\* What a step keeps that leaves the page and the subscriptions alone: what it
\* stores it is about to ask for, and what was on its way stays so or arrives.
LEMMA StepCInv ==
    ASSUME IInv, IInv', CInv,
           UNCHANGED <<page, subs, missed, loads, pageID>>,
           Unheard <= Len(wire'), lpc' = "start" => lpc = "start",
           \A k \in Node : Stored(k) => Stored(k)',
           Caught =>
              /\ \A k \in Node : Stored(k)' => Stored(k) \/ (Known(k) /\ Asking(k)')
              /\ \A n \in Node : Asking(n) => Asking(n)'
              /\ \A k \in Node : Storing(k) => Storing(k)' \/ Stored(k)'
              /\ \A n \in Node : \A k \in Range(kids[n]) :
                    Reporting(n, k) => Reporting(n, k)' \/ Stored(k)' \/ Asking(n)'
              /\ \A c \in spawned' : c \in spawned \/ Stored(c.root.id)
              /\ \A j \in jobs' : j \in jobs \/ JobOK(j)
    PROVE  CInv'
<1>1. Attached' = Attached /\ Attached \subseteq Node /\ Leads(kids, Attached) /\ Top \in Node
      /\ UNCHANGED <<kids, subs, failed>>
  BY AttachedIsReach, AttachedIsReachNext, ReachClosed, SnapshotsKnown
     DEF IInv, Typed, PageTyped, page
<1>2. UNCHANGED <<Unheard, retired>>
  BY DEF Unheard, page
<1>3. \A k : Known(k)' <=> Known(k)
  BY <1>1, <1>2 DEF Known
<1> SUFFICES ASSUME Current' PROVE Caught'
  BY <1>2 DEF CInv
<1>4. Caught
  BY <1>2 DEF CInv, Current
<1>5. Stored(Top)'
  BY <1>1, <1>4 DEF Caught
<1>6. KidsCaught'
  <2> SUFFICES ASSUME NEW n \in (subs \cap Attached) \ failed, NEW k \in Range(kids[n])
               PROVE  Stored(k)' \/ Reporting(n, k)' \/ Asking(n)' \/ Storing(k)'
    BY <1>1 DEF KidsCaught
  <2>1. n \in Node /\ k \in Node
    BY <1>1 DEF Leads
  <2>2. Stored(k) \/ Reporting(n, k) \/ Asking(n) \/ Storing(k)
    BY <1>4 DEF Caught, KidsCaught
  <2> QED
    BY <1>4, <2>1, <2>2
<1>7. StoredAsked'
  <2> SUFFICES ASSUME NEW k \in Attached, Stored(k)' PROVE k \in subs \/ k \in failed \/ Asking(k)'
    BY <1>1 DEF StoredAsked
  <2> QED
    BY <1>1, <1>4 DEF Caught, StoredAsked
<1>8. StoredKnown'
  BY <1>3, <1>4 DEF Caught, StoredKnown
<1>9. RootsStored'
  <2> SUFFICES ASSUME NEW c \in spawned' PROVE Stored(c.root.id)'
    BY DEF RootsStored
  <2>1. c.root.id \in Node
    BY DEF IInv, Typed, WorkerTyped, Snapshots
  <2> QED
    BY <1>4, <2>1 DEF Caught, RootsStored
<1>10. JobsOK'
  <2> SUFFICES ASSUME NEW j \in jobs' PROVE JobOK(j)'
    BY DEF JobsOK
  <2>1. JobOK(j)
    BY <1>4 DEF Caught, JobsOK
  <2> QED
    BY <1>3, <2>1 DEF JobOK
<1> QED
  BY <1>5, <1>6, <1>7, <1>8, <1>9, <1>10 DEF Caught

\* A report has the children of the node as they are.
LEMMA ReportCInv == ASSUME IInv, IInv', CInv, Report PROVE CInv'
<1> DEFINE msg == [type |-> "update", nodes |-> {Snap(n) : n \in dirty}]
<1>1. wire' = Append(wire, msg) /\ wire \in Seq(Messages) /\ msg \in Messages
  BY SnapType DEF Report, IInv, Typed, PageTyped, Messages
<1>2. /\ Len(wire) \in Nat /\ Len(wire') = Len(wire) + 1 /\ wire'[Len(wire) + 1] = msg
      /\ \A i \in 1..Len(wire) : wire'[i] = wire[i]
  BY <1>1, WireAppend, LenProperties
<1>3. UNCHANGED <<page, subs, missed, loads, pageID, nodes, lpc, left, cur, look, spawned, jobs>>
  BY DEF Report, listener, recVars
<1>4. msg.type = "update" /\ \A n \in dirty : \E s \in msg.nodes : s.id = n /\ s.kids = kids[n]
  <2>1. \A n \in dirty : Snap(n) \in msg.nodes
    OBVIOUS
  <2>2. \A n : Snap(n).id = n /\ Snap(n).kids = kids[n]
    BY DEF Snap
  <2> QED
    BY <2>1, <2>2
<1> HIDE DEF msg
<1>5. \A k : /\ Stored(k)' <=> Stored(k)
             /\ Asking(k)' <=> Asking(k)
             /\ Storing(k)' <=> Storing(k)
  BY <1>3 DEF Stored, Asking, Storing
<1>6. ASSUME NEW n, NEW k \in Range(kids[n]), Reporting(n, k) PROVE Reporting(n, k)'
  <2>1. CASE n \in dirty
    <3>1. Len(wire) + 1 \in 1..Len(wire')
      BY <1>2
    <3> QED
      BY <1>2, <1>4, <2>1, <3>1 DEF Reporting
  <2>2. CASE \E i \in 1..Len(wire) : /\ wire[i].type = "update"
                                     /\ \E s \in wire[i].nodes : s.id = n /\ k \in Range(s.kids)
    <3>1. \A i \in 1..Len(wire) : i \in 1..Len(wire') /\ wire'[i] = wire[i]
      BY <1>2
    <3> QED
      BY <2>2, <3>1 DEF Reporting
  <2> QED
    BY <1>3, <1>6, <2>1, <2>2 DEF Reporting
<1>7. Unheard <= Len(wire')
  BY <1>2 DEF CInv, Unheard, IInv, Typed, NumbersTyped
<1> QED
  BY <1>3, <1>5, <1>6, <1>7, StepCInv

\* Receiving an update puts its nodes on the list of those to be reconciled.
LEMMA ReceiveUpdateCInv == ASSUME IInv, IInv', CInv, ReceiveUpdate PROVE CInv'
<1>1. wire \in Seq(Messages) /\ wire # <<>> /\ wire' = Tail(wire) /\ Head(wire).type = "update"
  BY DEF ReceiveUpdate, IInv, Typed, PageTyped
<1>2. /\ Len(wire) \in Nat /\ Len(wire') = Len(wire) - 1 /\ Len(wire) > 0 /\ Head(wire) = wire[1]
      /\ \A i \in 1..Len(wire') : wire'[i] = wire[i + 1]
  BY <1>1, WireTail, LenProperties
<1>3. /\ UNCHANGED <<page, subs, dirty, missed, loads, pageID, nodes, cur, look, spawned, jobs>>
      /\ left' = wire[1].nodes /\ lpc' = "reconcile" /\ lpc = "idle"
  BY <1>2 DEF ReceiveUpdate
<1>4. \A k : /\ Stored(k)' <=> Stored(k)
             /\ Asking(k)' <=> Asking(k)
             /\ Storing(k)' <=> Storing(k)
  BY <1>3 DEF Stored, Asking, Storing
<1>5. ASSUME NEW n, NEW k, Reporting(n, k) PROVE Reporting(n, k)'
  <2>1. CASE \E i \in 1..Len(wire) : /\ wire[i].type = "update"
                                     /\ \E s \in wire[i].nodes : s.id = n /\ k \in Range(s.kids)
    <3>1. PICK i \in 1..Len(wire) : /\ wire[i].type = "update"
                                    /\ \E s \in wire[i].nodes : s.id = n /\ k \in Range(s.kids)
      BY <2>1
    <3>2. CASE i = 1
      BY <1>3, <3>1, <3>2 DEF Reporting
    <3>3. CASE i # 1
      <4>1. i - 1 \in 1..Len(wire') /\ wire'[i - 1] = wire[i]
        BY <1>2, <3>3
      <4> QED
        BY <3>1, <4>1 DEF Reporting
    <3> QED
      BY <3>2, <3>3
  <2> QED
    BY <1>3, <1>5, <2>1 DEF Reporting
<1>6. Unheard <= Len(wire')
  <2>1. Unheard \in Nat
    BY DEF IInv, Typed, NumbersTyped, Unheard
  <2>2. LoadsLast /\ wire[1].type # "load" /\ 1 \in 1..Len(wire)
    BY <1>1, <1>2 DEF IInv, InOrder
  <2>3. ~ (1 > Len(wire) - Unheard)
    BY <2>2 DEF LoadsLast
  <2> QED
    BY <1>2, <2>1, <2>3
<1> QED
  BY <1>3, <1>4, <1>5, <1>6, StepCInv

\* reconcile starts a subscription, or finds every child stored.
LEMMA ReconcileCInv == ASSUME IInv, IInv', CInv, Pick \/ LookUp \/ Compare PROVE CInv'
<1>1. UNCHANGED <<browser, pageID, nodes, jobs>>
  BY DEF Pick, LookUp, Compare, listenerRest
<1>2. UNCHANGED <<page, subs, missed, loads, pageID, dirty, wire>>
  BY <1>1 DEF browser, page
<1>3. \A k : (Stored(k)' <=> Stored(k)) /\ (Storing(k)' <=> Storing(k))
  BY <1>1 DEF Stored, Storing
<1>4. Unheard <= Len(wire')
  BY <1>2 DEF CInv
<1>5. CASE Pick
  <2>1. PICK s \in left : left' = left \ {s} /\ cur' = s /\ look' = s.kids
    BY <1>5 DEF Pick
  <2>2. lpc = "reconcile" /\ lpc' = "look" /\ UNCHANGED spawned
    BY <1>5 DEF Pick
  <2>3. \A n : Asking(n)' <=> Asking(n)
    BY <1>1, <2>2 DEF Asking
  <2>4. \A n, k : Reporting(n, k) => Reporting(n, k)'
    BY <1>2, <2>1, <2>2 DEF Reporting
  <2> QED
    BY <1>1, <1>2, <1>3, <1>4, <2>2, <2>3, <2>4, StepCInv
<1>6. CASE LookUp
  <2>1. /\ lpc = "look" /\ look # <<>> /\ look' = Tail(look) /\ UNCHANGED <<lpc, left, cur>>
        /\ \/ nodes[Head(look)] = Absent /\ spawned' = spawned \cup {[by |-> Head(look), root |-> cur]}
           \/ nodes[Head(look)] # Absent /\ UNCHANGED spawned
    BY <1>6 DEF LookUp
  <2>2. look \in Seq(Node) /\ Stored(cur.id)
    BY <2>1 DEF IInv, Typed, WorkerTyped, AllStored
  <2>3. \A k \in Range(look) : k = Head(look) \/ k \in Range(Tail(look))
    BY <2>1, <2>2, RangeOfTail
  <2>4. \A n : Asking(n) => Asking(n)'
    BY <1>1, <2>1 DEF Asking
  <2>5. Stored(Head(look)) \/ Asking(cur.id)'
    <3> DEFINE call == [by |-> Head(look), root |-> cur]
    <3>1. Stored(Head(look)) \/ call \in spawned'
      BY <2>1 DEF Stored
    <3>2. call.root.id = cur.id
      OBVIOUS
    <3> HIDE DEF call
    <3> QED
      BY <2>1, <3>1, <3>2 DEF Asking
  <2>6. ASSUME NEW n, NEW k, Reporting(n, k) PROVE Reporting(n, k)' \/ Stored(k)' \/ Asking(n)'
    <3>1. CASE lpc = "look" /\ cur.id = n /\ k \in Range(look)
      <4>1. CASE Stored(Head(look))
        BY <1>3, <2>1, <2>3, <3>1, <4>1 DEF Reporting
      <4>2. CASE Asking(cur.id)'
        BY <2>1, <3>1, <4>2
      <4> QED
        BY <2>5, <4>1, <4>2
    <3> QED
      BY <1>2, <2>1, <2>6, <3>1 DEF Reporting
  <2>7. \A c \in spawned' : c \in spawned \/ Stored(c.root.id)
    BY <2>1, <2>2
  <2> QED
    BY <1>1, <1>2, <1>3, <1>4, <2>1, <2>4, <2>6, <2>7, StepCInv
<1>7. CASE Compare
  <2>1. lpc = "look" /\ look = <<>> /\ lpc' \in {"overwrite", "reconcile"} /\ UNCHANGED <<left, spawned>>
    BY <1>7 DEF Compare, recVars
  <2>2. \A n : Asking(n)' <=> Asking(n)
    BY <1>1, <2>1 DEF Asking
  <2>3. Range(<<>>) = {}
    BY DEF Range
  <2>4. \A n, k : Reporting(n, k) => Reporting(n, k)'
    BY <1>2, <2>1, <2>3 DEF Reporting
  <2> QED
    BY <1>1, <1>2, <1>3, <1>4, <2>1, <2>2, <2>4, StepCInv
<1> QED
  BY <1>5, <1>6, <1>7

\* Overwriting what is stored, and steps that are not about coverage.
LEMMA OverwriteCInv == ASSUME IInv, IInv', CInv, Overwrite PROVE CInv'
<1>1. UNCHANGED <<browser, pageID, left, spawned, jobs>> /\ lpc = "overwrite" /\ lpc' # "start"
      /\ (UNCHANGED nodes \/ nodes' = [nodes EXCEPT ![cur.id] = cur])
      /\ lpc' \in {"reconcile", "panicked"}
  BY DEF Overwrite, listenerRest, recVars, UpdateNode
<1>2. UNCHANGED <<page, subs, missed, loads, pageID, dirty, wire>>
  BY <1>1 DEF browser, page
<1>3. lpc' = "reconcile"
  BY <1>1 DEF IInv, NoPanic, Overwrite, WorkerTyped
<1>4. \A k \in Node : Stored(k)' <=> Stored(k)
  <2>1. nodes \in [Node -> Snapshots \cup {Absent}] /\ cur \in Snapshots /\ nodes[cur.id] # Absent
    BY <1>1 DEF IInv, Typed, WorkerTyped, AllStored, Stored
  <2>2. cur # Absent
    BY <2>1, SnapshotsKnown
  <2> QED
    BY <1>1, <2>1, <2>2 DEF Stored
<1>5. \A n : (Asking(n)' <=> Asking(n)) /\ (Storing(n)' <=> Storing(n))
  BY <1>1 DEF Asking, Storing
<1>6. \A n, k : Reporting(n, k) => Reporting(n, k)'
  BY <1>1, <1>2, <1>3 DEF Reporting
<1> QED
  BY <1>1, <1>2, <1>3, <1>4, <1>5, <1>6, StepCInv DEF CInv

\* Steps that neither store, ask, report nor change the page leave nothing out.
LEMMA OtherCInv ==
    ASSUME IInv, IInv', CInv, Subscribe \/ Emit \/ Stop \/ Consume \/ UNCHANGED vars
    PROVE  CInv'
<1>1. /\ UNCHANGED <<browser, pageID, nodes, left, cur, look, spawned, jobs>>
      /\ lpc' = "start" => lpc = "start"
      /\ lpc = "look" => lpc' = "look"
      /\ lpc = "overwrite" => lpc' = "overwrite"
      /\ lpc = "reconcile" => lpc' = "reconcile" \/ left = {}
  BY DEF Subscribe, Emit, WaitPassed, Stop, Consume, vars, listenerRest, listener, recVars
<1>2. UNCHANGED <<page, subs, missed, loads, pageID, dirty, wire>>
  BY <1>1 DEF browser, page
<1>3. \A n : (Stored(n)' <=> Stored(n)) /\ (Asking(n)' <=> Asking(n)) /\ (Storing(n)' <=> Storing(n))
  BY <1>1 DEF Stored, Asking, Storing
<1>4. \A n, k : Reporting(n, k) => Reporting(n, k)'
  BY <1>1, <1>2 DEF Reporting
<1> QED
  BY <1>1, <1>2, <1>3, <1>4, StepCInv DEF CInv
-----------------------------------------------------------------------------
(* Steps of a subscription.                                                *)

\* The root of a call is asked for.
LEMMA StartCallCInv == ASSUME IInv, IInv', CInv, StartCall PROVE CInv'
<1>1. PICK c \in spawned :
        /\ spawned' = spawned \ {c} /\ UpdateNode(c.root)
        /\ jobs' = jobs \cup {NewJob(<<c.root.id, c.by>>, pageID, c.root.id)}
        /\ UNCHANGED <<listenerRest, pageID, lpc, recVars>>
  BY DEF StartCall
<1> DEFINE new == NewJob(<<c.root.id, c.by>>, pageID, c.root.id)
<1>2. new.id = c.root.id /\ new.todo = {} /\ new.targets = {}
  BY DEF NewJob
<1>3. jobs' = jobs \cup {new}
  BY <1>1
<1> HIDE DEF new
<1>4. UNCHANGED <<page, subs, missed, loads, pageID, dirty, wire, lpc, left, cur, look>>
  BY <1>1 DEF listenerRest, browser, page, recVars
<1>5. /\ c.root.id \in Node
      /\ \A k \in Node : k # c.root.id => (Stored(k)' <=> Stored(k))
      /\ \A k \in Node : Stored(k) => Stored(k)'
  <2>1. c.root \in Snapshots /\ nodes \in [Node -> Snapshots \cup {Absent}]
    BY DEF IInv, Typed, WorkerTyped
  <2>2. nodes' = [nodes EXCEPT ![c.root.id] = c.root] /\ c.root.id \in Node /\ c.root # Absent
    BY <1>1, <2>1, SnapshotsKnown DEF UpdateNode, Snapshots
  <2> QED
    BY <2>1, <2>2 DEF Stored
<1>6. Caught => \A k \in Node : Stored(k)' => Stored(k)
  BY <1>5 DEF Caught, RootsStored
<1>7. \A n : Asking(n) => Asking(n)'
  BY <1>1, <1>2, <1>3 DEF Asking
<1>8. \A k : Storing(k) => Storing(k)'
  BY <1>3 DEF Storing
<1>9. \A n, k : Reporting(n, k) => Reporting(n, k)'
  BY <1>4 DEF Reporting
<1>10. \A j \in jobs' : j \in jobs \/ JobOK(j)
  BY <1>2, <1>3 DEF JobOK
<1> QED
  BY <1>1, <1>4, <1>5, <1>6, <1>7, <1>8, <1>9, <1>10, StepCInv DEF CInv

\* What a job that is over goes on to ask for.
LEMMA DoneAsks ==
    ASSUME NEW j, NEW ts
    PROVE  /\ \A k \in Done(j, ts) : k \in jobs \ {j} \/ (k.todo = {} /\ k.targets = {})
           /\ \A k \in jobs \ {j} : k \in Done(j, ts)
           /\ \A t \in ts : \E k \in Done(j, ts) : k.id = t /\ k.todo = {}
<1>1. \A id : /\ NewJob(j.call, j.pid, id).id = id
              /\ NewJob(j.call, j.pid, id).todo = {}
              /\ NewJob(j.call, j.pid, id).targets = {}
  BY DEF NewJob
<1> HIDE DEF NewJob
<1> QED
  BY <1>1 DEF Done

\* A snapshot is stored: that of a node not stored before makes it a target.
LEMMA StoreCInv == ASSUME IInv, IInv', CInv, Store PROVE CInv'
<1>1. PICK j \in jobs :
        /\ j.todo # {}
        /\ IF Stale(j.pid)
           THEN jobs' = Done(j, j.targets) /\ UNCHANGED nodes
           ELSE \E n \in j.todo :
                   LET targets == IF nodes[n.id] = Absent THEN j.targets \cup {n.id}
                                  ELSE j.targets
                   IN  /\ UpdateNode(n)
                       /\ jobs' = IF j.todo = {n} THEN Done(j, targets)
                                  ELSE (jobs \ {j}) \cup
                                       {[j EXCEPT !.todo = @ \ {n}, !.targets = targets]}
        /\ UNCHANGED <<listenerRest, pageID, lpc, recVars, spawned>>
  BY DEF Store
<1>2. j \in Jobs /\ ~Stale(j.pid) /\ j.todo \subseteq Snapshots
  BY <1>1 DEF IInv, Typed, WorkerTyped, NeverStale, Jobs
<1>3. PICK n \in j.todo :
        LET targets == IF nodes[n.id] = Absent THEN j.targets \cup {n.id} ELSE j.targets
        IN  /\ UpdateNode(n)
            /\ jobs' = IF j.todo = {n} THEN Done(j, targets)
                       ELSE (jobs \ {j}) \cup
                            {[j EXCEPT !.todo = @ \ {n}, !.targets = targets]}
  BY <1>1, <1>2
<1> DEFINE targets == IF nodes[n.id] = Absent THEN j.targets \cup {n.id} ELSE j.targets
           rest    == [j EXCEPT !.todo = @ \ {n}, !.targets = targets]
<1>4. /\ rest.id = j.id /\ rest.todo = j.todo \ {n} /\ rest.targets = targets
      /\ j.targets \subseteq targets /\ (nodes[n.id] = Absent => n.id \in targets)
  BY <1>2 DEF Jobs
<1>5. jobs' = IF j.todo = {n} THEN Done(j, targets) ELSE (jobs \ {j}) \cup {rest}
  BY <1>3
<1> HIDE DEF targets, rest
<1>6. UNCHANGED <<page, subs, missed, loads, pageID, dirty, wire, lpc, left, cur, look, spawned>>
  BY <1>1 DEF listenerRest, browser, page, recVars
<1>7. /\ n.id \in Node /\ Stored(n.id)'
      /\ \A k \in Node : k # n.id => (Stored(k)' <=> Stored(k))
      /\ \A k \in Node : Stored(k) => Stored(k)'
  <2>1. n \in Snapshots /\ nodes \in [Node -> Snapshots \cup {Absent}]
    BY <1>2 DEF IInv, Typed, WorkerTyped
  <2>2. nodes' = [nodes EXCEPT ![n.id] = n] /\ n.id \in Node /\ n # Absent
    BY <1>3, <2>1, SnapshotsKnown DEF UpdateNode, Snapshots
  <2> QED
    BY <2>1, <2>2 DEF Stored
<1>8. j.todo # {n} => rest.todo # {}
  BY <1>4
<1>9. \A t \in targets : Asking(t)'
  <2>1. CASE jobs' = Done(j, targets)
    BY <2>1, DoneAsks DEF Asking
  <2>2. CASE jobs' = (jobs \ {j}) \cup {rest}
    BY <1>4, <2>2 DEF Asking
  <2> QED
    BY <1>5, <2>1, <2>2
<1>10. \A k \in jobs \ {j} : k \in jobs'
  BY <1>5, DoneAsks
<1>11. \A m : Asking(m) => Asking(m)'
  BY <1>1, <1>4, <1>6, <1>9, <1>10 DEF Asking
<1>12. \A k : Storing(k) => Storing(k)' \/ Stored(k)'
  <2> SUFFICES ASSUME NEW k, NEW h \in jobs, NEW s \in h.todo, s.id = k
               PROVE  Storing(k)' \/ Stored(k)'
    BY DEF Storing
  <2>1. CASE h # j
    BY <1>10, <2>1 DEF Storing
  <2>2. CASE s = n
    BY <1>7, <2>2
  <2>3. CASE h = j /\ s # n
    <3>1. rest \in jobs' /\ s \in rest.todo
      BY <1>4, <1>5, <2>3
    <3> QED
      BY <1>8, <3>1 DEF Storing
  <2> QED
    BY <2>1, <2>2, <2>3
<1>13. \A m, k : Reporting(m, k) => Reporting(m, k)'
  BY <1>6 DEF Reporting
<1>14. Caught => JobOK(j)
  BY DEF Caught, JobsOK
<1>15. Caught => \A k \in Node : Stored(k)' => Stored(k) \/ (Known(k) /\ Asking(k)')
  <2>1. Stored(n.id) \/ Asking(n.id)'
    BY <1>4, <1>9 DEF Stored
  <2>2. Caught => Known(n.id)
    BY <1>1, <1>14 DEF JobOK
  <2> QED
    BY <1>7, <2>1, <2>2
<1>16. Caught => \A h \in jobs' : h \in jobs \/ JobOK(h)
  <2>1. Caught /\ j.todo # {n} => JobOK(rest)
    BY <1>1, <1>4, <1>8, <1>14 DEF JobOK
  <2>2. \A h \in Done(j, targets) : h \in jobs \/ JobOK(h)
    BY DoneAsks DEF JobOK
  <2> QED
    BY <1>5, <2>1, <2>2
<1> QED
  BY <1>6, <1>7, <1>11, <1>12, <1>13, <1>15, <1>16, StepCInv DEF CInv

\* The browser answers for a node that is attached, and from then on all its
\* children are on their way; or the request fails, which is recorded unless the
\* node is not in the page.
LEMMA AnswerCInv == ASSUME IInv, IInv', CInv, Answer PROVE CInv'
<1>1. PICK j \in jobs : j.todo = {} /\ (Succeed(j) \/ FailRequest(j))
  BY DEF Answer
<1>2. UNCHANGED <<content, dirty, wire, missed, loads, pageID, nodes, lpc, left, cur, look, spawned>>
  BY DEF Answer, recVars
<1>3. /\ Attached' = Attached /\ Attached \subseteq Node /\ Leads(kids, Attached)
      /\ UNCHANGED <<kids, retired>>
  BY <1>2, AttachedIsReach, AttachedIsReachNext, ReachClosed, SnapshotsKnown
     DEF IInv, Typed, PageTyped, content
<1>4. UNCHANGED Unheard /\ (\A k : Stored(k)' <=> Stored(k)) /\ (\A k : Known(k)' <=> Known(k))
      /\ \A n, k : Reporting(n, k)' <=> Reporting(n, k)
  BY <1>2, <1>3 DEF Unheard, Stored, Known, Reporting
<1> SUFFICES ASSUME Current' PROVE Caught'
  BY <1>2, <1>4 DEF CInv
<1>5. Caught /\ Unheard = 0
  BY <1>2, <1>4 DEF CInv, Current
<1>6. j \in Jobs /\ j.pid + missed = loads /\ j.id \in Node
  <2>1. j \in Jobs /\ j.pid = pageID
    BY DEF IInv, Typed, WorkerTyped, NeverStale, Stale
  <2> QED
    BY <1>5, <2>1 DEF Jobs, Unheard, IInv, Typed, NumbersTyped
<1>7. j.targets = {}
  BY <1>1, <1>5 DEF Caught, JobsOK, JobOK
<1> DEFINE asked == [j EXCEPT !.todo = {Snap(n) : n \in Range(kids[j.id])}]
<1>8. asked.todo = {Snap(n) : n \in Range(kids[j.id])} /\ asked.targets = {}
  BY <1>6, <1>7 DEF Jobs
<1>9. \/ jobs' = Done(j, {})
      \/ jobs' = (jobs \ {j}) \cup {asked}
  BY <1>1 DEF Succeed, FailRequest
<1>10. j.id \in Attached =>
         \/ /\ subs' = subs \cup {j.id} /\ failed' = failed \ {j.id}
            /\ kids[j.id] = <<>> \/ asked \in jobs'
         \/ subs \subseteq subs' /\ subs' \subseteq subs \cup {j.id} /\ failed' = failed \cup {j.id}
  BY <1>1, <1>6 DEF Succeed, FailRequest, Askable
<1>11. j.id \notin Attached => subs' = subs /\ failed' = failed /\ jobs' = Done(j, {})
  BY <1>1 DEF Succeed, FailRequest, Askable
<1> HIDE DEF asked
<1>12. \A h \in jobs \ {j} : h \in jobs'
  BY <1>9, DoneAsks
<1>13. \A m : Asking(m) => Asking(m)' \/ m = j.id
  BY <1>2, <1>7, <1>12 DEF Asking
<1>14. \A k : Storing(k) => Storing(k)'
  BY <1>1, <1>12 DEF Storing
<1>15. KidsCaught'
  <2> SUFFICES ASSUME NEW n \in (subs' \cap Attached) \ failed', NEW k \in Range(kids[n])
               PROVE  Stored(k)' \/ Reporting(n, k)' \/ Asking(n)' \/ Storing(k)'
    BY <1>3 DEF KidsCaught
  <2>1. CASE n # j.id
    <3>1. n \in subs \ failed
      BY <1>10, <1>11, <2>1
    <3>2. Stored(k) \/ Reporting(n, k) \/ Asking(n) \/ Storing(k)
      BY <1>5, <3>1 DEF Caught, KidsCaught
    <3> QED
      BY <1>4, <1>13, <1>14, <2>1, <3>2
  <2>2. CASE n = j.id
    <3>1. Range(<<>>) = {}
      BY DEF Range
    <3>2. asked \in jobs'
      BY <1>10, <2>2, <3>1
    <3>3. k \in Node
      BY <1>3 DEF Leads
    <3>4. Snap(k) \in asked.todo /\ Snap(k).id = k
      BY <1>8, <2>2, <3>3, SnapType DEF IInv, Typed
    <3> QED
      BY <3>2, <3>4 DEF Storing
  <2> QED
    BY <2>1, <2>2
<1>16. StoredAsked'
  <2> SUFFICES ASSUME NEW k \in Attached, Stored(k) PROVE k \in subs' \/ k \in failed' \/ Asking(k)'
    BY <1>3, <1>4 DEF StoredAsked
  <2> QED
    BY <1>5, <1>10, <1>11, <1>13 DEF Caught, StoredAsked
<1>17. JobsOK'
  <2> SUFFICES ASSUME NEW h \in jobs' PROVE JobOK(h)'
    BY DEF JobsOK
  <2>1. JobOK(h)
    <3>1. CASE h \in jobs
      BY <1>5, <3>1 DEF Caught, JobsOK
    <3>2. CASE h \in Done(j, {})
      BY <1>5, <3>2, DoneAsks DEF Caught, JobsOK, JobOK
    <3>3. CASE h = asked /\ h \notin Done(j, {}) /\ h \in jobs'
      <4>1. j.id \in Attached
        BY <1>11, <3>3
      <4>2. \A m \in Range(kids[j.id]) : m \in Attached /\ m \in Node
        BY <1>3, <4>1 DEF Leads
      <4>3. \A s \in asked.todo : Known(s.id)
        BY <1>8, <4>2, SnapType DEF Known, IInv, Typed
      <4> QED
        BY <1>8, <3>3, <4>3 DEF JobOK
    <3> QED
      BY <1>9, <3>1, <3>2, <3>3
  <2> QED
    BY <1>4, <2>1 DEF JobOK
<1>18. Stored(Top)' /\ StoredKnown' /\ RootsStored'
  BY <1>2, <1>4, <1>5 DEF Caught, StoredKnown, RootsStored
<1> QED
  BY <1>15, <1>16, <1>17, <1>18 DEF Caught
-----------------------------------------------------------------------------
(* Pages.                                                                  *)

\* Of every page on its way the root is the same.
IsTop(root) == root.id = Top /\ root.kids = FirstKids[Top]
RootsTop    == \A i \in 1..Len(wire) : wire[i].type = "load" => IsTop(wire[i].root)

\* Every step keeps it: a load carries the root of the page as it is loaded.
LEMMA RootsTopNext == ASSUME IInv, RootsTop, [Next]_vars PROVE RootsTop'
<1>1. wire \in Seq(Messages) /\ Len(wire) \in Nat
  BY LenProperties DEF IInv, Typed, PageTyped
<1>2. ASSUME NEW m \in Messages, wire' = Append(wire, m), m.type = "load" => IsTop(m.root)
      PROVE  RootsTop'
  <2>1. /\ Len(wire') = Len(wire) + 1 /\ wire'[Len(wire) + 1] = m
        /\ \A i \in 1..Len(wire) : wire'[i] = wire[i]
    BY <1>1, <1>2, WireAppend
  <2>2. \A i \in 1..Len(wire') : i \in 1..Len(wire) \/ i = Len(wire) + 1
    BY <1>1, <2>1
  <2> QED
    BY <1>2, <2>1, <2>2 DEF RootsTop
<1>3. ASSUME wire # <<>>, wire' = Tail(wire) PROVE RootsTop'
  <2>1. Len(wire') = Len(wire) - 1 /\ \A i \in 1..Len(wire') : wire'[i] = wire[i + 1]
    BY <1>1, <1>3, WireTail
  <2>2. \A i \in 1..Len(wire') : i + 1 \in 1..Len(wire)
    BY <1>1, <2>1
  <2> QED
    BY <2>1, <2>2 DEF RootsTop
<1>4. CASE Load
  <2> DEFINE msg == [type |-> "load", root |-> [id |-> Top, kids |-> FirstKids[Top], meta |-> FirstMeta]]
  <2>1. msg \in Messages /\ (msg.type = "load" => IsTop(msg.root))
    BY ConstantsOK DEF ConstantsOK, Messages, Snapshots, IsTop
  <2>2. UNCHANGED wire \/ wire' = Append(wire, msg)
    BY <1>4 DEF Load
  <2> HIDE DEF msg
  <2> QED
    BY <1>2, <2>1, <2>2 DEF RootsTop
<1>5. CASE Report
  <2> DEFINE msg == [type |-> "update", nodes |-> {Snap(n) : n \in dirty}]
  <2>1. wire' = Append(wire, msg) /\ msg \in Messages /\ msg.type # "load"
    BY <1>5, SnapType DEF Report, IInv, Typed, PageTyped, Messages
  <2> HIDE DEF msg
  <2> QED
    BY <1>2, <2>1
<1>6. CASE ReceiveLoad \/ ReceiveUpdate
  BY <1>3, <1>6 DEF ReceiveLoad, ReceiveUpdate
<1>7. Change \/ Subscribe \/ Pick \/ LookUp \/ Compare \/ Overwrite \/ Emit \/ Stop \/ StartCall \/ Answer
        \/ Store \/ Consume \/ UNCHANGED vars => UNCHANGED wire
  BY DEF Change, Subscribe, Pick, LookUp, Compare, Overwrite, Emit, Stop, StartCall, Answer, Store,
     Consume, vars, browser, listenerRest
<1>8. UNCHANGED wire => RootsTop'
  BY DEF RootsTop
<1> QED
  BY <1>4, <1>5, <1>6, <1>7, <1>8 DEF Next, Browser, Worker, Subscription

\* A page that has just loaded has not been heard of.
LEMMA LoadCInv == ASSUME IInv, IInv', CInv, Load PROVE CInv'
<1>1. loads' = loads + 1 /\ UNCHANGED <<pageID, lpc>>
  BY DEF Load, listener
<1>2. CASE lpc = "start"
  <2>1. missed' = missed + 1 /\ UNCHANGED wire /\ pageID = 0
    BY <1>2 DEF Load, CInv
  <2>2. Unheard' = Unheard
    BY <1>1, <2>1 DEF Unheard, IInv, Typed, NumbersTyped
  <2> QED
    BY <1>1, <2>1, <2>2 DEF CInv, Current
<1>3. CASE lpc # "start"
  <2> DEFINE msg == [type |-> "load", root |-> [id |-> Top, kids |-> FirstKids[Top], meta |-> FirstMeta]]
  <2>1. UNCHANGED missed /\ wire' = Append(wire, msg) /\ wire \in Seq(Messages)
    BY <1>3 DEF Load, IInv, Typed, PageTyped
  <2>2. msg \in Messages
    BY ConstantsOK DEF ConstantsOK, Messages, Snapshots
  <2> HIDE DEF msg
  <2>3. Len(wire') = Len(wire) + 1 /\ Len(wire) \in Nat
    BY <2>1, <2>2, WireAppend, LenProperties
  <2>4. Unheard' = Unheard + 1 /\ Unheard \in Nat
    BY <1>1, <2>1 DEF Unheard, IInv, Typed, NumbersTyped
  <2> QED
    BY <1>1, <1>3, <2>3, <2>4 DEF CInv, Current
<1> QED
  BY <1>2, <1>3

\* When the listener hears of the page that is loaded it has subscribed to nothing,
\* stores the root and goes on to ask for it.
LEMMA ReceiveLoadCInv == ASSUME IInv, IInv', CInv, RootsTop, ReceiveLoad PROVE CInv'
<1>1. wire \in Seq(Messages) /\ wire # <<>> /\ wire' = Tail(wire) /\ Head(wire).type = "load"
  BY DEF ReceiveLoad, IInv, Typed, PageTyped
<1>2. Len(wire') = Len(wire) - 1 /\ Len(wire) \in Nat /\ Len(wire) > 0 /\ Head(wire) = wire[1]
  BY <1>1, WireTail, LenProperties
<1>3. Head(wire).root.id = Top /\ Head(wire).root \in Snapshots
  <2>1. 1 \in 1..Len(wire) /\ Head(wire) \in Messages
    BY <1>1, <1>2, WireTail
  <2> QED
    BY <1>1, <1>2, <2>1 DEF RootsTop, IsTop, Messages
<1> DEFINE root == Head(wire).root
           call == [by |-> Top, root |-> root]
<1>4. /\ pageID' = pageID + 1 /\ nodes' = [Empty EXCEPT ![root.id] = root]
      /\ spawned' = spawned \cup {call} /\ lpc' = "load" /\ lpc = "idle"
      /\ UNCHANGED <<page, subs, missed, loads, jobs>>
  BY DEF ReceiveLoad, PageReset
<1>5. root.id = Top /\ root # Absent /\ call.root.id = Top /\ Top \in Node
  BY <1>3, SnapshotsKnown
<1> HIDE DEF root, call
<1>6. jobs = {} /\ spawned = {}
  BY <1>4 DEF IInv, NeverStale
<1>7. Unheard \in Nat /\ Unheard > 0 /\ Unheard' = Unheard - 1
  <2>1. Unheard \in Nat /\ Unheard' = Unheard - 1
    BY <1>4 DEF Unheard, IInv, Typed, NumbersTyped
  <2>2. 1 \in 1..Len(wire) /\ 1 > Len(wire) - Unheard
    BY <1>1, <1>2 DEF IInv, InOrder, LoadsLast
  <2> QED
    BY <1>2, <2>1, <2>2
<1>8. Unheard' <= Len(wire')
  BY <1>2, <1>7 DEF CInv
<1>9. \A k \in Node : Stored(k)' <=> k = Top
  BY <1>4, <1>5 DEF Stored, Empty
<1>10. Top \in Attached' /\ Attached' \subseteq Node
  BY AttachedIsReachNext, ReachClosed, SnapshotsKnown DEF IInv, Typed, PageTyped
<1>11. StoredAsked' /\ StoredKnown'
  <2>1. Asking(Top)'
    BY <1>4, <1>5 DEF Asking
  <2> QED
    BY <1>9, <1>10, <2>1 DEF StoredAsked, StoredKnown, Known
<1>12. KidsCaught'
  BY <1>4, <1>7 DEF KidsCaught, IInv, InOrder
<1>13. RootsStored' /\ JobsOK' /\ Stored(Top)'
  BY <1>4, <1>5, <1>6, <1>9 DEF RootsStored, JobsOK
<1> QED
  BY <1>4, <1>8, <1>11, <1>12, <1>13 DEF CInv, Caught
-----------------------------------------------------------------------------
\* At first there is nothing the listener has heard of.
LEMMA InitCInv == Init => CInv /\ RootsTop
  BY DEF Init, CInv, RootsTop, Current, Unheard

\* Every step keeps the invariant.
LEMMA NextCInv == IInv /\ CInv /\ RootsTop /\ [Next]_vars => CInv' /\ RootsTop'
<1> SUFFICES ASSUME IInv, CInv, RootsTop, [Next]_vars PROVE CInv' /\ RootsTop'
  OBVIOUS
<1>1. IInv'
  BY NextIInv
<1>2. RootsTop'
  BY RootsTopNext
<1> QED
  BY <1>1, <1>2, LoadCInv, ChangeCInv, ReportCInv, ReceiveLoadCInv, ReceiveUpdateCInv, ReconcileCInv,
     OverwriteCInv, OtherCInv, StartCallCInv, AnswerCInv, StoreCInv
     DEF Next, Browser, Worker, Subscription

\* When nothing is left to do the root, or a request for it has failed, is among the
\* nodes that are stored and report their changes or are left out, and with each of
\* them its children: they are all of the page.
LEMMA QuietCovered == IInv /\ CInv => Covered
<1> SUFFICES ASSUME IInv, CInv, Quiet
             PROVE  \A n \in Attached \ LeftOut : nodes[n] # Absent /\ n \in subs
  BY DEF Covered
<1>1. lpc = "idle" /\ Len(wire) = 0 /\ wire = <<>> /\ dirty = {} /\ loads > missed
  BY DEF Quiet
<1>2. jobs = {} /\ spawned = {}
  BY <1>1 DEF IInv, NeverStale
<1>3. Current
  BY <1>1 DEF Current, CInv, Unheard, IInv, Typed, NumbersTyped
<1>4. Caught
  BY <1>3 DEF CInv
<1>5. \A n : ~Asking(n) /\ ~Storing(n) /\ \A k : ~Reporting(n, k)
  <2>1. \A i \in 1..Len(wire) : FALSE
    BY <1>1
  <2> QED
    BY <1>1, <1>2, <2>1 DEF Asking, Storing, Reporting
<1>6. Attached = Reach(kids, Top) /\ Top \in Attached /\ Attached \subseteq Node /\ Leads(kids, Attached)
  BY AttachedIsReach, ReachClosed, SnapshotsKnown DEF IInv, Typed, PageTyped
<1>7. LeftOut \subseteq Node /\ Leads(kids, LeftOut) /\ failed \subseteq LeftOut
  <2>1. \A n \in failed : n \in Node /\ Below(Page, n) = Reach(kids, n)
    BY PageReach DEF IInv, Typed, PageTyped
  <2>2. \A n \in failed : n \in Reach(kids, n) /\ Reach(kids, n) \subseteq Node /\ Leads(kids, Reach(kids, n))
    BY <2>1, ReachClosed DEF IInv, Typed, PageTyped
  <2> QED
    BY <2>1, <2>2 DEF LeftOut, Leads
<1> DEFINE have == {n \in Attached : Stored(n) /\ n \in subs} \cup LeftOut
<1>8. \A n \in Attached : Stored(n) => n \in have
  BY <1>4, <1>5, <1>7 DEF Caught, StoredAsked
<1>9. Leads(kids, have)
  <2> SUFFICES ASSUME NEW n \in have, NEW k \in Range(kids[n]) PROVE k \in have
    BY DEF Leads
  <2>1. CASE n \in LeftOut
    BY <1>7, <2>1 DEF Leads
  <2>2. CASE n \notin LeftOut
    <3>1. k \in Attached /\ n \in (subs \cap Attached) \ failed
      BY <1>6, <1>7, <2>2 DEF Leads
    <3>2. Stored(k)
      BY <1>4, <1>5, <3>1 DEF Caught, KidsCaught
    <3> QED
      BY <1>8, <3>1, <3>2
  <2> QED
    BY <2>1, <2>2
<1>10. Top \in have /\ have \in SUBSET Node
  BY <1>4, <1>6, <1>7, <1>8 DEF Caught
<1> HIDE DEF have
<1>11. Attached \subseteq have
  BY <1>6, <1>9, <1>10, ReachLeast
<1> QED
  BY <1>11 DEF have, Stored

\* "correct if eventually all inserted (non-deleted) nodes will have been fetched"
\* (proof/Event.tla): whatever the page inserts, removes, moves or relabels while
\* subscriptions and the event worker are in between two steps, and however many
\* pages load, no node is left out once nothing is left to do, other than those a
\* failed request was for and what is below them.
THEOREM CoveredCorrect == Spec => []Covered
<1>1. Init => IInv /\ CInv /\ RootsTop
  BY InitIInv, InitCInv
<1>2. IInv /\ CInv /\ RootsTop /\ [Next]_vars => (IInv /\ CInv /\ RootsTop)'
  BY NextIInv, NextCInv
<1>3. IInv /\ CInv => Covered
  BY QuietCovered
<1> QED
  BY <1>1, <1>2, <1>3, PTL DEF Spec
-----------------------------------------------------------------------------
(* The stream tells all that the listener knows.                           *)

Forest(f) == f \in [Node -> Snapshots \cup {Absent}]
There(f, n) == f[n] # Absent

\* What the tree that getTreeInner makes has for a node of it.
Entry(f, n) == [f[n] EXCEPT !.kids = Shown(f, n)]

\* Of two nodes in a forest no child is the same, and the root is nobody's.
OneParent(f) ==
    \A m \in Node : There(f, m) =>
        \A k \in Range(f[m].kids) :
            /\ k # Top
            /\ \A o \in Node : There(f, o) /\ k \in Range(f[o].kids) => o = m

\* The nodes below some node of a set.
BelowAny(f, T) == {n \in Node : \E u \in T : n \in Below(f, u)}
-----------------------------------------------------------------------------
(* The trees that getTreeInner makes.                                      *)

\* A set of natural numbers has a least one.
LEMMA Least ==
    ASSUME NEW S \in SUBSET Nat, S # {}
    PROVE  \E n \in S : \A m \in S : n <= m
<1> DEFINE below == {0..n : n \in S}
<1>1. below \subseteq FiniteSubsetsOf(Nat) /\ below # {}
  <2> SUFFICES ASSUME NEW n \in S PROVE 0..n \in SUBSET Nat /\ IsFiniteSet(0..n)
    BY DEF FiniteSubsetsOf
  <2> QED
    BY FS_Interval
<1>2. PICK x \in below : \A y \in below : ~ (<<y, x>> \in StrictSubsetOrdering(Nat))
  <2> HIDE DEF below
  <2> QED
    BY <1>1, FS_StrictSubsetOrderingWellFounded, WFMin
<1>3. PICK n \in S : x = 0..n
  OBVIOUS
<1>4. ASSUME NEW m \in S, m < n PROVE FALSE
  <2>1. 0..m \in below /\ 0..m \in SUBSET Nat /\ 0..n \in SUBSET Nat
    OBVIOUS
  <2>2. 0..m \subseteq 0..n /\ n \in 0..n /\ n \notin 0..m
    BY <1>4
  <2> QED
    BY <1>2, <1>3, <2>1, <2>2 DEF StrictSubsetOrdering
<1> QED
  BY <1>4

\* The children shown are children, and stored.
LEMMA ShownFacts ==
    ASSUME NEW f, Forest(f), NEW m \in Node, There(f, m)
    PROVE  /\ Shown(f, m) \in Seq(Node)
           /\ \A k \in Range(Shown(f, m)) : k \in Range(f[m].kids) /\ k \in Node /\ There(f, k)
<1> DEFINE ks == f[m].kids
           missing == {i \in DOMAIN ks : f[ks[i]] = Absent}
<1>1. ks \in Seq(Node)
  BY DEF Forest, There, Snapshots
<1> HIDE DEF ks
<1>2. Len(ks) \in Nat /\ DOMAIN ks = 1..Len(ks) /\ \A i \in 1..Len(ks) : ks[i] \in Node
  BY <1>1, LenProperties, ElementOfSeq
<1>3. CASE missing = {}
  <2>1. Shown(f, m) = ks
    BY <1>3 DEF Shown, ks
  <2> QED
    BY <1>1, <1>2, <1>3, <2>1 DEF Range, There, ks
<1>4. CASE missing # {}
  <2> DEFINE first == Min(missing)
  <2>1. missing \in SUBSET Nat
    BY <1>2
  <2>2. first \in missing /\ \A j \in missing : first <= j
    <3> HIDE DEF missing
    <3>1. \E i \in missing : \A j \in missing : i <= j
      BY <1>4, <2>1, Least
    <3> QED
      BY <3>1 DEF Min
  <2>3. Shown(f, m) = SubSeq(ks, 1, first - 1)
    BY <1>4 DEF Shown, ks
  <2>4. first \in 1..Len(ks)
    BY <1>2, <2>2
  <2>5. \A i \in 1..(first - 1) : i \in 1..Len(ks) /\ f[ks[i]] # Absent
    <3> SUFFICES ASSUME NEW i \in 1..(first - 1) PROVE i \in 1..Len(ks) /\ i \notin missing
      BY <1>2
    <3> HIDE DEF first, missing
    <3> QED
      BY <1>2, <2>2, <2>4
  <2> HIDE DEF first, missing
  <2>6. /\ SubSeq(ks, 1, first - 1) \in Seq(Node) /\ Len(SubSeq(ks, 1, first - 1)) = first - 1
        /\ \A i \in 1..(first - 1) : SubSeq(ks, 1, first - 1)[i] = ks[i]
    <3> DEFINE last == first - 1
    <3>1. last \in Nat /\ \A i \in 1..last : ks[i] \in Node
      BY <1>2, <2>4, <2>5
    <3> HIDE DEF last
    <3>2. /\ SubSeq(ks, 1, last) \in Seq(Node) /\ Len(SubSeq(ks, 1, last)) = last
          /\ \A i \in 1..last : SubSeq(ks, 1, last)[i] = ks[i]
      BY <1>1, <3>1, SubSeqProperties
    <3> QED
      BY <3>2 DEF last
  <2>7. DOMAIN SubSeq(ks, 1, first - 1) = 1..(first - 1)
    BY <2>6, LenProperties
  <2> QED
    BY <1>2, <2>3, <2>5, <2>6, <2>7 DEF Range, There, ks
<1> QED
  BY <1>3, <1>4

\* They depend on nothing but the children and which of them are stored.
LEMMA ShownSame ==
    ASSUME NEW f, NEW g, NEW m, f[m].kids = g[m].kids,
           \A k \in Range(f[m].kids) : There(f, k) <=> There(g, k)
    PROVE  Shown(f, m) = Shown(g, m)
<1> DEFINE ks == f[m].kids
           missing(h) == {i \in DOMAIN ks : h[ks[i]] = Absent}
<1>1. missing(f) = missing(g)
  BY DEF Range, There
<1>2. /\ Shown(f, m) = IF missing(f) = {} THEN ks ELSE SubSeq(ks, 1, Min(missing(f)) - 1)
      /\ Shown(g, m) = IF missing(g) = {} THEN ks ELSE SubSeq(ks, 1, Min(missing(g)) - 1)
  BY DEF Shown
<1> HIDE DEF missing
<1> QED
  BY <1>1, <1>2

\* An entry of a tree is a snapshot.
LEMMA EntryType ==
    ASSUME NEW f, Forest(f), NEW m \in Node, There(f, m)
    PROVE  Entry(f, m) \in Snapshots /\ Entry(f, m).kids = Shown(f, m) /\ Entry(f, m) # Absent
<1>1. Shown(f, m) \in Seq(Node) /\ f[m] \in Snapshots
  BY ShownFacts DEF Forest, There
<1>2. Entry(f, m) \in Snapshots /\ Entry(f, m).kids = Shown(f, m)
  BY <1>1 DEF Entry, Snapshots
<1> QED
  BY <1>2, SnapshotsKnown

\* The tree is within every set that has its root and all children shown.
LEMMA BelowLeast ==
    ASSUME NEW f, NEW n \in Node, NEW S \in SUBSET Node, n \in S,
           \A m \in S : There(f, m) => Range(Shown(f, m)) \subseteq S
    PROVE  Below(f, n) \subseteq S
  BY DEF Below, There

\* It is such a set itself, of stored nodes.
LEMMA BelowFacts ==
    ASSUME NEW f, Forest(f), NEW n \in Node
    PROVE  /\ Below(f, n) \subseteq Node
           /\ There(f, n) => n \in Below(f, n)
           /\ \A m \in Below(f, n) : There(f, m) /\ Range(Shown(f, m)) \subseteq Below(f, n)
<1>1. Below(f, n) \subseteq Node /\ (There(f, n) => n \in Below(f, n))
  BY DEF Below, There
<1>2. ASSUME NEW m \in Below(f, n) PROVE There(f, m)
  <2> DEFINE stored == {x \in Node : There(f, x)}
  <2>1. There(f, n)
    BY <1>2 DEF Below, There
  <2>2. \A x \in stored : Range(Shown(f, x)) \subseteq stored
    BY ShownFacts
  <2>3. stored \in SUBSET Node /\ n \in stored
    BY <2>1
  <2> HIDE DEF stored
  <2>4. Below(f, n) \subseteq stored
    BY <2>2, <2>3, BelowLeast
  <2> QED
    BY <1>2, <2>4 DEF stored
<1>3. ASSUME NEW m \in Below(f, n), NEW k \in Range(Shown(f, m)) PROVE k \in Below(f, n)
  <2>1. There(f, n) /\ m \in Node /\ There(f, m)
    BY <1>1, <1>2, <1>3 DEF Below, There
  <2>2. k \in Node
    BY <1>3, <2>1, ShownFacts
  <2> QED
    BY <1>3, <2>1, <2>2 DEF Below, There
<1> QED
  BY <1>1, <1>2, <1>3

\* Whatever is below a node, other than itself, is shown by something below it.
LEMMA BelowStep ==
    ASSUME NEW f, Forest(f), NEW n \in Node, NEW k \in Below(f, n), k # n
    PROVE  \E m \in Below(f, n) : k \in Range(Shown(f, m))
<1> SUFFICES ASSUME \A m \in Below(f, n) : k \notin Range(Shown(f, m)) PROVE FALSE
  OBVIOUS
<1> DEFINE rest == Below(f, n) \ {k}
<1>1. There(f, n)
  BY DEF Below, There
<1>2. rest \in SUBSET Node /\ n \in rest /\ \A m \in rest : Range(Shown(f, m)) \subseteq rest
  BY <1>1, BelowFacts
<1> HIDE DEF rest
<1>3. Below(f, n) \subseteq rest
  BY <1>2, BelowLeast
<1> QED
  BY <1>3 DEF rest

\* Of a forest f one node c changes, or what is shown of it, and g is made.  If c is
\* below one of the nodes of T when it is below the root, then all of g below the
\* root is below one of T, or is as it was.
LEMMA ChangeBelow ==
    ASSUME NEW f, NEW g, Forest(f), Forest(g), NEW c \in Node, OneParent(f),
           \A n \in Node : There(f, n) => There(g, n),
           \A n \in Node : There(f, n) /\ n # c => Shown(g, n) = Shown(f, n),
           NEW T \in SUBSET Node, \A u \in T : There(f, u),
           There(f, Top), c \in Below(f, Top) => c \in BelowAny(f, T)
    PROVE  \A n \in Below(g, Top) :
              n \in BelowAny(g, T) \/ (n \in Below(f, Top) /\ n \notin BelowAny(f, T) /\ n # c)
<1>1. ASSUME NEW r \in Node, There(f, r), NEW x \in Below(f, r)
      PROVE  x \in Below(g, r) \/ c \in Below(g, r)
  <2> SUFFICES ASSUME c \notin Below(g, r) PROVE x \in Below(g, r)
    OBVIOUS
  <2>1. r \in Below(g, r) /\ Below(g, r) \in SUBSET Node
    BY <1>1, BelowFacts
  <2>2. \A m \in Below(g, r) : There(f, m) => Range(Shown(f, m)) \subseteq Below(g, r)
    BY <2>1, BelowFacts
  <2>3. Below(f, r) \subseteq Below(g, r)
    BY <2>1, <2>2, BelowLeast
  <2> QED
    BY <1>1, <2>3
<1>2. c \in BelowAny(f, T) => c \in BelowAny(g, T)
  BY <1>1 DEF BelowAny
<1> DEFINE told == BelowAny(g, T)
           same == {n \in Below(f, Top) : n \notin BelowAny(f, T) /\ n # c}
<1>3. Top \in Node /\ There(g, Top) /\ Top \in Below(f, Top) /\ Below(f, Top) \subseteq Node
  BY SnapshotsKnown, BelowFacts
<1>4. \A u \in T : u \in told
  BY BelowFacts DEF BelowAny
<1>5. Top \in told \cup same
  <2>1. CASE Top \in BelowAny(f, T)
    <3>1. PICK u \in T : Top \in Below(f, u)
      BY <2>1 DEF BelowAny
    <3>2. CASE Top # u
      <4>1. PICK m \in Below(f, u) : Top \in Range(Shown(f, m))
        BY <3>1, <3>2, BelowStep
      <4>2. m \in Node /\ There(f, m)
        BY BelowFacts
      <4> QED
        BY <4>1, <4>2, ShownFacts DEF OneParent
    <3> QED
      BY <1>4, <3>1, <3>2
  <2>2. CASE Top \notin BelowAny(f, T)
    BY <1>3, <2>2
  <2> QED
    BY <2>1, <2>2
<1>6. ASSUME NEW x \in told, NEW k \in Range(Shown(g, x)) PROVE k \in told
  <2>1. PICK u \in T : x \in Below(g, u)
    BY DEF BelowAny
  <2>2. k \in Below(g, u) /\ k \in Node
    BY <1>6, <2>1, BelowFacts
  <2> QED
    BY <2>2 DEF BelowAny
<1>7. ASSUME NEW x \in same, NEW k \in Range(Shown(g, x)) PROVE k \in told \cup same
  <2>1. x \in Node /\ There(f, x) /\ x # c /\ k \in Range(Shown(f, x))
    BY <1>3, <1>7, BelowFacts
  <2>2. k \in Below(f, Top) /\ k \in Node /\ k \in Range(f[x].kids)
    BY <1>3, <2>1, BelowFacts, ShownFacts
  <2>3. CASE k \in BelowAny(f, T)
    <3>1. PICK u \in T : k \in Below(f, u)
      BY <2>3 DEF BelowAny
    <3>2. CASE k # u
      <4>1. PICK m \in Below(f, u) : k \in Range(Shown(f, m))
        BY <3>1, <3>2, BelowStep
      <4>2. m \in Node /\ There(f, m) /\ k \in Range(f[m].kids)
        BY <4>1, BelowFacts, ShownFacts
      <4>3. m = x
        BY <2>1, <2>2, <4>2 DEF OneParent
      <4> QED
        BY <4>1, <4>2, <4>3 DEF BelowAny
    <3> QED
      BY <1>4, <3>1, <3>2
  <2>4. CASE k \notin BelowAny(f, T)
    BY <1>2, <2>2, <2>4
  <2> QED
    BY <2>3, <2>4
<1>8. told \cup same \in SUBSET Node
  BY <1>3 DEF BelowAny
<1> HIDE DEF told, same
<1>9. Below(g, Top) \subseteq told \cup same
  BY <1>3, <1>5, <1>6, <1>7, <1>8, BelowLeast
<1> QED
  BY <1>9 DEF told, same
-----------------------------------------------------------------------------
(* What the consumer has been told.                                        *)

\* g[i] is the consumer's tree after i events of o.
Copies(g, v, o, n) == g = [i \in 0..n |-> IF i = 0 THEN v ELSE Apply(g[i - 1], o[i])]

\* There is a sequence of the copies a consumer has after each event.
LEMMA CopiesExist == ASSUME NEW v, NEW o, NEW n \in Nat PROVE \E g : Copies(g, v, o, n)
<1> DEFINE none == {m \in Nat : ~ \E g : Copies(g, v, o, m)}
<1> SUFFICES ASSUME none # {} PROVE FALSE
  OBVIOUS
<1>1. PICK m \in none : \A k \in none : m <= k
  <2>1. none \in SUBSET Nat
    OBVIOUS
  <2> HIDE DEF none
  <2> QED
    BY <2>1, Least
<1>2. CASE m = 0
  <2> DEFINE g == [i \in 0..0 |-> v]
  <2>1. Copies(g, v, o, 0)
    <3>1. \A i \in 0..0 : i = 0
      OBVIOUS
    <3> QED
      BY <3>1 DEF Copies
  <2> QED
    BY <1>1, <1>2, <2>1
<1>3. CASE m # 0
  <2>1. m \in Nat /\ m - 1 \in Nat /\ ~ (m <= m - 1)
    BY <1>3
  <2>2. m - 1 \notin none
    BY <1>1, <2>1
  <2>3. PICK g : Copies(g, v, o, m - 1)
    BY <2>1, <2>2
  <2> DEFINE h == [i \in 0..m |-> IF i = m THEN Apply(g[m - 1], o[m]) ELSE g[i]]
  <2>4. \A i \in 0..m : h[i] = IF i = 0 THEN v ELSE Apply(h[i - 1], o[i])
    <3> SUFFICES ASSUME NEW i \in 0..m PROVE h[i] = IF i = 0 THEN v ELSE Apply(h[i - 1], o[i])
      OBVIOUS
    <3>1. \A j \in 0..(m - 1) : /\ j \in 0..m /\ j # m
                                /\ g[j] = IF j = 0 THEN v ELSE Apply(g[j - 1], o[j])
      BY <2>1, <2>3 DEF Copies
    <3>2. CASE i = m
      <4>1. m - 1 \in 0..(m - 1)
        BY <2>1
      <4>2. h[m - 1] = g[m - 1] /\ h[m] = Apply(g[m - 1], o[m])
        BY <2>1, <3>1, <4>1
      <4> QED
        BY <1>3, <3>2, <4>2
    <3>3. CASE i = 0
      BY <1>3, <3>1, <3>3, <2>1
    <3>4. CASE i # 0 /\ i # m
      <4>1. i \in 0..(m - 1) /\ i - 1 \in 0..(m - 1)
        BY <2>1, <3>4
      <4>2. h[i] = g[i] /\ h[i - 1] = g[i - 1]
        BY <3>1, <4>1
      <4> QED
        BY <3>1, <3>4, <4>1, <4>2
    <3> QED
      BY <3>2, <3>3, <3>4
  <2>5. h = [i \in 0..m |-> h[i]]
    OBVIOUS
  <2> HIDE DEF h
  <2>6. Copies(h, v, o, m)
    BY <2>4, <2>5 DEF Copies
  <2> QED
    BY <1>1, <2>6
<1> QED
  BY <1>2, <1>3

\* Two sequences that apply the same events.
Follow(g, h, o, n) == \A i \in 1..n : g[i] = Apply(g[i - 1], o[i]) /\ h[i] = Apply(h[i - 1], o[i])

\* They end with the same copy if they start with the same.
LEMMA CopiesAgree ==
    ASSUME NEW o, NEW n \in Nat, NEW g, NEW h, g[0] = h[0], Follow(g, h, o, n)
    PROVE  g[n] = h[n]
<1> USE DEF Follow
<1> DEFINE differ == {i \in 0..n : g[i] # h[i]}
<1> SUFFICES ASSUME differ # {} PROVE FALSE
  OBVIOUS
<1>1. PICK m \in differ : \A k \in differ : m <= k
  <2>1. differ \in SUBSET Nat
    OBVIOUS
  <2> HIDE DEF differ
  <2> QED
    BY <2>1, Least
<1>2. m \in 1..n /\ m - 1 \in 0..n /\ ~ (m <= m - 1)
  BY <1>1
<1>3. g[m - 1] = h[m - 1]
  BY <1>1, <1>2
<1> QED
  BY <1>1, <1>2, <1>3

\* The last of those copies is what has been told.
LEMMA ToldCopies ==
    ASSUME Len(out) \in Nat
    PROVE  \E g : Copies(g, view, out, Len(out)) /\ Told = g[Len(out)]
<1> DEFINE apply == CHOOSE g : Copies(g, view, out, Len(out))
<1>1. Copies(apply, view, out, Len(out))
  BY CopiesExist
<1>2. Told = apply[Len(out)]
  BY DEF Told, Copies
<1> HIDE DEF apply
<1> QED
  BY <1>1, <1>2

\* It is so after a step too.
LEMMA ToldCopiesNext ==
    ASSUME Len(out') \in Nat
    PROVE  \E g : Copies(g, view', out', Len(out')) /\ Told' = g[Len(out')]
<1> DEFINE apply == CHOOSE g : Copies(g, view', out', Len(out'))
<1>1. Copies(apply, view', out', Len(out'))
  BY CopiesExist
<1>2. Told' = apply[Len(out')]
  BY DEF Told, Copies
<1> HIDE DEF apply
<1> QED
  BY <1>1, <1>2

\* Each event is applied once: where it is still in the channel, or by the consumer.
LEMMA ToldEmit ==
    ASSUME Len(out) \in Nat, NEW e, \E S : out \in Seq(S), view' = view, out' = Append(out, e)
    PROVE  Told' = Apply(Told, e)
<1> DEFINE n == Len(out)
<1>1. n \in Nat /\ Len(out') = n + 1 /\ out'[n + 1] = e /\ \A i \in 1..n : out'[i] = out[i]
  <2> PICK S : out \in Seq(S)
    OBVIOUS
  <2>1. out \in Seq(S \cup {e}) /\ e \in S \cup {e}
    <3>1. \A i \in 1..Len(out) : out[i] \in S \cup {e}
      BY ElementOfSeq
    <3> QED
      BY <3>1, SeqDef, LenProperties
  <2> QED
    BY <2>1, AppendProperties
<1>2. PICK g : Copies(g, view, out, n) /\ Told = g[n]
  BY <1>1, ToldCopies
<1>3. \E h : Copies(h, view', out', Len(out')) /\ Told' = h[Len(out')]
  BY <1>1, ToldCopiesNext
<1>4. PICK h : Copies(h, view, out', n + 1) /\ Told' = h[n + 1]
  BY <1>1, <1>3 DEF Copies
<1> HIDE DEF n
<1>5. \A i \in 0..n : g[i] = IF i = 0 THEN view ELSE Apply(g[i - 1], out[i])
  BY <1>2 DEF Copies
<1>6. \A i \in 0..(n + 1) : h[i] = IF i = 0 THEN view ELSE Apply(h[i - 1], out'[i])
  BY <1>4 DEF Copies
<1>7. h[n + 1] = Apply(h[n], e)
  <2>1. n + 1 \in 0..(n + 1) /\ n + 1 # 0 /\ (n + 1) - 1 = n
    BY <1>1
  <2> QED
    BY <1>1, <1>6, <2>1
<1>8. g[0] = h[0]
  BY <1>1, <1>5, <1>6
<1>9. \A i \in 1..n : g[i] = Apply(g[i - 1], out[i]) /\ h[i] = Apply(h[i - 1], out[i])
  <2> SUFFICES ASSUME NEW i \in 1..n
               PROVE  g[i] = Apply(g[i - 1], out[i]) /\ h[i] = Apply(h[i - 1], out[i])
    OBVIOUS
  <2>1. i \in 0..n /\ i \in 0..(n + 1) /\ i # 0 /\ out'[i] = out[i]
    BY <1>1
  <2> QED
    BY <1>5, <1>6, <2>1
<1>10. g[n] = h[n]
  <2>1. Follow(g, h, out, n)
    BY <1>9 DEF Follow
  <2> QED
    BY <1>1, <1>8, <2>1, CopiesAgree
<1> QED
  BY <1>2, <1>4, <1>7, <1>10

\* An event applied was told before, and is told now.
LEMMA ToldConsume ==
    ASSUME Len(out) \in Nat, \E S : out \in Seq(S), out # <<>>,
           view' = Apply(view, Head(out)), out' = Tail(out)
    PROVE  Told' = Told
<1> DEFINE n == Len(out) - 1
<1>1. n \in Nat /\ Len(out) = n + 1 /\ Len(out') = n /\ Head(out) = out[1]
      /\ \A i \in 1..n : out'[i] = out[i + 1]
  <2> PICK S : out \in Seq(S)
    OBVIOUS
  <2> QED
    BY HeadTailProperties, EmptySeq, LenProperties
<1> HIDE DEF n
<1>2. PICK g : Copies(g, view, out, n + 1) /\ Told = g[n + 1]
  BY <1>1, ToldCopies
<1>3. \E h : Copies(h, view', out', Len(out')) /\ Told' = h[Len(out')]
  BY <1>1, ToldCopiesNext
<1>4. PICK h : Copies(h, view', out', n) /\ Told' = h[n]
  BY <1>1, <1>3 DEF Copies
<1>5. \A i \in 0..(n + 1) : g[i] = IF i = 0 THEN view ELSE Apply(g[i - 1], out[i])
  BY <1>2 DEF Copies
<1>6. \A i \in 0..n : h[i] = IF i = 0 THEN view' ELSE Apply(h[i - 1], out'[i])
  BY <1>4 DEF Copies
<1> DEFINE next == [i \in 0..n |-> g[i + 1]]
<1>7. next[0] = h[0] /\ next[n] = g[n + 1]
  <2>1. 0 \in 0..n /\ n \in 0..n /\ 0 \in 0..(n + 1) /\ 1 \in 0..(n + 1) /\ 1 - 1 = 0 /\ 0 + 1 = 1
    BY <1>1
  <2>2. next[0] = g[1] /\ next[n] = g[n + 1]
    BY <2>1
  <2>3. g[1] = Apply(g[0], out[1]) /\ g[0] = view /\ h[0] = view'
    BY <1>5, <1>6, <2>1
  <2> QED
    BY <1>1, <2>2, <2>3
<1>8. \A i \in 1..n : next[i] = Apply(next[i - 1], out'[i]) /\ h[i] = Apply(h[i - 1], out'[i])
  <2> SUFFICES ASSUME NEW i \in 1..n
               PROVE  next[i] = Apply(next[i - 1], out'[i]) /\ h[i] = Apply(h[i - 1], out'[i])
    OBVIOUS
  <2>1. /\ i \in 0..n /\ i - 1 \in 0..n /\ i + 1 \in 0..(n + 1) /\ i # 0 /\ i + 1 # 0
        /\ (i + 1) - 1 = i /\ (i - 1) + 1 = i /\ out'[i] = out[i + 1]
    BY <1>1
  <2>2. next[i] = g[i + 1] /\ next[i - 1] = g[i]
    BY <2>1
  <2>3. g[i + 1] = Apply(g[i], out[i + 1])
    BY <1>5, <2>1
  <2> QED
    BY <1>6, <2>1, <2>2, <2>3
<1> HIDE DEF next
<1>9. next[n] = h[n]
  <2> DEFINE o == out'
  <2>1. Follow(next, h, o, n)
    BY <1>8 DEF Follow
  <2> HIDE DEF o
  <2> QED
    BY <1>1, <1>7, <2>1, CopiesAgree
<1> QED
  BY <1>2, <1>4, <1>7, <1>9

\* A tree that has the entries of all nodes below the root is the listener's.
LEMMA SameTree ==
    ASSUME NEW f, Forest(f), There(f, Top), NEW t, \A n \in Below(f, Top) : t[n] = Entry(f, n)
    PROVE  GetTree(t, Top) = GetTree(f, Top)
<1> DEFINE tree == Below(f, Top)
<1>1. /\ Top \in Node /\ Top \in tree /\ tree \in SUBSET Node
      /\ \A n \in tree : There(f, n) /\ Range(Shown(f, n)) \subseteq tree
  BY SnapshotsKnown, BelowFacts
<1>2. \A n \in tree : There(t, n) /\ t[n] \in Snapshots /\ t[n].kids = Shown(f, n)
  BY <1>1, EntryType DEF There
<1>3. ASSUME NEW n \in tree PROVE Shown(t, n) = Shown(f, n)
  <2>1. {i \in DOMAIN t[n].kids : t[t[n].kids[i]] = Absent} = {}
    <3> SUFFICES ASSUME NEW i \in DOMAIN t[n].kids PROVE There(t, t[n].kids[i])
      BY DEF There
    <3>1. t[n].kids[i] \in Range(Shown(f, n))
      BY <1>2 DEF Range
    <3> QED
      BY <1>1, <1>2, <3>1
  <2>2. Shown(t, n) = t[n].kids
    BY <2>1 DEF Shown
  <2> QED
    BY <1>2, <2>2
<1>4. Below(t, Top) = tree
  <2>1. Below(t, Top) \subseteq tree
    <3> HIDE DEF tree
    <3> QED
      BY <1>1, <1>3, BelowLeast
  <2>2. ASSUME NEW S \in SUBSET Node, Top \in S,
               \A n \in S : There(t, n) => Range(Shown(t, n)) \subseteq S
        PROVE  tree \subseteq S
    <3>1. \A n \in S \cap tree : Range(Shown(f, n)) \subseteq S \cap tree
      BY <1>1, <1>2, <1>3, <2>2
    <3>2. S \cap tree \in SUBSET Node /\ Top \in S \cap tree
      BY <1>1, <2>2
    <3>3. Below(f, Top) \subseteq S \cap tree
      BY <3>1, <3>2, BelowLeast
    <3> QED
      BY <3>3
  <2>3. There(t, Top)
    BY <1>1, <1>2
  <2> HIDE DEF tree
  <2>4. tree \subseteq Below(t, Top)
    BY <1>1, <2>2, <2>3 DEF Below, There
  <2> QED
    BY <2>1, <2>4
<1>5. ASSUME NEW n \in tree PROVE [t[n] EXCEPT !.kids = Shown(t, n)] = [f[n] EXCEPT !.kids = Shown(f, n)]
  <2>1. t[n] = [f[n] EXCEPT !.kids = Shown(f, n)]
    BY DEF Entry
  <2>2. [t[n] EXCEPT !.kids = t[n].kids] = t[n]
    BY <1>2 DEF Snapshots
  <2> QED
    BY <1>2, <1>3, <2>1, <2>2
<1> HIDE DEF tree
<1> QED
  BY <1>4, <1>5 DEF GetTree, tree

\* An event has the entries of all nodes below those it is about, and leaves the
\* consumer's other nodes alone, unless it is a reset.
LEMMA Applied ==
    ASSUME NEW f, Forest(f), NEW T \in SUBSET Node, NEW t,
           NEW e, e.trees = {GetTree(f, u) : u \in T}, NEW n \in Node
    PROVE  /\ n \in BelowAny(f, T) => Apply(t, e)[n] = Entry(f, n)
           /\ n \notin BelowAny(f, T) /\ e.type # "reset" => Apply(t, e)[n] = t[n]
<1> DEFINE given == {tree \in e.trees : tree[n] # Absent}
<1>1. Apply(t, e)[n] = IF given # {} THEN (CHOOSE tree \in given : TRUE)[n]
                       ELSE IF e.type = "reset" THEN Absent ELSE t[n]
  BY DEF Apply
<1>2. ASSUME NEW u \in T
      PROVE  GetTree(f, u)[n] = IF n \in Below(f, u) THEN Entry(f, n) ELSE Absent
  BY DEF GetTree, Entry
<1>3. \A u \in T : n \in Below(f, u) => Entry(f, n) # Absent
  BY BelowFacts, EntryType
<1>4. \A tree \in given : tree[n] = Entry(f, n)
  BY <1>2
<1>5. n \in BelowAny(f, T) <=> given # {}
  BY <1>2, <1>3 DEF BelowAny
<1> HIDE DEF given
<1> QED
  BY <1>1, <1>4, <1>5
-----------------------------------------------------------------------------
(* Parents.                                                                *)

\* The snapshots that the listener has stored, is about to, or will receive.
Held(s) ==
    \/ \E n \in Node : nodes[n] # Absent /\ s = nodes[n]
    \/ \E i \in 1..Len(wire) : wire[i].type = "update" /\ s \in wire[i].nodes
    \/ lpc \in {"reconcile", "look", "overwrite"} /\ s \in left
    \/ lpc \in {"look", "overwrite"} /\ s = cur
    \/ \E c \in spawned : s = c.root
    \/ \E j \in jobs : s \in j.todo

\* That k is a child of m, according to them or to a job; and according to the page
\* as it is or was at first.
Says(m, k) ==
    \/ \E s \in Snapshots : Held(s) /\ s.id = m /\ k \in Range(s.kids)
    \/ \E j \in jobs : j.id = m /\ (k \in j.targets \/ \E s \in j.todo : s.id = k)
OnPage(m, k) == k \in Range(kids[m]) \/ k \in Range(FirstKids[m])

PageIsTree == \A m, k \in Node : OnPage(m, k) =>
                  k # Top /\ Known(k) /\ \A o \in Node : OnPage(o, k) => o = m
HeldIsTree == \A m, k \in Node : Says(m, k) =>
                  k # Top /\ \A o \in Node : Says(o, k) => o = m
HeldOfPage == \A m, k \in Node : Says(m, k) =>
                  Known(k) /\ \A o \in Node : OnPage(o, k) => o = m

\* Unless a node is moved it has the same parent in the page, now and at first, and
\* in all that is held of it; a page not heard of yet is for itself.
TInv == ~moved => PageIsTree /\ HeldIsTree /\ (Current => HeldOfPage)

\* Nothing is stored before the first page is heard of.
ZInv == pageID = 0 => spawned = {} /\ \A n \in Node : ~Stored(n)

\* Only the page that the listener has heard of has subscriptions.
LEMMA SubsCurrent ==
    ASSUME IInv, ZInv
    PROVE  /\ dirty # {} => Current
           /\ \A j \in jobs : j.pid + missed = loads => Current
<1>1. Unheard \in Nat /\ pageID \in Nat
  BY DEF IInv, Typed, NumbersTyped, Unheard
<1>2. ASSUME NEW n \in subs PROVE Current
  <2>1. n \in Node /\ Stored(n) /\ ~ (Unheard > 0)
    BY <1>2 DEF IInv, Typed, PageTyped, AllStored, InOrder
  <2> QED
    BY <1>1, <2>1 DEF ZInv, Current
<1>3. ASSUME NEW j \in jobs, j.pid + missed = loads PROVE Current
  <2>1. j.id \in Node /\ Stored(j.id) /\ j.pid = pageID
    BY <1>3 DEF IInv, Typed, WorkerTyped, Jobs, AllStored, NeverStale, Stale
  <2> QED
    BY <1>1, <1>3, <2>1 DEF ZInv, Current, Unheard, IInv, Typed, NumbersTyped
<1> QED
  BY <1>2, <1>3 DEF IInv, Typed, PageTyped

\* A step that leaves the page alone, and says nothing else of it than what it is.
LEMMA TreeStep ==
    ASSUME IInv, IInv', TInv, UNCHANGED <<kids, retired, moved, missed, loads, pageID>>,
           \A m, k \in Node : Says(m, k)' => Says(m, k) \/ (Current /\ OnPage(m, k))
    PROVE  TInv'
<1>1. UNCHANGED <<kids, retired, moved>>
  OBVIOUS
<1>2. UNCHANGED Unheard /\ (Current' <=> Current) /\ \A m, k : OnPage(m, k)' <=> OnPage(m, k)
  BY <1>1 DEF Unheard, Current, OnPage
<1>3. \A k : Known(k)' <=> Known(k)
  <2>1. Attached' = Attached
    BY <1>1, AttachedIsReach, AttachedIsReachNext DEF IInv, Typed
  <2> QED
    BY <1>1, <2>1 DEF Known
<1> SUFFICES ASSUME ~moved PROVE PageIsTree' /\ HeldIsTree' /\ (Current' => HeldOfPage')
  BY <1>1 DEF TInv
<1>4. PageIsTree /\ HeldIsTree /\ (Current => HeldOfPage)
  BY DEF TInv
<1>5. PageIsTree'
  BY <1>2, <1>3, <1>4 DEF PageIsTree
<1>6. HeldIsTree'
  BY <1>4 DEF HeldIsTree, PageIsTree, HeldOfPage
<1>7. Current' => HeldOfPage'
  BY <1>2, <1>3, <1>4 DEF PageIsTree, HeldOfPage
<1> QED
  BY <1>5, <1>6, <1>7

\* Where nothing new is held, no child is said to be anyone's that was not before.
LEMMA HeldStep ==
    ASSUME \A s \in Snapshots : Held(s)' => Held(s),
           \A j \in jobs' : \A t \in Node : (t \in j.targets \/ \E s \in j.todo : s.id = t) =>
               \E h \in jobs : h.id = j.id /\ (t \in h.targets \/ \E s \in h.todo : s.id = t)
    PROVE  \A m, k \in Node : Says(m, k)' => Says(m, k)
  BY DEF Says

\* The page changes.
LEMMA ChangeTInv == ASSUME IInv, IInv', TInv, Change PROVE TInv'
<1>1. PageTyped /\ PageTyped'
  BY DEF IInv, Typed
<1>2. Keeps
  BY <1>1, InsertKeeps, RemoveKeeps, MoveKeeps, RelabelKeeps DEF Change
<1>3. UNCHANGED <<wire, missed, loads, pageID, nodes, lpc, left, cur, spawned, jobs>>
  BY DEF Change, listener, recVars
<1>4. (\A m, k : Says(m, k)' <=> Says(m, k)) /\ (Current' <=> Current)
  BY <1>3 DEF Says, Held, Current, Unheard
<1>5. moved => moved'
  BY DEF Change, InsertNode, RemoveNode, MoveNode, RelabelNode
<1> SUFFICES ASSUME ~moved' PROVE PageIsTree' /\ HeldIsTree' /\ (Current' => HeldOfPage')
  BY DEF TInv
<1>7. PageIsTree /\ HeldIsTree /\ (Current => HeldOfPage)
  BY <1>5 DEF TInv
<1>8. \A k : Known(k) => Known(k)'
  BY <1>2 DEF Keeps, Known
<1>9. HeldIsTree'
  BY <1>4, <1>7 DEF HeldIsTree
<1>10. CASE \A m \in Node : Range(kids'[m]) \subseteq Range(kids[m])
  <2>1. \A m, k \in Node : OnPage(m, k)' => OnPage(m, k)
    BY <1>10 DEF OnPage
  <2> QED
    BY <1>4, <1>7, <1>8, <1>9, <2>1 DEF PageIsTree, HeldOfPage
<1>11. CASE \E n \in Attached' \ (Attached \cup retired), p \in Node :
              \A m \in Node : Range(kids'[m]) \subseteq Range(kids[m]) \cup (IF m = p THEN {n} ELSE {})
  <2>1. PICK n \in Attached' \ (Attached \cup retired) : \E p \in Node :
              \A m \in Node : Range(kids'[m]) \subseteq Range(kids[m]) \cup (IF m = p THEN {n} ELSE {})
    BY <1>11
  <2>2. PICK p \in Node :
              \A m \in Node : Range(kids'[m]) \subseteq Range(kids[m]) \cup (IF m = p THEN {n} ELSE {})
    BY <2>1
  <2>3. ~Known(n) /\ Known(n)'
    BY <2>1 DEF Known
  <2>4. \A m, k \in Node : OnPage(m, k)' => OnPage(m, k) \/ (m = p /\ k = n)
    BY <2>2 DEF OnPage
  <2>5. n # Top
    <3>1. Top \in Attached
      BY <1>1, AttachedIsReach, ReachClosed, SnapshotsKnown DEF PageTyped
    <3> QED
      BY <2>1, <3>1
  <2>6. \A m \in Node : ~OnPage(m, n)
    <3>1. n \in Node
      BY <1>2, <2>1 DEF Keeps
    <3> QED
      BY <1>7, <2>3, <3>1 DEF PageIsTree
  <2>7. PageIsTree'
    BY <1>7, <1>8, <2>3, <2>4, <2>5, <2>6 DEF PageIsTree
  <2>8. Current' => HeldOfPage'
    BY <1>4, <1>7, <1>8, <2>3, <2>4 DEF HeldOfPage
  <2> QED
    BY <1>9, <2>7, <2>8
<1> QED
  BY <1>2, <1>10, <1>11 DEF Keeps

\* The root of a page that loads leads to all of it.
LEMMA LoadTInv == ASSUME IInv, IInv', CInv, CInv', TInv, Load PROVE TInv'
<1>1. /\ kids' = FirstKids /\ meta' = [n \in Node |-> FirstMeta] /\ loads' = loads + 1
      /\ UNCHANGED <<moved, pageID, nodes, lpc, left, cur, spawned, jobs>>
      /\ \/ UNCHANGED wire
         \/ \E root : wire' = Append(wire, [type |-> "load", root |-> root])
  BY DEF Load, listener, recVars
<1>2. ~Current'
  <2>1. Unheard \in Nat
    BY DEF IInv, Typed, NumbersTyped, Unheard
  <2>2. CASE lpc = "start"
    BY <1>1, <2>2 DEF CInv, Current
  <2>3. CASE lpc # "start"
    <3>1. UNCHANGED missed
      BY <2>3 DEF Load
    <3>2. Unheard' = Unheard + 1
      BY <1>1, <3>1 DEF Unheard, IInv, Typed, NumbersTyped
    <3> QED
      BY <2>1, <3>2 DEF Current
  <2> QED
    BY <2>2, <2>3
<1>3. \A s : Held(s)' => Held(s)
  <2>1. CASE UNCHANGED wire
    BY <1>1, <2>1 DEF Held
  <2>2. CASE ~ UNCHANGED wire
    <3>1. PICK root : wire' = Append(wire, [type |-> "load", root |-> root])
      BY <1>1, <2>2
    <3> DEFINE msg == [type |-> "load", root |-> root]
    <3>2. wire \in Seq(Messages \cup {msg}) /\ msg \in Messages \cup {msg} /\ msg.type = "load"
      <4>1. wire \in Seq(Messages)
        BY DEF IInv, Typed, PageTyped
      <4>2. Len(wire) \in Nat /\ \A i \in 1..Len(wire) : wire[i] \in Messages \cup {msg}
        BY <4>1, ElementOfSeq, LenProperties
      <4> QED
        BY <4>1, <4>2, SeqDef, LenProperties
    <3>3. wire' = Append(wire, msg)
      BY <3>1
    <3> HIDE DEF msg
    <3>4. /\ Len(wire') = Len(wire) + 1 /\ Len(wire) \in Nat /\ wire'[Len(wire) + 1] = msg
          /\ \A i \in 1..Len(wire) : wire'[i] = wire[i]
      BY <3>2, <3>3, AppendProperties, LenProperties
    <3>5. \A i \in 1..Len(wire') : i \in 1..Len(wire) \/ wire'[i].type = "load"
      BY <3>2, <3>4
    <3> QED
      BY <1>1, <3>4, <3>5 DEF Held
  <2> QED
    BY <2>1, <2>2
<1>4. \A m, k : Says(m, k)' => Says(m, k)
  BY <1>1, <1>3 DEF Says
<1> SUFFICES ASSUME ~moved PROVE PageIsTree' /\ HeldIsTree'
  BY <1>1, <1>2 DEF TInv
<1>5. HeldIsTree'
  BY <1>4 DEF TInv, HeldIsTree
<1>6. Page' = FirstPage
  BY <1>1 DEF Page, Snap, FirstPage
<1>7. Attached' = Below(FirstPage, Top)
  BY <1>6 DEF Attached
<1>8. PageIsTree'
  BY <1>1, <1>7, FirstPageOK DEF PageIsTree, OnPage, Known
<1> QED
  BY <1>5, <1>8

\* The page before any change, of which the listener has no notion.
LEMMA InitTInv == Init => TInv /\ ZInv
<1> SUFFICES ASSUME Init PROVE TInv /\ ZInv
  OBVIOUS
<1>1. /\ kids = FirstKids /\ meta = [n \in Node |-> FirstMeta] /\ wire = <<>>
      /\ pageID = 0 /\ nodes = Empty /\ lpc = "start" /\ spawned = {} /\ jobs = {}
  BY DEF Init
<1>2. \A n \in Node : ~Stored(n)
  BY <1>1 DEF Stored, Empty
<1>3. \A m, k : ~Says(m, k)
  <2>1. \A i \in 1..Len(wire) : FALSE
    BY <1>1
  <2> QED
    BY <1>1, <1>2, <2>1 DEF Says, Held, Stored
<1>4. Attached = Below(FirstPage, Top)
  <2>1. Page = FirstPage
    BY <1>1 DEF Page, Snap, FirstPage
  <2> QED
    BY <2>1 DEF Attached
<1>5. PageIsTree
  BY <1>1, <1>4, FirstPageOK DEF PageIsTree, OnPage, Known
<1> QED
  BY <1>1, <1>2, <1>3, <1>5 DEF TInv, ZInv, HeldIsTree, Current

\* A report says of a node what it is.
LEMMA ReportTInv == ASSUME IInv, IInv', TInv, ZInv, Report PROVE TInv'
<1> DEFINE msg == [type |-> "update", nodes |-> {Snap(n) : n \in dirty}]
<1>1. wire' = Append(wire, msg) /\ wire \in Seq(Messages) /\ msg \in Messages
  BY SnapType DEF Report, IInv, Typed, PageTyped, Messages
<1>2. msg.nodes = {Snap(n) : n \in dirty}
  OBVIOUS
<1> HIDE DEF msg
<1>3. /\ Len(wire) \in Nat /\ Len(wire') = Len(wire) + 1 /\ wire'[Len(wire) + 1] = msg
      /\ \A i \in 1..Len(wire) : wire'[i] = wire[i]
  BY <1>1, WireAppend, LenProperties
<1>4. /\ UNCHANGED <<page, missed, loads, pageID>>
      /\ UNCHANGED <<nodes, lpc, left, cur, spawned, jobs>>
  BY DEF Report, listener, recVars
<1>5. Current
  BY SubsCurrent DEF Report
<1>6. \A s : Held(s)' => Held(s) \/ s \in msg.nodes
  <2>1. \A i \in 1..Len(wire') : i \in 1..Len(wire) \/ i = Len(wire) + 1
    BY <1>3
  <2> QED
    BY <1>3, <1>4, <2>1 DEF Held
<1>7. \A m, k : Says(m, k)' => Says(m, k) \/ \E s \in msg.nodes : s.id = m /\ k \in Range(s.kids)
  BY <1>4, <1>6 DEF Says
<1>8. \A s \in msg.nodes : s.kids = kids[s.id]
  BY <1>2 DEF Snap
<1>9. \A m, k \in Node : Says(m, k)' => Says(m, k) \/ (Current /\ OnPage(m, k))
  BY <1>5, <1>7, <1>8 DEF OnPage
<1> QED
  BY <1>4, <1>9, TreeStep DEF page

\* So do the snapshots that the browser answers with.
LEMMA AnswerTInv == ASSUME IInv, IInv', TInv, ZInv, Answer PROVE TInv'
<1>1. PICK j \in jobs :
        \/ jobs' = Done(j, {})
        \/ /\ j.pid + missed = loads
           /\ jobs' = (jobs \ {j}) \cup {[j EXCEPT !.todo = {Snap(n) : n \in Range(kids[j.id])}]}
  BY DEF Answer, Succeed, FailRequest, Askable
<1> DEFINE asked == [j EXCEPT !.todo = {Snap(n) : n \in Range(kids[j.id])}]
<1>2. UNCHANGED <<content, missed, loads, pageID>> /\ UNCHANGED <<wire, nodes, lpc, left, cur, spawned>>
  BY DEF Answer, recVars
<1>3. /\ j \in Jobs /\ asked.id = j.id /\ asked.targets = j.targets
      /\ asked.todo = {Snap(n) : n \in Range(kids[j.id])}
  BY DEF IInv, Typed, WorkerTyped, Jobs
<1>4. jobs' = Done(j, {}) \/ (Current /\ jobs' = (jobs \ {j}) \cup {asked})
  BY <1>1, SubsCurrent
<1>5. \A s \in asked.todo : s.kids = kids[s.id] /\ s.id \in Range(kids[j.id])
  BY <1>3 DEF Snap
<1> HIDE DEF asked
<1>6. \A h \in jobs' : h \in jobs \/ (h.todo = {} /\ h.targets = {}) \/ (Current /\ h = asked)
  BY <1>4, DoneAsks
<1>7. \A m, k \in Node : Says(m, k)' => Says(m, k) \/ (Current /\ OnPage(m, k))
  <2> SUFFICES ASSUME NEW m \in Node, NEW k \in Node, Says(m, k)'
               PROVE  Says(m, k) \/ (Current /\ OnPage(m, k))
    OBVIOUS
  <2>1. CASE \E s \in Snapshots : Held(s)' /\ s.id = m /\ k \in Range(s.kids)
    <3>1. PICK s \in Snapshots : Held(s)' /\ s.id = m /\ k \in Range(s.kids)
      BY <2>1
    <3>2. Held(s) \/ (Current /\ s \in asked.todo)
      BY <1>2, <1>6, <3>1 DEF Held
    <3> QED
      BY <1>5, <3>1, <3>2 DEF Says, OnPage
  <2>2. CASE \E h \in jobs' : h.id = m /\ (k \in h.targets \/ \E s \in h.todo : s.id = k)
    <3>1. PICK h \in jobs' : h.id = m /\ (k \in h.targets \/ \E s \in h.todo : s.id = k)
      BY <2>2
    <3>2. CASE h \in jobs
      BY <3>1, <3>2 DEF Says
    <3>3. CASE Current /\ h = asked
      BY <1>3, <1>5, <3>1, <3>3 DEF Says, OnPage
    <3> QED
      BY <1>6, <3>1, <3>2, <3>3
  <2> QED
    BY <2>1, <2>2 DEF Says
<1> QED
  BY <1>2, <1>7, TreeStep DEF content

\* What is received, reconciled or stored has been held before.
LEMMA ReceiveUpdateTInv == ASSUME IInv, IInv', TInv, ReceiveUpdate PROVE TInv'
<1>1. wire \in Seq(Messages) /\ wire # <<>> /\ wire' = Tail(wire)
  BY DEF ReceiveUpdate, IInv, Typed, PageTyped
<1>2. /\ Len(wire) \in Nat /\ Len(wire') = Len(wire) - 1 /\ Len(wire) > 0 /\ Head(wire) = wire[1]
      /\ \A i \in 1..Len(wire') : wire'[i] = wire[i + 1]
  BY <1>1, WireTail, LenProperties
<1>3. /\ UNCHANGED <<page, missed, loads, pageID>> /\ UNCHANGED <<nodes, cur, spawned, jobs>>
      /\ left' = wire[1].nodes /\ lpc' = "reconcile" /\ wire[1].type = "update"
  BY <1>2 DEF ReceiveUpdate
<1>4. \A s : Held(s)' => Held(s)
  <2>1. 1 \in 1..Len(wire) /\ \A i \in 1..Len(wire') : i + 1 \in 1..Len(wire) /\ wire'[i] = wire[i + 1]
    BY <1>2
  <2> QED
    BY <1>3, <2>1 DEF Held
<1>5. \A m, k : Says(m, k)' => Says(m, k)
  BY <1>3, <1>4 DEF Says
<1> QED
  BY <1>3, <1>5, TreeStep DEF page

\* The event worker and the consumer hold nothing new.
LEMMA WorkerTInv ==
    ASSUME IInv, IInv', TInv,
           \/ Subscribe \/ Pick \/ LookUp \/ Compare \/ Overwrite \/ Emit \/ Stop \/ Consume
           \/ UNCHANGED vars
    PROVE  TInv'
<1>1. UNCHANGED <<page, missed, loads, pageID>> /\ UNCHANGED <<wire, jobs>>
  BY DEF Subscribe, Pick, LookUp, Compare, Overwrite, Emit, Stop, Consume, vars, listener,
     listenerRest, browser, page
<1>2. \A s \in Snapshots : Held(s)' => Held(s)
  <2>1. CASE Subscribe \/ Emit \/ Stop \/ Consume \/ UNCHANGED vars
    BY <2>1 DEF Held, Subscribe, Emit, Stop, Consume, vars, listener, listenerRest, browser, recVars
  <2>2. CASE Pick
    BY <2>2 DEF Held, Pick, listenerRest, browser
  <2>3. CASE LookUp
    <3>1. /\ UNCHANGED <<wire, nodes, lpc, left, cur, jobs>> /\ lpc = "look"
          /\ \A c \in spawned' : c \in spawned \/ c.root = cur
      BY <2>3 DEF LookUp, listenerRest, browser
    <3> QED
      BY <3>1 DEF Held
  <2>4. CASE Compare
    BY <2>4 DEF Held, Compare, listenerRest, browser, recVars
  <2>5. CASE Overwrite
    <3>1. /\ UNCHANGED <<wire, left, cur, spawned, jobs>> /\ lpc = "overwrite"
          /\ lpc' \in {"reconcile", "panicked"}
          /\ UNCHANGED nodes \/ nodes' = [nodes EXCEPT ![cur.id] = cur]
      BY <2>5 DEF Overwrite, UpdateNode, listenerRest, browser, recVars
    <3>2. \A n \in Node : nodes'[n] = nodes[n] \/ nodes'[n] = cur
      BY <3>1 DEF IInv, Typed, WorkerTyped
    <3> QED
      BY <3>1, <3>2 DEF Held
  <2> QED
    BY <2>1, <2>2, <2>3, <2>4, <2>5
<1>3. \A m, k \in Node : Says(m, k)' => Says(m, k)
  BY <1>1, <1>2 DEF Says
<1> QED
  BY <1>1, <1>3, TreeStep DEF page

\* A subscription stores the root it was started with, which was held before.
LEMMA StartCallTInv == ASSUME IInv, IInv', TInv, StartCall PROVE TInv'
<1>1. PICK c \in spawned :
        /\ spawned' = spawned \ {c} /\ UpdateNode(c.root)
        /\ jobs' = jobs \cup {NewJob(<<c.root.id, c.by>>, pageID, c.root.id)}
        /\ UNCHANGED <<listenerRest, pageID, lpc, recVars, updated, evPage, panicked>>
  BY DEF StartCall
<1>2. UNCHANGED <<page, missed, loads, pageID>> /\ UNCHANGED <<wire, lpc, left, cur>>
  BY <1>1 DEF listenerRest, browser, page, recVars
<1>3. \A h \in jobs' : h \in jobs \/ (h.todo = {} /\ h.targets = {})
  BY <1>1 DEF NewJob
<1>4. \A n \in Node : nodes'[n] = nodes[n] \/ nodes'[n] = c.root
  BY <1>1 DEF UpdateNode, IInv, Typed, WorkerTyped
<1>5. \A s \in Snapshots : Held(s)' => Held(s)
  BY <1>1, <1>2, <1>3, <1>4 DEF Held
<1>6. \A m, k \in Node : Says(m, k)' => Says(m, k)
  BY <1>3, <1>5 DEF Says
<1> QED
  BY <1>2, <1>6, TreeStep DEF page

\* A dispatcher stores a snapshot it held.
LEMMA StoreTInv == ASSUME IInv, IInv', TInv, Store PROVE TInv'
<1>1. PICK j \in jobs :
        IF Stale(j.pid)
        THEN jobs' = Done(j, j.targets) /\ UNCHANGED nodes
        ELSE \E n \in j.todo :
                LET targets == IF nodes[n.id] = Absent THEN j.targets \cup {n.id} ELSE j.targets
                IN  /\ UpdateNode(n)
                    /\ jobs' = IF j.todo = {n} THEN Done(j, targets)
                               ELSE (jobs \ {j}) \cup {[j EXCEPT !.todo = @ \ {n}, !.targets = targets]}
  BY DEF Store
<1>2. j \in Jobs /\ ~Stale(j.pid)
  BY DEF IInv, Typed, WorkerTyped, NeverStale
<1>3. PICK n \in j.todo :
        LET targets == IF nodes[n.id] = Absent THEN j.targets \cup {n.id} ELSE j.targets
        IN  /\ UpdateNode(n)
            /\ jobs' = IF j.todo = {n} THEN Done(j, targets)
                       ELSE (jobs \ {j}) \cup {[j EXCEPT !.todo = @ \ {n}, !.targets = targets]}
  BY <1>1, <1>2
<1> DEFINE targets == IF nodes[n.id] = Absent THEN j.targets \cup {n.id} ELSE j.targets
           rest    == [j EXCEPT !.todo = @ \ {n}, !.targets = targets]
<1>4. rest.todo \subseteq j.todo /\ rest.targets \subseteq j.targets \cup {n.id} /\ rest.id = j.id
  BY <1>2 DEF Jobs
<1>5. jobs' = Done(j, targets) \/ jobs' = (jobs \ {j}) \cup {rest}
  BY <1>3
<1> HIDE DEF targets, rest
<1>6. UNCHANGED <<page, missed, loads, pageID>> /\ UNCHANGED <<wire, lpc, left, cur, spawned>>
  BY DEF Store, listenerRest, browser, page, recVars
<1>7. \A h \in jobs' : h \in jobs \/ (h.todo = {} /\ h.targets = {}) \/ h = rest
  BY <1>5, DoneAsks
<1>8. \A m \in Node : nodes'[m] = nodes[m] \/ nodes'[m] = n
  BY <1>3 DEF UpdateNode, IInv, Typed, WorkerTyped
<1>9. \A s \in Snapshots : Held(s)' => Held(s)
  BY <1>4, <1>6, <1>7, <1>8 DEF Held
<1>10. \A h \in jobs' : \A t \in Node : (t \in h.targets \/ \E s \in h.todo : s.id = t) =>
          \E o \in jobs : o.id = h.id /\ (t \in o.targets \/ \E s \in o.todo : s.id = t)
  BY <1>4, <1>7
<1>11. \A m, k \in Node : Says(m, k)' => Says(m, k)
  BY <1>9, <1>10, HeldStep
<1> QED
  BY <1>6, <1>11, TreeStep DEF page

\* Of a page that has just been heard of the root is held, and nothing else.
LEMMA ReceiveLoadTInv == ASSUME IInv, IInv', CInv, TInv, RootsTop, ReceiveLoad PROVE TInv'
<1>1. wire \in Seq(Messages) /\ wire # <<>> /\ wire' = Tail(wire) /\ Head(wire).type = "load"
  BY DEF ReceiveLoad, IInv, Typed, PageTyped
<1>2. /\ Len(wire) \in Nat /\ Len(wire') = Len(wire) - 1 /\ Len(wire) > 0 /\ Head(wire) = wire[1]
      /\ \A i \in 1..Len(wire') : wire'[i] = wire[i + 1]
  BY <1>1, WireTail, LenProperties
<1> DEFINE root == Head(wire).root
<1>3. root.id = Top /\ root.kids = FirstKids[Top] /\ Top \in Node
  <2>1. 1 \in 1..Len(wire)
    BY <1>2
  <2> QED
    BY <1>1, <1>2, <2>1, SnapshotsKnown DEF RootsTop, IsTop
<1>4. /\ nodes' = [Empty EXCEPT ![root.id] = root] /\ lpc' = "load" /\ jobs' = {}
      /\ \A c \in spawned' : c.root = root
      /\ UNCHANGED <<page, missed, loads>>
  BY DEF ReceiveLoad, PageReset, IInv, NeverStale
<1> HIDE DEF root
<1>5. \A i \in 1..Len(wire') : wire'[i].type # "update"
  <2>1. Unheard \in Nat /\ LoadsLast
    BY DEF IInv, InOrder, Typed, NumbersTyped, Unheard
  <2>2. 1 \in 1..Len(wire) /\ 1 > Len(wire) - Unheard
    BY <1>1, <1>2, <2>1 DEF LoadsLast
  <2> SUFFICES ASSUME NEW i \in 1..Len(wire') PROVE wire'[i].type # "update"
    OBVIOUS
  <2>3. i + 1 \in 1..Len(wire) /\ i + 1 > Len(wire) - Unheard
    BY <1>2, <2>1, <2>2
  <2>4. wire[i + 1].type = "load"
    BY <2>1, <2>3 DEF LoadsLast
  <2> QED
    BY <1>2, <2>4
<1>6. \A n \in Node : nodes'[n] # Absent => nodes'[n] = root
  BY <1>3, <1>4 DEF Empty
<1>7. \A s : Held(s)' => s = root
  BY <1>4, <1>5, <1>6 DEF Held
<1>8. \A m, k \in Node : Says(m, k)' => OnPage(m, k)
  BY <1>3, <1>4, <1>7 DEF Says, OnPage
<1>9. UNCHANGED <<kids, retired, moved>> /\ \A k : Known(k)' <=> Known(k)
  <2>1. UNCHANGED <<kids, retired, moved>>
    BY <1>4 DEF page
  <2>2. Attached' = Attached
    BY <2>1, AttachedIsReach, AttachedIsReachNext DEF IInv, Typed
  <2> QED
    BY <2>1, <2>2 DEF Known
<1> SUFFICES ASSUME ~moved PROVE PageIsTree' /\ HeldIsTree' /\ HeldOfPage'
  BY <1>9 DEF TInv
<1>10. PageIsTree
  BY DEF TInv
<1>11. \A m, k : OnPage(m, k)' <=> OnPage(m, k)
  BY <1>9 DEF OnPage
<1>12. PageIsTree'
  BY <1>9, <1>10, <1>11 DEF PageIsTree
<1>13. HeldIsTree' /\ HeldOfPage'
  BY <1>8, <1>9, <1>10, <1>11 DEF PageIsTree, HeldIsTree, HeldOfPage
<1> QED
  BY <1>12, <1>13

\* Unless it moves a node, every step keeps page and listener trees.
LEMMA NextTInv ==
    ASSUME IInv, IInv', CInv, CInv', RootsTop, TInv, ZInv, [Next]_vars
    PROVE  TInv'
  BY LoadTInv, ChangeTInv, ReportTInv, ReceiveLoadTInv, ReceiveUpdateTInv, WorkerTInv, StartCallTInv,
     AnswerTInv, StoreTInv DEF Next, Browser, Worker, Subscription

\* Nothing is stored before the first load is received.
LEMMA NextZInv == ASSUME IInv, IInv', ZInv, [Next]_vars PROVE ZInv'
<1>1. pageID \in Nat
  BY DEF IInv, Typed, NumbersTyped
<1>2. CASE ReceiveLoad
  BY <1>1, <1>2 DEF ReceiveLoad, PageReset, ZInv
<1> SUFFICES ASSUME pageID = 0, pageID' = 0, ~ReceiveLoad PROVE ZInv'
  <2>1. ~ReceiveLoad => pageID' = pageID
    BY DEF Next, Browser, Load, Change, Report, Worker, Subscribe, ReceiveUpdate, Pick, LookUp, Compare,
       Overwrite, Emit, Stop, Subscription, StartCall, Answer, Store, Consume, vars, listener
  <2> QED
    BY <1>2, <2>1 DEF ZInv
<1>3. spawned = {} /\ jobs = {} /\ lpc \notin {"look", "overwrite"} /\ \A n \in Node : ~Stored(n)
  <2>1. spawned = {} /\ \A n \in Node : ~Stored(n)
    BY DEF ZInv
  <2>2. /\ lpc \in {"look", "overwrite"} => cur.id \in Node /\ Stored(cur.id)
        /\ \A j \in jobs : j.id \in Node /\ Stored(j.id)
    BY DEF IInv, Typed, WorkerTyped, Snapshots, Jobs, AllStored
  <2> QED
    BY <2>1, <2>2
<1>4. UNCHANGED <<nodes, spawned>>
  BY <1>3 DEF Next, Browser, Load, Change, Report, Worker, Subscribe, ReceiveUpdate, Pick, LookUp,
     Compare, Overwrite, Emit, Stop, Subscription, StartCall, Answer, Store, Consume, vars, listener
<1> QED
  BY <1>3, <1>4 DEF ZInv, Stored
-----------------------------------------------------------------------------
(* The stream.                                                             *)

\* The nodes that the event will be about which the listener is working on.
Tell ==
    (IF lpc \in {"load", "reconcile", "look", "overwrite"} THEN updated ELSE {})
    \cup (IF lpc = "overwrite" \/ (lpc = "look" /\ childUpd) THEN {cur.id} ELSE {})
Telling == BelowAny(nodes, Tell)
Right(n) == Told[n] = Entry(nodes, n)
Running  == lpc \notin {"panicked", "stopped", "overflow"}

\* Of every node below the root the consumer has been told what it is, or the event
\* will tell it; where a subscription is at work the event will tell.
ToldRight  == \A n \in Below(nodes, Top) : n \in Telling \/ Right(n)
JobsTold   == \A j \in jobs : \A n \in {j.id} \cup j.targets : n \in Below(nodes, Top) => n \in Telling
CallsTold  == \A c \in spawned : c.root.id \in Tell
TellStored == \A u \in Tell : Stored(u)

SInv ==
    /\ pageID > 0 => Stored(Top)
    /\ lpc = "load" => Top \in updated
    /\ ~moved /\ Running => ToldRight /\ JobsTold /\ CallsTold /\ TellStored

\* What has been told depends on the channel and the copy only.
LEMMA ToldSame == ASSUME OutTyped, UNCHANGED <<out, view>> PROVE Told' = Told
<1> DEFINE n == Len(out)
<1>1. n \in Nat /\ Len(out') \in Nat
  BY LenProperties DEF OutTyped
<1>2. PICK g : Copies(g, view, out, n) /\ Told = g[n]
  BY <1>1, ToldCopies
<1>3. \E h : Copies(h, view', out', Len(out')) /\ Told' = h[Len(out')]
  BY <1>1, ToldCopiesNext
<1>4. PICK h : Copies(h, view, out, n) /\ Told' = h[n]
  BY <1>3
<1> HIDE DEF n
<1>5. \A i \in 0..n : /\ g[i] = IF i = 0 THEN view ELSE Apply(g[i - 1], out[i])
                      /\ h[i] = IF i = 0 THEN view ELSE Apply(h[i - 1], out[i])
  BY <1>2, <1>4 DEF Copies
<1>6. g[0] = h[0] /\ \A i \in 1..n : g[i] = Apply(g[i - 1], out[i]) /\ h[i] = Apply(h[i - 1], out[i])
  BY <1>1, <1>5
<1>7. g[n] = h[n]
  <2>1. Follow(g, h, out, n)
    BY <1>6 DEF Follow
  <2> QED
    BY <1>1, <1>6, <2>1, CopiesAgree
<1> QED
  BY <1>2, <1>4, <1>7

\* The map of the listener is a forest.
LEMMA NodesForest == ASSUME Typed PROVE Forest(nodes) /\ \A n \in Node : Stored(n) <=> There(nodes, n)
  BY DEF Typed, WorkerTyped, Forest, Stored, There

\* It is so after a step too.
LEMMA NodesForestNext == ASSUME Typed' PROVE Forest(nodes') /\ \A n \in Node : Stored(n)' <=> There(nodes', n)
  BY DEF Typed, WorkerTyped, Forest, Stored, There

\* A step that stores nothing, and takes nothing off the event to come.
LEMMA SameSInv ==
    ASSUME SInv, UNCHANGED <<nodes, pageID>>, Told' = Told, moved => moved', Running' => Running,
           lpc' = "load" => lpc = "load" /\ UNCHANGED updated,
           Tell \subseteq Tell', \A u \in Tell' : u \in Tell \/ Stored(u),
           \A c \in spawned' : c \in spawned \/ c.root.id \in Tell',
           \A h \in jobs' : \/ \E j \in jobs : h.id = j.id /\ h.targets \subseteq j.targets
    PROVE  SInv'
<1>1. (pageID > 0 => Stored(Top))' /\ (lpc = "load" => Top \in updated)'
  BY DEF SInv, Stored
<1> SUFFICES ASSUME ~moved', Running' PROVE ToldRight' /\ JobsTold' /\ CallsTold' /\ TellStored'
  BY <1>1 DEF SInv
<1>2. ToldRight /\ JobsTold /\ CallsTold /\ TellStored
  BY DEF SInv
<1>3. Telling' = BelowAny(nodes, Tell') /\ Telling \subseteq Telling'
  BY DEF Telling, BelowAny
<1>4. ToldRight'
  BY <1>2, <1>3 DEF ToldRight, Right
<1>5. JobsTold'
  BY <1>2, <1>3 DEF JobsTold
<1>6. CallsTold' /\ TellStored'
  BY <1>2 DEF CallsTold, TellStored, Stored
<1> QED
  BY <1>4, <1>5, <1>6

\* No node is a child of two in the listener's map.
LEMMA HeldParents ==
    ASSUME Typed, HeldIsTree
    PROVE  OneParent(nodes) /\ \A m, k \in Node : There(nodes, m) /\ k \in Range(nodes[m].kids) => Says(m, k)
<1>1. \A m, k \in Node : There(nodes, m) /\ k \in Range(nodes[m].kids) => Says(m, k)
  BY DEF Typed, WorkerTyped, There, Says, Held
<1>2. \A m \in Node : There(nodes, m) => Range(nodes[m].kids) \subseteq Node
  <2> SUFFICES ASSUME NEW m \in Node, There(nodes, m) PROVE Range(nodes[m].kids) \subseteq Node
    OBVIOUS
  <2>1. nodes[m].kids \in Seq(Node)
    BY DEF Typed, WorkerTyped, There, Snapshots
  <2> QED
    BY <2>1, RangeType
<1> QED
  BY <1>1, <1>2 DEF OneParent, HeldIsTree

\* A snapshot s is stored.  What changes of the tree is at node c: the one that is
\* stored, or if it is new the one it is a child of; and the event will tell of c.
LEMMA WriteStep ==
    ASSUME IInv, IInv', TInv, ZInv, SInv, ~moved, Running,
           Told' = Told, Tell' = Tell, NEW s \in Snapshots, UpdateNode(s), NEW c \in Node,
           c \in Below(nodes, Top) => c \in Telling, \E n \in Node : Stored(n),
           \/ Stored(s.id) /\ c = s.id
           \/ ~Stored(s.id) /\ Says(c, s.id)
    PROVE  /\ Stored(Top)' /\ TellStored'
           /\ \A n \in Below(nodes', Top) :
                 n \in Telling' \/ (n \in Below(nodes, Top) /\ n \notin Telling /\ Right(n)')
<1>1. /\ Forest(nodes) /\ Forest(nodes') /\ \A n \in Node : Stored(n) <=> There(nodes, n)
      /\ \A n \in Node : Stored(n)' <=> There(nodes', n)
  BY NodesForest, NodesForestNext DEF IInv
<1>2. HeldIsTree /\ ToldRight /\ TellStored
  BY DEF TInv, SInv
<1>3. OneParent(nodes) /\ \A m, k \in Node : There(nodes, m) /\ k \in Range(nodes[m].kids) => Says(m, k)
  BY <1>2, HeldParents DEF IInv
<1>4. /\ s.id \in Node /\ \A n \in Node : n # s.id => nodes'[n] = nodes[n]
      /\ \A n \in Node : Stored(n) => Stored(n)' /\ Stored(s.id)'
  BY StoreType DEF UpdateNode, IInv, Typed, WorkerTyped, Stored
<1>5. Top \in Node /\ Stored(Top) /\ Tell \in SUBSET Node
  <2>1. pageID > 0
    BY DEF ZInv, IInv, Typed, NumbersTyped
  <2>2. Tell \subseteq Node
    BY DEF Tell, IInv, Typed, WorkerTyped, Snapshots
  <2> QED
    BY <2>1, <2>2, SnapshotsKnown DEF SInv
<1>6. ASSUME NEW n \in Node, Stored(n), n # c
      PROVE  nodes'[n] = nodes[n] /\ Shown(nodes', n) = Shown(nodes, n)
  <2>1. n # s.id
    BY <1>6
  <2>2. nodes'[n] = nodes[n]
    BY <1>4, <2>1
  <2>3. \A k \in Range(nodes[n].kids) : There(nodes, k) <=> There(nodes', k)
    <3> SUFFICES ASSUME NEW k \in Range(nodes[n].kids), k = s.id, ~Stored(s.id) PROVE FALSE
      <4>1. Range(nodes[n].kids) \subseteq Node
        <5>1. nodes[n].kids \in Seq(Node)
          BY <1>6 DEF IInv, Typed, WorkerTyped, Stored, Snapshots
        <5> QED
          BY <5>1, RangeType
      <4> QED
        BY <1>1, <1>4, <4>1 DEF There
    <3>1. Says(n, s.id) /\ Says(c, s.id)
      BY <1>1, <1>3, <1>4, <1>6
    <3> QED
      BY <1>2, <1>4, <1>6, <3>1 DEF HeldIsTree
  <2> QED
    BY <2>2, <2>3, ShownSame
<1>7. \A n \in Below(nodes', Top) :
         n \in BelowAny(nodes', Tell) \/ (n \in Below(nodes, Top) /\ n \notin BelowAny(nodes, Tell) /\ n # c)
  <2> DEFINE g == nodes'
  <2>1. /\ Forest(g) /\ \A n \in Node : There(nodes, n) => There(g, n)
        /\ \A n \in Node : There(nodes, n) /\ n # c => Shown(g, n) = Shown(nodes, n)
    BY <1>1, <1>4, <1>6
  <2>2. (\A u \in Tell : There(nodes, u)) /\ There(nodes, Top)
    BY <1>1, <1>2, <1>5 DEF TellStored
  <2>3. c \in Below(nodes, Top) => c \in BelowAny(nodes, Tell)
    BY DEF Telling
  <2> HIDE DEF g
  <2>4. \A n \in Below(g, Top) :
           n \in BelowAny(g, Tell) \/ (n \in Below(nodes, Top) /\ n \notin BelowAny(nodes, Tell) /\ n # c)
    BY <1>1, <1>3, <1>5, <2>1, <2>2, <2>3, ChangeBelow
  <2> QED
    BY <2>4 DEF g
<1>8. Telling' = BelowAny(nodes', Tell)
  BY DEF Telling, BelowAny
<1>9. ASSUME NEW n \in Below(nodes, Top), n \notin Telling, n # c PROVE Right(n)'
  <2>1. n \in Node /\ Stored(n)
    BY <1>1, <1>5, BelowFacts
  <2>2. Right(n)
    BY <1>2, <1>9 DEF ToldRight
  <2>3. Entry(nodes', n) = Entry(nodes, n)
    BY <1>6, <1>9, <2>1 DEF Entry
  <2> QED
    BY <2>2, <2>3 DEF Right
<1>10. TellStored'
  BY <1>2, <1>4, <1>5 DEF TellStored
<1> QED
  BY <1>4, <1>5, <1>7, <1>8, <1>9, <1>10 DEF Telling

\* The event is about what a call stores first, and what reconcile stores.
LEMMA StartCallSInv == ASSUME IInv, IInv', TInv, ZInv, SInv, StartCall PROVE SInv'
<1>1. PICK c \in spawned :
        /\ spawned' = spawned \ {c} /\ UpdateNode(c.root)
        /\ jobs' = jobs \cup {NewJob(<<c.root.id, c.by>>, pageID, c.root.id)}
        /\ UNCHANGED <<listenerRest, pageID, lpc, recVars, updated, evPage, panicked>>
  BY DEF StartCall
<1> DEFINE new == NewJob(<<c.root.id, c.by>>, pageID, c.root.id)
<1>2. new.id = c.root.id /\ new.targets = {} /\ \A h \in jobs' : h \in jobs \/ h = new
  BY <1>1 DEF NewJob
<1> HIDE DEF new
<1>3. c.root \in Snapshots /\ c.root.id \in Node
  BY DEF IInv, Typed, WorkerTyped, Snapshots
<1>4. /\ UNCHANGED <<out, view>> /\ UNCHANGED <<lpc, pageID, updated, childUpd, cur, moved>>
  BY <1>1 DEF listenerRest, browser, recVars
<1>5. Told' = Told /\ Tell' = Tell /\ (Running' <=> Running)
  BY <1>4, ToldSame DEF Tell, Running, IInv, Typed
<1>6. (pageID > 0 => Stored(Top))' /\ (lpc = "load" => Top \in updated)'
  BY <1>1, <1>3, <1>4, StoreType, SnapshotsKnown DEF SInv, Stored, IInv, Typed
<1> SUFFICES ASSUME ~moved, Running PROVE ToldRight' /\ JobsTold' /\ CallsTold' /\ TellStored'
  BY <1>4, <1>5, <1>6 DEF SInv
<1>7. JobsTold /\ CallsTold /\ TellStored /\ c.root.id \in Tell
  BY DEF SInv, CallsTold
<1>8. Stored(c.root.id) /\ c.root.id \in Telling
  <2>1. Stored(c.root.id)
    BY <1>7 DEF TellStored
  <2> QED
    BY <1>3, <1>7, <2>1, NodesForest, BelowFacts DEF Telling, BelowAny, IInv
<1>9. /\ TellStored'
      /\ \A n \in Below(nodes', Top) :
            n \in Telling' \/ (n \in Below(nodes, Top) /\ n \notin Telling /\ Right(n)')
  BY <1>1, <1>3, <1>5, <1>8, WriteStep
<1>10. c.root.id \in Telling'
  <2> DEFINE g == nodes'
  <2>1. Forest(g) /\ There(g, c.root.id)
    BY <1>1, <1>3, NodesForestNext, StoreType DEF IInv, Typed, Stored, There
  <2> HIDE DEF g
  <2>2. c.root.id \in Below(g, c.root.id)
    BY <1>3, <2>1, BelowFacts
  <2> QED
    BY <1>3, <1>5, <1>7, <2>2 DEF Telling, BelowAny, g
<1>11. ToldRight' /\ CallsTold'
  BY <1>1, <1>5, <1>7, <1>9 DEF ToldRight, CallsTold
<1>12. JobsTold'
  BY <1>2, <1>7, <1>9, <1>10 DEF JobsTold
<1> QED
  BY <1>9, <1>11, <1>12

\* reconcile stores a node that the event will tell of, with all below it.
LEMMA OverwriteSInv == ASSUME IInv, IInv', TInv, ZInv, SInv, Overwrite PROVE SInv'
<1>1. /\ UpdateNode(cur) /\ lpc = "overwrite" /\ lpc' \in {"reconcile", "panicked"}
      /\ lpc' = "reconcile" => updated' = updated \cup {cur.id}
  BY DEF Overwrite, IInv, NeverStale, Stale
<1>2. cur \in Snapshots /\ cur.id \in Node /\ Stored(cur.id)
  BY <1>1 DEF IInv, Typed, WorkerTyped, Snapshots, AllStored
<1>3. UNCHANGED <<out, view>> /\ UNCHANGED <<pageID, moved, jobs, spawned>>
  BY DEF Overwrite, listenerRest, browser
<1>4. Told' = Told
  BY <1>3, ToldSame DEF IInv, Typed
<1>5. (pageID > 0 => Stored(Top))' /\ (lpc = "load" => Top \in updated)'
  BY <1>1, <1>2, <1>3, StoreType, SnapshotsKnown DEF SInv, Stored, IInv, Typed
<1> SUFFICES ASSUME ~moved, Running' PROVE ToldRight' /\ JobsTold' /\ CallsTold' /\ TellStored'
  BY <1>3, <1>5 DEF SInv
<1>6. lpc' = "reconcile" /\ Tell' = Tell /\ cur.id \in Tell /\ Running
  BY <1>1 DEF Tell, Running
<1>7. JobsTold /\ CallsTold /\ TellStored
  BY <1>6 DEF SInv
<1>8. cur.id \in Telling
  BY <1>2, <1>6, NodesForest, BelowFacts DEF Telling, BelowAny, IInv
<1>9. /\ TellStored'
      /\ \A n \in Below(nodes', Top) :
            n \in Telling' \/ (n \in Below(nodes, Top) /\ n \notin Telling /\ Right(n)')
  BY <1>1, <1>2, <1>4, <1>6, <1>8, WriteStep
<1> QED
  BY <1>3, <1>6, <1>7, <1>9 DEF ToldRight, CallsTold, JobsTold

\* A child is stored below a node that the event is about, and is told with it.
LEMMA StoreSInv == ASSUME IInv, IInv', TInv, ZInv, SInv, Store PROVE SInv'
<1>1. PICK j \in jobs :
        IF Stale(j.pid)
        THEN jobs' = Done(j, j.targets) /\ UNCHANGED nodes
        ELSE \E n \in j.todo :
                LET targets == IF nodes[n.id] = Absent THEN j.targets \cup {n.id} ELSE j.targets
                IN  /\ UpdateNode(n)
                    /\ jobs' = IF j.todo = {n} THEN Done(j, targets)
                               ELSE (jobs \ {j}) \cup {[j EXCEPT !.todo = @ \ {n}, !.targets = targets]}
  BY DEF Store
<1>2. j \in Jobs /\ ~Stale(j.pid)
  BY DEF IInv, Typed, WorkerTyped, NeverStale
<1>3. PICK n \in j.todo :
        LET targets == IF nodes[n.id] = Absent THEN j.targets \cup {n.id} ELSE j.targets
        IN  /\ UpdateNode(n)
            /\ jobs' = IF j.todo = {n} THEN Done(j, targets)
                       ELSE (jobs \ {j}) \cup {[j EXCEPT !.todo = @ \ {n}, !.targets = targets]}
  BY <1>1, <1>2
<1> DEFINE targets == IF nodes[n.id] = Absent THEN j.targets \cup {n.id} ELSE j.targets
           rest    == [j EXCEPT !.todo = @ \ {n}, !.targets = targets]
<1>4. rest.targets = targets /\ rest.id = j.id /\ j.id \in Node /\ j.targets \subseteq Node
  BY <1>2 DEF Jobs
<1>5. jobs' = Done(j, targets) \/ jobs' = (jobs \ {j}) \cup {rest}
  BY <1>3
<1>6. n \in Snapshots /\ n.id \in Node
  BY <1>2 DEF Jobs, Snapshots
<1>7. targets \in SUBSET Node /\ \A t \in targets : t \in j.targets \/ (t = n.id /\ ~Stored(n.id))
  BY <1>4, <1>6 DEF Stored
<1> HIDE DEF targets, rest
<1>8. \A h \in jobs' : h \in jobs \/ (h.id \in targets /\ h.targets = {}) \/ h = rest
  BY <1>5, <1>7, DoneJobs DEF IInv
<1>9. UNCHANGED <<out, view>> /\ UNCHANGED <<pageID, lpc, updated, childUpd, cur, moved, spawned>>
  BY DEF Store, listenerRest, browser, recVars
<1>10. Told' = Told /\ Tell' = Tell /\ (Running' <=> Running)
  BY <1>9, ToldSame DEF Tell, Running, IInv, Typed
<1>11. (pageID > 0 => Stored(Top))' /\ (lpc = "load" => Top \in updated)'
  BY <1>3, <1>6, <1>9, StoreType, SnapshotsKnown DEF SInv, Stored, IInv, Typed
<1> SUFFICES ASSUME ~moved, Running PROVE ToldRight' /\ JobsTold' /\ CallsTold' /\ TellStored'
  BY <1>9, <1>10, <1>11 DEF SInv
<1>12. JobsTold /\ CallsTold /\ TellStored /\ HeldIsTree
  BY DEF SInv, TInv
<1>13. Says(j.id, n.id) /\ Stored(j.id)
  BY DEF Says, IInv, AllStored
<1>14. Forest(nodes) /\ Top \in Node /\ \A m \in Node : Stored(m) <=> There(nodes, m)
  BY NodesForest, SnapshotsKnown DEF IInv
<1>15. j.id \in Below(nodes, Top) => j.id \in Telling
  BY <1>12 DEF JobsTold
<1>16. Stored(n.id) /\ n.id \in Below(nodes, Top) => n.id \in Telling
  <2> SUFFICES ASSUME Stored(n.id), n.id \in Below(nodes, Top) PROVE n.id \in Telling
    OBVIOUS
  <2>1. n.id # Top
    BY <1>4, <1>6, <1>12, <1>13 DEF HeldIsTree
  <2>2. PICK m \in Below(nodes, Top) : n.id \in Range(Shown(nodes, m))
    BY <1>6, <1>14, <2>1, BelowStep
  <2>3. m \in Node /\ There(nodes, m) /\ n.id \in Range(nodes[m].kids)
    BY <1>14, <2>2, BelowFacts, ShownFacts
  <2>4. m = j.id
    BY <1>4, <1>6, <1>12, <1>13, <2>3, HeldParents DEF HeldIsTree, IInv
  <2>5. PICK u \in Tell : j.id \in Below(nodes, u)
    BY <1>15, <2>2, <2>4 DEF Telling, BelowAny
  <2>6. u \in Node
    BY DEF Tell, IInv, Typed, WorkerTyped, Snapshots
  <2> QED
    BY <1>6, <1>14, <2>2, <2>4, <2>5, <2>6, BelowFacts DEF Telling, BelowAny
<1>17. /\ TellStored'
       /\ \A m \in Below(nodes', Top) :
             m \in Telling' \/ (m \in Below(nodes, Top) /\ m \notin Telling /\ Right(m)')
  <2>1. CASE Stored(n.id)
    BY <1>3, <1>6, <1>10, <1>16, <2>1, WriteStep
  <2>2. CASE ~Stored(n.id)
    BY <1>3, <1>4, <1>6, <1>10, <1>13, <1>15, <2>2, WriteStep
  <2> QED
    BY <2>1, <2>2
<1>18. ToldRight' /\ CallsTold'
  BY <1>9, <1>10, <1>12, <1>17 DEF ToldRight, CallsTold
<1>19. JobsTold'
  <2>1. \A m \in targets : m \in Below(nodes, Top) => m \in Telling
    <3>1. ~Stored(n.id) => n.id \notin Below(nodes, Top)
      BY <1>6, <1>14, BelowFacts
    <3> QED
      BY <1>7, <1>12, <3>1 DEF JobsTold
  <2>2. \A h \in jobs' : \A m \in {h.id} \cup h.targets : m \in Below(nodes, Top) => m \in Telling
    BY <1>4, <1>8, <1>12, <2>1 DEF JobsTold
  <2> QED
    BY <1>17, <2>2 DEF JobsTold
<1> QED
  BY <1>17, <1>18, <1>19

\* A page that loads replaces all that is stored, and all of it will be told.
LEMMA ReceiveLoadSInv == ASSUME IInv, IInv', RootsTop, ReceiveLoad PROVE SInv'
<1>1. wire \in Seq(Messages) /\ wire # <<>> /\ Head(wire).type = "load"
  BY DEF ReceiveLoad, IInv, Typed, PageTyped
<1> DEFINE root == Head(wire).root
<1>2. root.id = Top /\ Top \in Node /\ root \in Snapshots
  <2>1. Head(wire) = wire[1] /\ 1 \in 1..Len(wire) /\ Head(wire) \in Messages
    BY <1>1, HeadTailProperties, EmptySeq, LenProperties, ElementOfSeq
  <2> QED
    BY <1>1, <2>1, SnapshotsKnown DEF RootsTop, IsTop, Messages
<1>3. /\ nodes' = [Empty EXCEPT ![root.id] = root] /\ lpc' = "load" /\ updated' = {root.id}
      /\ jobs' = {} /\ \A c \in spawned' : c.root = root
  BY DEF ReceiveLoad, PageReset, IInv, NeverStale
<1> HIDE DEF root
<1>4. \A n \in Node : Stored(n)' <=> n = Top
  BY <1>2, <1>3, SnapshotsKnown DEF Empty, Stored
<1>5. Tell' = {Top}
  BY <1>2, <1>3 DEF Tell
<1> DEFINE g == nodes'
<1>6. Forest(g) /\ \A n \in Node : There(g, n) <=> n = Top
  BY <1>4, NodesForestNext DEF IInv
<1>7. Telling' = BelowAny(g, {Top})
  BY <1>5 DEF Telling, BelowAny
<1>8. Below(g, Top) \subseteq Telling'
  <2> HIDE DEF g
  <2>1. Below(g, Top) \subseteq Node
    BY <1>2, <1>6, BelowFacts
  <2> QED
    BY <1>7, <2>1 DEF BelowAny
<1>9. ToldRight' /\ JobsTold' /\ CallsTold' /\ TellStored'
  BY <1>2, <1>3, <1>4, <1>5, <1>8 DEF ToldRight, JobsTold, CallsTold, TellStored
<1> QED
  BY <1>2, <1>3, <1>4, <1>9 DEF SInv

\* The event that ends the handling of another has been applied by whoever has been
\* told all of it.
LEMMA EmitSInv == ASSUME IInv, IInv', SInv, Emit PROVE SInv'
<1>1. /\ WaitPassed /\ UNCHANGED <<nodes, pageID, moved, view, updated, jobs, spawned>>
      /\ lpc \in {"load", "reconcile"} /\ spawned = {} /\ jobs = {}
  BY DEF Emit, WaitPassed, browser
<1>2. (pageID > 0 => Stored(Top))' /\ (lpc = "load" => Top \in updated)'
  BY <1>1 DEF Emit, SInv, Stored
<1> SUFFICES ASSUME ~moved, Running' PROVE ToldRight' /\ JobsTold' /\ CallsTold' /\ TellStored'
  BY <1>1, <1>2 DEF SInv
<1> DEFINE e == [type  |-> IF lpc = "load" THEN "reset" ELSE "patch",
                 trees |-> {GetTree(nodes, id) : id \in updated}]
<1>3. lpc' = "idle" /\ out' = Append(out, e)
  BY DEF Emit, Running
<1>4. e.trees = {GetTree(nodes, id) : id \in updated} /\ (e.type = "reset" => lpc = "load")
  OBVIOUS
<1> HIDE DEF e
<1>5. Told' = Apply(Told, e)
  <2>1. Len(out) \in Nat /\ \E S : out \in Seq(S)
    BY LenProperties DEF IInv, Typed, OutTyped
  <2> QED
    BY <1>1, <1>3, <2>1, ToldEmit
<1>6. Tell = updated /\ Tell' = {} /\ ToldRight
  BY <1>1, <1>3 DEF Tell, SInv, Running
<1>7. Forest(nodes) /\ Top \in Node /\ updated \in SUBSET Node /\ Telling = BelowAny(nodes, updated)
  BY <1>6, NodesForest, SnapshotsKnown DEF IInv, Typed, WorkerTyped, Telling
<1>8. ASSUME NEW n \in Below(nodes, Top) PROVE Right(n)'
  <2>1. n \in Node
    BY <1>7, BelowFacts
  <2> DEFINE told == Told
  <2>2. /\ n \in Telling => Apply(told, e)[n] = Entry(nodes, n)
        /\ n \notin Telling /\ e.type # "reset" => Apply(told, e)[n] = told[n]
    <3> HIDE DEF told
    <3> QED
      BY <1>4, <1>7, <2>1, Applied
  <2>3. n \notin Telling => e.type # "reset"
    <3> SUFFICES ASSUME e.type = "reset" PROVE n \in Telling
      OBVIOUS
    <3>1. Top \in updated
      BY <1>4 DEF SInv
    <3> QED
      BY <1>7, <2>1, <3>1 DEF BelowAny
  <2>4. n \in Telling \/ Right(n)
    BY <1>6 DEF ToldRight
  <2>5. Apply(told, e)[n] = Entry(nodes, n)
    BY <2>2, <2>3, <2>4 DEF Right
  <2> QED
    BY <1>1, <1>5, <2>5 DEF Right, Entry, Shown
<1>9. ToldRight'
  BY <1>1, <1>8 DEF ToldRight
<1> QED
  BY <1>1, <1>6, <1>9 DEF JobsTold, CallsTold, TellStored

\* Handling an update, the listener only adds to what the event will be about.
LEMMA ReconcileSInv ==
    ASSUME IInv, IInv', SInv, ReceiveUpdate \/ Pick \/ LookUp \/ Compare
    PROVE  SInv'
<1>1. UNCHANGED <<nodes, pageID, jobs, moved>> /\ UNCHANGED <<out, view>>
  BY DEF ReceiveUpdate, Pick, LookUp, Compare, listenerRest, browser, page
<1>2. Told' = Told
  BY <1>1, ToldSame DEF IInv, Typed
<1>3. lpc' \in {"reconcile", "look", "overwrite"} /\ Running
  BY DEF ReceiveUpdate, Pick, LookUp, Compare, Running
<1>4. lpc = "look" => Stored(cur.id)
  BY DEF IInv, AllStored
<1>5. /\ Tell \subseteq Tell' /\ \A u \in Tell' : u \in Tell \/ Stored(u)
      /\ \A c \in spawned' : c \in spawned \/ c.root.id \in Tell'
  <2>1. CASE ReceiveUpdate
    BY <2>1 DEF ReceiveUpdate, Tell
  <2>2. CASE Pick
    BY <2>2 DEF Pick, Tell
  <2>3. CASE LookUp
    BY <1>4, <2>3 DEF LookUp, Tell
  <2>4. CASE Compare
    BY <1>4, <2>4 DEF Compare, Tell, recVars
  <2> QED
    BY <2>1, <2>2, <2>3, <2>4
<1> QED
  BY <1>1, <1>2, <1>3, <1>5, SameSInv

\* The consumer's step makes no difference to what it has been told, nor does the
\* page's to the listener; a job that the browser answers stays at its node.
LEMMA OtherSInv ==
    ASSUME IInv, IInv', SInv, Browser \/ Subscribe \/ Stop \/ Answer \/ Consume \/ UNCHANGED vars
    PROVE  SInv'
<1>1. /\ UNCHANGED <<nodes, pageID, updated, childUpd, cur, spawned>>
      /\ UNCHANGED lpc \/ (lpc = "start" /\ lpc' = "idle") \/ lpc' = "stopped"
  BY DEF Browser, Load, Change, Report, Subscribe, Stop, Answer, Consume, vars, listener, listenerRest,
     browser, recVars
<1>2. moved => moved'
  BY DEF Browser, Load, Change, InsertNode, RemoveNode, MoveNode, RelabelNode, Report, Subscribe, Stop,
     Answer, Consume, vars, listenerRest, browser, page, content
<1>3. Told' = Told
  <2>1. CASE Consume
    <3>1. Len(out) \in Nat /\ \E S : out \in Seq(S)
      BY LenProperties DEF IInv, Typed, OutTyped
    <3> QED
      BY <2>1, <3>1, ToldConsume DEF Consume
  <2>2. CASE Browser \/ Subscribe \/ Stop \/ Answer \/ UNCHANGED vars
    <3>1. UNCHANGED <<out, view>>
      BY <2>2 DEF Browser, Load, Change, Report, Subscribe, Stop, Answer, vars, listener, listenerRest
    <3> QED
      BY <3>1, ToldSame DEF IInv, Typed
  <2> QED
    BY <2>1, <2>2
<1>4. (\A h \in jobs' : \E j \in jobs : h.id = j.id /\ h.targets \subseteq j.targets)
  <2>1. CASE Answer
    <3>1. PICK j \in jobs :
            \/ jobs' = Done(j, {})
            \/ jobs' = (jobs \ {j}) \cup {[j EXCEPT !.todo = {Snap(n) : n \in Range(kids[j.id])}]}
      BY <2>1 DEF Answer, Succeed, FailRequest
    <3>2. j \in Jobs
      BY DEF IInv, Typed, WorkerTyped
    <3>3. Done(j, {}) \subseteq jobs
      BY DEF Done
    <3> QED
      BY <3>1, <3>2, <3>3 DEF Jobs
  <2>2. CASE Browser \/ Subscribe \/ Stop \/ Consume \/ UNCHANGED vars
    BY <2>2 DEF Browser, Load, Change, Report, Subscribe, Stop, Consume, vars, listener
  <2> QED
    BY <2>1, <2>2
<1>5. CASE lpc' = "stopped" /\ ~UNCHANGED lpc
  BY <1>1, <1>5 DEF SInv, Stored, Running
<1>6. CASE UNCHANGED lpc \/ (lpc = "start" /\ lpc' = "idle")
  <2>1. Tell' = Tell /\ (Running' <=> Running)
    BY <1>1, <1>6 DEF Tell, Running
  <2> QED
    BY <1>1, <1>2, <1>3, <1>4, <1>6, <2>1, SameSInv
<1> QED
  BY <1>1, <1>5, <1>6
-----------------------------------------------------------------------------
\* At first nothing is known and nothing is told.
LEMMA InitSInv == Init => SInv
<1> SUFFICES ASSUME Init PROVE SInv
  OBVIOUS
<1>1. /\ pageID = 0 /\ nodes = Empty /\ lpc = "start" /\ spawned = {} /\ jobs = {}
  BY DEF Init
<1>2. Below(nodes, Top) = {} /\ Tell = {}
  BY <1>1, SnapshotsKnown DEF Below, Empty, Tell
<1> QED
  BY <1>1, <1>2 DEF SInv, ToldRight, JobsTold, CallsTold, TellStored

\* Every step keeps it that what is known is told or will be.
LEMMA NextSInv ==
    ASSUME IInv, IInv', RootsTop, TInv, ZInv, SInv, [Next]_vars
    PROVE  SInv'
  BY StartCallSInv, OverwriteSInv, StoreSInv, ReceiveLoadSInv, EmitSInv, ReconcileSInv, OtherSInv
     DEF Next, Worker, Subscription

StreamInv == IInv /\ CInv /\ RootsTop /\ TInv /\ ZInv /\ SInv

\* Every step keeps all the invariants.
LEMMA NextStreamInv == StreamInv /\ [Next]_vars => StreamInv'
<1> SUFFICES ASSUME StreamInv, [Next]_vars PROVE StreamInv'
  OBVIOUS
<1>1. IInv' /\ CInv' /\ RootsTop'
  BY NextIInv, NextCInv DEF StreamInv
<1>2. TInv' /\ ZInv' /\ SInv'
  BY <1>1, NextTInv, NextZInv, NextSInv DEF StreamInv
<1> QED
  BY <1>1, <1>2 DEF StreamInv

\* Between two events nothing is left to be told.
LEMMA IdleComplete == StreamInv => StreamComplete
<1> SUFFICES ASSUME StreamInv, lpc = "idle", pageID > 0, ~moved
             PROVE  GetTree(Told, Top) = GetTree(nodes, Top)
  BY DEF StreamComplete
<1>1. Tell = {} /\ ToldRight /\ Stored(Top)
  BY DEF StreamInv, SInv, Tell, Running
<1>2. \A n \in Below(nodes, Top) : Right(n)
  BY <1>1 DEF ToldRight, Telling, BelowAny
<1>3. Forest(nodes) /\ There(nodes, Top)
  BY <1>1, NodesForest, SnapshotsKnown DEF StreamInv, IInv
<1> DEFINE told == Told
<1>4. \A n \in Below(nodes, Top) : told[n] = Entry(nodes, n)
  BY <1>2 DEF Right
<1> HIDE DEF told
<1>5. GetTree(told, Top) = GetTree(nodes, Top)
  BY <1>3, <1>4, SameTree
<1> QED
  BY <1>5 DEF told

\* The stream tells all: a consumer that applies every event in order, each a reset or
\* a patch with the trees below the nodes that were updated, has the listener's tree
\* whenever no event is being handled, although the nodes of one event are stored by
\* many subscriptions one at a time, and patches overlap.
THEOREM StreamCorrect == Spec => []StreamComplete
<1>1. Init => StreamInv
  BY InitIInv, InitCInv, InitTInv, InitSInv DEF StreamInv
<1>2. StreamInv /\ [Next]_vars => StreamInv'
  BY NextStreamInv
<1>3. StreamInv => StreamComplete
  BY IdleComplete
<1> QED
  BY <1>1, <1>2, <1>3, PTL DEF Spec
=============================================================================
