-------------------------- MODULE WorkerPoolProofs --------------------------
(***************************************************************************)
(* Proofs about WorkerPool, for any work, however much of it, and any      *)
(* number of workers: the WaitGroup counts the work that is outstanding,   *)
(* so Wait's channel is closed when all work has been executed.            *)
(***************************************************************************)
EXTENDS WorkerPool, FiniteSetTheorems, TLAPS

Busy == {v \in Workers : at[v] \in {"exec", "done"}}

\* The work counted by the WaitGroup: not yet sent, or with a worker.
Outstanding == sending \cup UNION {hand[v] : v \in Busy}

\* TypeOK without the claim that the counter is not negative.
Typed ==
    /\ added \subseteq Work /\ sending \subseteq added /\ executed \subseteq added
    /\ at \in [Workers -> {"off", "select", "exec", "done", "exited"}]
    /\ hand \in [Workers -> SUBSET added]
    /\ wait \in {"none", "waits", "closed"} /\ cancelled \in BOOLEAN

\* Work is in one place at a time, and with at most one worker.
OnePlace ==
    /\ \A v \in Busy : hand[v] \cap sending = {} /\ \E w \in added : hand[v] = {w}
    /\ \A u, v \in Busy : u # v => hand[u] \cap hand[v] = {}

\* What has not been executed is on its way to it.
OnItsWay ==
    \A w \in added \ executed :
        w \in sending \/ \E v \in Workers : at[v] = "exec" /\ w \in hand[v]

Counts == IsFiniteSet(added) /\ wg = Cardinality(Outstanding)

\* Nothing is added once the channel has been closed.
ClosedForGood == wait = "closed" => Outstanding = {}

IInv == Typed /\ OnePlace /\ OnItsWay /\ Counts /\ ClosedForGood
-----------------------------------------------------------------------------
\* The counted work is a finite set.
LEMMA OutstandingFinite ==
    ASSUME Typed, Counts
    PROVE  Outstanding \subseteq added /\ IsFiniteSet(Outstanding)
<1>1. Outstanding \subseteq added
  BY DEF Typed, Outstanding, Busy
<1> QED
  BY <1>1, FS_Subset DEF Counts

\* Before anything is added the invariant holds.
LEMMA InitIInv == Init => IInv
<1> SUFFICES ASSUME Init PROVE IInv
  OBVIOUS
<1>1. Busy = {} /\ Outstanding = {}
  BY DEF Init, Busy, Outstanding
<1>2. Typed
  BY DEF Init, Typed
<1>3. Counts
  BY <1>1, FS_EmptySet DEF Init, Counts
<1> QED
  BY <1>1, <1>2, <1>3 DEF Init, IInv, OnePlace, OnItsWay, ClosedForGood

\* Add counts the new work before anybody can take it.
LEMMA AddIInv ==
    ASSUME IInv, NEW w \in Work, Add(w)
    PROVE  IInv'
<1> USE DEF IInv, Add
<1>1. Typed'
  BY DEF Typed
<1>2. Busy' = Busy /\ w \notin Outstanding /\ Outstanding' = Outstanding \cup {w}
  <2>1. Busy' = Busy
    BY DEF Busy
  <2>2. w \notin Outstanding
    BY OutstandingFinite
  <2> QED
    BY <2>1, <2>2 DEF Outstanding
<1>3. OnePlace'
  BY <1>2 DEF OnePlace, Typed, Busy
<1>4. OnItsWay'
  BY DEF OnItsWay
<1>5. Counts'
  <2>1. IsFiniteSet(added')
    BY FS_AddElement DEF Counts
  <2>2. Cardinality(Outstanding') = Cardinality(Outstanding) + 1
    BY <1>2, OutstandingFinite, FS_AddElement
  <2> QED
    BY <2>1, <2>2 DEF Counts
<1>6. wait # "closed"
  BY DEF MayAdd, ClosedForGood, Outstanding, OnePlace, Busy
<1> QED
  BY <1>1, <1>3, <1>4, <1>5, <1>6 DEF ClosedForGood

\* A worker takes over what a sender had.
LEMMA ReceiveIInv ==
    ASSUME IInv, NEW v \in Workers, NEW w \in Work, Receive(v, w)
    PROVE  IInv'
<1> USE DEF IInv, Receive
<1>1. Typed'
  BY DEF Typed
<1>2. Busy' = Busy \cup {v} /\ v \notin Busy /\ hand'[v] = {w}
      /\ \A u \in Busy : hand'[u] = hand[u]
  BY DEF Typed, Busy
<1>3. Outstanding' = Outstanding
  BY <1>2 DEF Outstanding
<1>4. OnePlace'
  BY <1>2 DEF OnePlace, Typed
<1>5. OnItsWay'
  BY <1>2 DEF OnItsWay, Typed, Busy
<1> QED
  BY <1>1, <1>3, <1>4, <1>5 DEF Counts, ClosedForGood

\* Exec returns: the work is executed, and still counted.
LEMMA ExecIInv ==
    ASSUME IInv, NEW v \in Workers, Exec(v)
    PROVE  IInv'
<1> USE DEF IInv, Exec
<1>1. Typed'
  BY DEF Typed
<1>2. Busy' = Busy
  BY DEF Typed, Busy
<1>3. Outstanding' = Outstanding
  BY <1>2 DEF Outstanding
<1>4. OnePlace'
  BY <1>2 DEF OnePlace
<1>5. OnItsWay'
  BY DEF OnItsWay, Typed
<1> QED
  BY <1>1, <1>3, <1>4, <1>5 DEF Counts, ClosedForGood

\* wg.Done() counts off one piece of work, which no other worker has.
LEMMA DoneIInv ==
    ASSUME IInv, NEW v \in Workers, Done(v)
    PROVE  IInv'
<1> USE DEF IInv, Done
<1>1. Typed'
  BY DEF Typed
<1>2. Busy' = Busy \ {v} /\ v \in Busy
  BY DEF Typed, Busy
<1>3. PICK w \in added : hand[v] = {w}
  BY <1>2 DEF OnePlace
<1>4. w \in Outstanding /\ Outstanding' = Outstanding \ {w}
  <2>1. w \notin sending /\ \A u \in Busy \ {v} : w \notin hand[u]
    BY <1>2, <1>3 DEF OnePlace
  <2> QED
    BY <1>2, <1>3, <2>1 DEF Outstanding
<1>5. OnePlace'
  BY <1>2 DEF OnePlace
<1>6. OnItsWay'
  BY DEF OnItsWay, Typed
<1>7. Counts'
  BY <1>4, OutstandingFinite, FS_RemoveElement DEF Counts
<1> QED
  BY <1>1, <1>4, <1>5, <1>6, <1>7 DEF ClosedForGood

\* The other steps move nothing.
LEMMA OtherIInv ==
    ASSUME IInv,
           Start \/ Wait \/ Close \/ Cancel \/ (\E v \in Workers : Exit(v)) \/ UNCHANGED vars
    PROVE  IInv'
<1> USE DEF IInv, Start, Wait, Close, Cancel, Exit, vars
<1>1. Typed'
  BY DEF Typed
<1>2. Busy' = Busy /\ Outstanding' = Outstanding
  <2>1. Busy' = Busy
    BY DEF Typed, Busy
  <2> QED
    BY <2>1 DEF Outstanding
<1>3. OnePlace'
  BY <1>2 DEF OnePlace
<1>4. OnItsWay'
  BY DEF OnItsWay, Typed
<1>5. ClosedForGood'
  <2>1. wg = 0 => Outstanding = {}
    BY OutstandingFinite, FS_EmptySet DEF Counts
  <2> QED
    BY <1>2, <2>1 DEF ClosedForGood
<1> QED
  BY <1>1, <1>2, <1>3, <1>4, <1>5 DEF Counts

\* IInv is inductive.
LEMMA NextIInv == IInv /\ [Next]_vars => IInv'
  BY AddIInv, ReceiveIInv, ExecIInv, DoneIInv, OtherIInv DEF Next, Step

\* The counter is that of a finite set, so it is not negative.
LEMMA TypedIsTyped == IInv => TypeOK
  BY OutstandingFinite, FS_CardinalityType DEF IInv, Typed, Counts, TypeOK

\* Nothing is outstanding once the channel is closed.
LEMMA IsDone == IInv => AllDone
<1> SUFFICES ASSUME IInv, wait = "closed" PROVE executed = added
  BY DEF AllDone
<1>1. sending = {} /\ Busy = {}
  BY DEF IInv, ClosedForGood, Outstanding, OnePlace
<1> QED
  BY <1>1 DEF IInv, OnItsWay, Busy, Typed
-----------------------------------------------------------------------------
\* Every variable keeps its type: the WaitGroup never goes below zero, for
\* which the program would panic (doWork).
THEOREM PoolType == Spec => []TypeOK
  BY TypedIsTyped, InitIInv, NextIInv, PTL DEF Spec

\* "Wait returns a channel which is closed when the wait group is empty": when
\* it is closed all work has been executed, what was added meanwhile included.
THEOREM PoolDone == Spec => []AllDone
  BY IsDone, InitIInv, NextIInv, PTL DEF Spec
=============================================================================
