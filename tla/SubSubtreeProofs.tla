-------------------------- MODULE SubSubtreeProofs --------------------------
(***************************************************************************)
(* Proofs about SubSubtree, for every graph of nodes, any number of calls, *)
(* dispatchers and any capacity of the channel.                            *)
(***************************************************************************)
EXTENDS SubSubtree, FiniteSetTheorems, TLAPS

USE ConstantsOK DEF ConstantsOK

\* The children of every node are finitely many.
LEMMA ChildFinite == \A S \in SUBSET Node : IsFiniteSet(S) /\ Cardinality(S) \in Nat
  BY FS_Subset, FS_CardinalityType

\* TypeOK without the claim that no counter is negative, which needs to know
\* what the counters count.
Typed ==
    /\ before \subseteq Node
    /\ known \subseteq Node
    /\ asked \subseteq Node
    /\ failed \subseteq Node
    /\ cancelled \in BOOLEAN
    /\ cpc \in [Call -> {"idle", "send", "wait", "returned"}]
    /\ wg \in [Call -> Int]
    /\ queue \in [Call -> Seq(Node)]
    /\ sending \in [Call -> SUBSET Node]
    /\ wpc \in [Worker -> {"off", "ready", "fetch", "store", "exited"}]
    /\ job \in [Worker -> Node]
    /\ todo \in [Worker -> SUBSET Node]
    /\ targets \in [Worker -> SUBSET Node]

\* The initial state has the type.
LEMMA InitTyped == Init => Typed
<1> SUFFICES ASSUME Init PROVE Typed
  OBVIOUS
<1>1. job \in [Worker -> Node]
  BY DEF Init
<1>2. queue \in [Call -> Seq(Node)]
  BY DEF Init
<1>3. /\ cpc \in [Call -> {"idle", "send", "wait", "returned"}]
      /\ wg \in [Call -> Int]
      /\ sending \in [Call -> SUBSET Node]
  BY DEF Init
<1>4. /\ wpc \in [Worker -> {"off", "ready", "fetch", "store", "exited"}]
      /\ todo \in [Worker -> SUBSET Node]
      /\ targets \in [Worker -> SUBSET Node]
  BY DEF Init
<1>5. /\ before \subseteq Node
      /\ known \subseteq Node
      /\ asked \subseteq Node
      /\ failed \subseteq Node
      /\ cancelled \in BOOLEAN
  BY DEF Init
<1> QED
  BY <1>1, <1>2, <1>3, <1>4, <1>5 DEF Typed

\* Every step keeps it.
LEMMA NextTyped == Typed /\ [Next]_vars => Typed'
<1> SUFFICES ASSUME Typed, [Next]_vars PROVE Typed'
  OBVIOUS
<1> USE DEF Typed, vars, history, callVars, workVars
<1>1. CASE UNCHANGED vars
  BY <1>1
<1>2. ASSUME NEW c \in Call, Start(c) PROVE Typed'
  BY <1>2 DEF Start
<1>3. ASSUME NEW c \in Call, SendRoot(c) PROVE Typed'
  BY <1>3 DEF SendRoot
<1>4. ASSUME NEW c \in Call, Return(c) PROVE Typed'
  BY <1>4 DEF Return
<1>5. ASSUME NEW c \in Call, Send(c) PROVE Typed'
  BY <1>5 DEF Send
<1>6. ASSUME NEW w \in Worker, Take(w) PROVE Typed'
  BY <1>6 DEF Take
<1>7. ASSUME NEW w \in Worker, Answer(w) PROVE Typed'
  BY <1>7 DEF Answer
<1>8. ASSUME NEW w \in Worker, Fail(w) PROVE Typed'
  BY <1>8 DEF Fail
<1>9. ASSUME NEW w \in Worker, Store(w) PROVE Typed'
  BY <1>9 DEF Store
<1>10. ASSUME NEW w \in Worker, Finish(w) PROVE Typed'
  <2>1. Cardinality(targets[w]) \in Nat
    BY ChildFinite
  <2> QED
    BY <1>10, <2>1 DEF Finish
<1>11. ASSUME NEW w \in Worker, Exit(w) PROVE Typed'
  BY <1>11 DEF Exit
<1>12. CASE Cancel
  BY <1>12 DEF Cancel
<1>13. CASE Terminated
  BY <1>13 DEF Terminated
<1> QED
  BY <1>1, <1>2, <1>3, <1>4, <1>5, <1>6, <1>7, <1>8, <1>9, <1>10, <1>11, <1>12,
     <1>13 DEF Next, Step, CallStep, WorkerStep
-----------------------------------------------------------------------------
(* Channels.                                                               *)

NoTwice(q) == \A i, j \in DOMAIN q : q[i] = q[j] => i = j

\* A send adds its id to what is in the channel.
LEMMA SendRange ==
  ASSUME NEW q \in Seq(Node), NEW x \in Node
  PROVE  /\ Range(Append(q, x)) = Range(q) \cup {x}
         /\ NoTwice(q) /\ x \notin Range(q) => NoTwice(Append(q, x))
<1>1. /\ DOMAIN Append(q, x) = 1..(Len(q) + 1)
      /\ DOMAIN q = 1..Len(q)
      /\ Len(q) \in Nat
      /\ \A i \in 1..Len(q) : Append(q, x)[i] = q[i]
      /\ Append(q, x)[Len(q) + 1] = x
  OBVIOUS
<1> DEFINE a == Append(q, x)
           l == Len(q)
<1>2. Range(a) = Range(q) \cup {x}
  <2>1. \A i \in 1..(l + 1) : i \in 1..l \/ i = l + 1
    BY <1>1
  <2>2. 1..l \subseteq 1..(l + 1) /\ l + 1 \in 1..(l + 1)
    BY <1>1
  <2> HIDE DEF a, l
  <2> QED
    BY <1>1, <2>1, <2>2 DEF Range, a, l
<1>3. ASSUME NoTwice(q), x \notin Range(q) PROVE NoTwice(a)
  <2> SUFFICES ASSUME NEW i \in 1..(l + 1), NEW j \in 1..(l + 1), a[i] = a[j]
               PROVE  i = j
    BY <1>1 DEF NoTwice
  <2>1. \A k \in 1..l : a[k] # x
    BY <1>1, <1>3 DEF Range
  <2>2. (i \in 1..l /\ j \in 1..l) => i = j
    BY <1>1, <1>3 DEF NoTwice
  <2> HIDE DEF a
  <2> QED
    BY <1>1, <2>1, <2>2 DEF a
<1> QED
  BY <1>2, <1>3

\* A receive takes the first id out of it.
LEMMA ReceiveRange ==
  ASSUME NEW q \in Seq(Node), q # <<>>
  PROVE  /\ Head(q) \in Range(q)
         /\ NoTwice(q) => /\ Range(Tail(q)) = Range(q) \ {Head(q)}
                          /\ NoTwice(Tail(q))
<1> DEFINE t == Tail(q)
           l == Len(q)
<1>1. /\ DOMAIN q = 1..l
      /\ l \in Nat \ {0}
      /\ DOMAIN t = 1..(l - 1)
      /\ \A i \in 1..(l - 1) : t[i] = q[i + 1]
      /\ Head(q) = q[1]
  OBVIOUS
<1> HIDE DEF t, l
<1>2. Head(q) \in Range(q)
  BY <1>1 DEF Range
<1>3. ASSUME NoTwice(q) PROVE Range(t) = Range(q) \ {Head(q)}
  <2>1. \A i \in 1..(l - 1) : i + 1 \in 1..l /\ i + 1 # 1
    BY <1>1
  <2>2. \A i \in 1..l : i # 1 => (i - 1 \in 1..(l - 1) /\ (i - 1) + 1 = i)
    BY <1>1
  <2>3. Range(t) \subseteq Range(q) \ {Head(q)}
    BY <1>1, <1>3, <2>1 DEF Range, NoTwice
  <2>4. Range(q) \ {Head(q)} \subseteq Range(t)
    <3> SUFFICES ASSUME NEW x \in Range(q), x # Head(q) PROVE x \in Range(t)
      OBVIOUS
    <3> PICK i \in 1..l : x = q[i]
      BY <1>1 DEF Range
    <3>0. i # 1
      BY <1>1
    <3>1. i - 1 \in 1..(l - 1) /\ t[i - 1] = q[(i - 1) + 1]
      BY <1>1, <2>2, <3>0
    <3> QED
      BY <1>1, <2>2, <3>0, <3>1 DEF Range
  <2> QED
    BY <2>3, <2>4
<1>4. ASSUME NoTwice(q) PROVE NoTwice(t)
  <2> SUFFICES ASSUME NEW i \in 1..(l - 1), NEW j \in 1..(l - 1), t[i] = t[j]
               PROVE  i = j
    BY <1>1 DEF NoTwice
  <2>1. i + 1 \in 1..l /\ j + 1 \in 1..l
    BY <1>1
  <2>2. q[i + 1] = q[j + 1]
    BY <1>1
  <2>3. i + 1 = j + 1
    BY <1>1, <1>4, <2>1, <2>2 DEF NoTwice
  <2> QED
    BY <2>3
<1> QED
  BY <1>2, <1>3, <1>4 DEF t
-----------------------------------------------------------------------------
(* The inductive invariant, call by call.                                  *)

\* A call's outstanding jobs are finitely many nodes.
LEMMA JobsFinite == Typed => \A c \in Call : Outstanding(c) \subseteq Node /\ IsFiniteSet(Outstanding(c))
<1> SUFFICES ASSUME Typed, NEW c \in Call
             PROVE  Outstanding(c) \subseteq Node /\ IsFiniteSet(Outstanding(c))
  OBVIOUS
<1>1. Queued(c) \subseteq Node
  <2> SUFFICES ASSUME NEW i \in DOMAIN queue[c] PROVE queue[c][i] \in Node
    BY DEF Queued, Range
  <2>1. queue[c] \in Seq(Node)
    BY DEF Typed
  <2> QED
    BY <2>1
<1>2. InHand(c) \subseteq Node /\ AtCaller(c) \subseteq Node /\ sending[c] \subseteq Node
  BY DEF InHand, AtCaller, Crew, Typed
<1>3. Outstanding(c) \subseteq Node
  BY <1>1, <1>2 DEF Outstanding
<1> QED
  BY <1>3, FS_Subset

\* A step that leaves a call's goroutines and channel alone keeps its part of
\* the invariant.
Untouched(d) ==
    /\ cpc'[d] = cpc[d] /\ wg'[d] = wg[d]
    /\ queue'[d] = queue[d] /\ sending'[d] = sending[d]
    /\ \A w \in Crew(d) : wpc'[w] = wpc[w] /\ job'[w] = job[w] /\ targets'[w] = targets[w]
    /\ known \subseteq known'
    /\ cancelled => cancelled'

\* Such a step keeps the invariant of the call and its jobs.
LEMMA Frame ==
  ASSUME NEW d \in Call, Untouched(d), CallInv(d)
  PROVE  CallInv(d)' /\ Outstanding(d)' = Outstanding(d)
<1>1. Crew(d)' = Crew(d)
  BY DEF Crew
<1>2. \A w \in Crew(d) : Busy(w)' <=> Busy(w)
  BY DEF Busy, Untouched
<1>3. InHand(d)' = InHand(d)
  BY <1>1, <1>2 DEF InHand, Untouched
<1>4. /\ Queued(d)' = Queued(d) /\ AtCaller(d)' = AtCaller(d)
      /\ Outstanding(d)' = Outstanding(d)
  BY <1>3 DEF Queued, AtCaller, Outstanding, Untouched
<1>5. OnePlace(d)'
  BY <1>1, <1>2, <1>3, <1>4 DEF CallInv, OnePlace, Untouched
<1>6. FreshTargets(d)'
  BY <1>1, <1>4 DEF CallInv, FreshTargets, Untouched
<1>7. JobsKnown(d)'
  BY <1>1, <1>4 DEF CallInv, JobsKnown, Untouched
<1>8. Phases(d)'
  BY <1>1, <1>4 DEF CallInv, Phases, Untouched
<1>9. Counts(d)'
  BY <1>4 DEF CallInv, Counts, Untouched
<1> QED
  BY <1>4, <1>5, <1>6, <1>7, <1>8, <1>9 DEF CallInv

AllCalls == \A c \in Call : CallInv(c)

\* The step moves jobs about, and neither adds nor ends one.
JobsKept == \A c \in Call : Outstanding(c)' = Outstanding(c)

\* In the beginning no call has a job.
LEMMA InitCalls == Init => AllCalls
<1> SUFFICES ASSUME Init, NEW c \in Call PROVE CallInv(c)
  BY DEF AllCalls
<1>1. /\ cpc[c] = "idle" /\ wg[c] = 0 /\ queue[c] = <<>> /\ sending[c] = {}
      /\ \A w \in Worker : wpc[w] = "off" /\ targets[w] = {}
  BY DEF Init
<1>2. Queued(c) = {} /\ InHand(c) = {} /\ AtCaller(c) = {} /\ Outstanding(c) = {}
  BY <1>1 DEF Queued, Range, InHand, Crew, Busy, AtCaller, Outstanding
<1>3. OnePlace(c)
  BY <1>1, <1>2 DEF OnePlace, Crew, Busy
<1>4. FreshTargets(c) /\ JobsKnown(c) /\ Phases(c)
  BY <1>1, <1>2 DEF FreshTargets, JobsKnown, Phases, Crew
<1>5. Counts(c)
  BY <1>1, <1>2, FS_EmptySet DEF Counts
<1> QED
  BY <1>3, <1>4, <1>5 DEF CallInv

\* The call that starts has one job, its root, and counts one.
LEMMA StartCalls ==
  ASSUME Typed, AllCalls, NEW c \in Call, Start(c)
  PROVE  AllCalls'
<1>1. ASSUME NEW d \in Call, d # c PROVE CallInv(d)'
  <2>1. Untouched(d)
    BY <1>1 DEF Start, Untouched, Crew, Typed
  <2> QED
    BY <2>1, Frame DEF AllCalls
<1>2. CallInv(c)
  BY DEF AllCalls
<1>3. /\ cpc'[c] = "send" /\ wg'[c] = 1 /\ queue' = queue /\ sending' = sending
      /\ targets' = targets /\ known' = known \cup {Root[c]}
      /\ \A w \in Crew(c) : wpc'[w] = "ready" /\ wpc[w] = "off"
  BY <1>2 DEF Start, Typed, CallInv, Phases, Crew
<1>4. Queued(c)' = {} /\ sending'[c] = {} /\ InHand(c)' = {} /\ AtCaller(c)' = {Root[c]}
  <2>1. Outstanding(c) = {}
    BY <1>2 DEF CallInv, Phases, Start
  <2> QED
    BY <1>3, <2>1 DEF Outstanding, Queued, InHand, AtCaller, Busy, Crew
<1>5. Outstanding(c)' = {Root[c]} /\ Crew(c)' = Crew(c)
  BY <1>4 DEF Outstanding, Crew
<1>6. OnePlace(c)'
  BY <1>2, <1>3, <1>4, <1>5 DEF OnePlace, CallInv, Busy
<1>7. \A w \in Crew(c) : targets[w] = {}
  BY <1>2, <1>3 DEF CallInv, FreshTargets
<1>8. FreshTargets(c)' /\ JobsKnown(c)' /\ Phases(c)'
  BY <1>3, <1>5, <1>7 DEF FreshTargets, JobsKnown, Phases
<1>9. Counts(c)'
  BY <1>3, <1>5, FS_Singleton DEF Counts
<1> QED
  BY <1>1, <1>6, <1>8, <1>9 DEF CallInv, AllCalls

\* The root goes from the caller into the channel: the same job elsewhere.
LEMMA SendRootCalls ==
  ASSUME Typed, AllCalls, NEW c \in Call, SendRoot(c)
  PROVE  AllCalls' /\ JobsKept
<1>1. ASSUME NEW d \in Call, d # c
      PROVE  CallInv(d)' /\ Outstanding(d)' = Outstanding(d)
  <2>1. Untouched(d)
    BY <1>1 DEF SendRoot, Untouched, Crew, Typed, workVars
  <2> QED
    BY <2>1, Frame DEF AllCalls
<1>2. CallInv(c)
  BY DEF AllCalls
<1>3. /\ cpc[c] = "send" /\ cpc'[c] = "wait" /\ wg' = wg /\ sending' = sending
      /\ queue'[c] = Append(queue[c], Root[c])
      /\ targets' = targets /\ known' = known /\ wpc' = wpc /\ job' = job
      /\ cancelled' = cancelled /\ queue[c] \in Seq(Node)
  BY DEF SendRoot, Typed, workVars
<1>4. /\ Queued(c)' = Queued(c) \cup {Root[c]}
      /\ InHand(c)' = InHand(c) /\ AtCaller(c) = {Root[c]} /\ AtCaller(c)' = {}
      /\ Crew(c)' = Crew(c)
  BY <1>3, SendRange DEF Queued, InHand, AtCaller, Busy, Crew
<1>5. Outstanding(c)' = Outstanding(c)
  BY <1>3, <1>4 DEF Outstanding
<1>6. NoTwice(queue'[c])
  <2>1. NoTwice(queue[c]) /\ Root[c] \notin Range(queue[c])
    BY <1>2, <1>4 DEF CallInv, OnePlace, NoTwice, Queued
  <2> QED
    BY <1>3, <2>1, SendRange
<1>7. OnePlace(c)'
  <2>1. \A v, w \in Crew(c) : Busy(v)' /\ Busy(w)' /\ job'[v] = job'[w] => v = w
    BY <1>2, <1>3 DEF CallInv, OnePlace, Busy
  <2> QED
    BY <1>2, <1>3, <1>4, <1>6, <2>1 DEF CallInv, OnePlace, NoTwice
<1>8. FreshTargets(c)' /\ JobsKnown(c)' /\ Phases(c)'
  BY <1>2, <1>3, <1>4, <1>5 DEF CallInv, FreshTargets, JobsKnown, Phases
<1>9. Counts(c)'
  BY <1>2, <1>3, <1>5 DEF CallInv, Counts
<1> QED
  BY <1>1, <1>5, <1>7, <1>8, <1>9 DEF CallInv, AllCalls, JobsKept

\* A call that returns has counted down to zero, so nothing is outstanding.
LEMMA ReturnCalls ==
  ASSUME Typed, AllCalls, NEW c \in Call, Return(c)
  PROVE  AllCalls' /\ JobsKept
<1>1. ASSUME NEW d \in Call, d # c
      PROVE  CallInv(d)' /\ Outstanding(d)' = Outstanding(d)
  <2>1. Untouched(d)
    BY <1>1 DEF Return, Untouched, Crew, Typed, workVars
  <2> QED
    BY <2>1, Frame DEF AllCalls
<1>2. CallInv(c)
  BY DEF AllCalls
<1>3. /\ cpc[c] = "wait" /\ cpc'[c] = "returned" /\ wg[c] = 0 /\ wg' = wg
      /\ sending' = sending /\ queue' = queue /\ targets' = targets
      /\ known' = known /\ wpc' = wpc /\ job' = job /\ cancelled' = cancelled
  BY DEF Return, Typed, workVars
<1>4. /\ Queued(c)' = Queued(c) /\ InHand(c)' = InHand(c)
      /\ AtCaller(c) = {} /\ AtCaller(c)' = {} /\ Crew(c)' = Crew(c)
  BY <1>3 DEF Queued, InHand, AtCaller, Busy, Crew
<1>5. Outstanding(c)' = Outstanding(c) /\ Outstanding(c) = {}
  <2>1. Cardinality(Outstanding(c)) = 0
    BY <1>2, <1>3 DEF CallInv, Counts
  <2> QED
    BY <1>3, <1>4, <2>1, JobsFinite, FS_EmptySet DEF Outstanding
<1>6. OnePlace(c)'
  <2>1. \A v, w \in Crew(c) : Busy(v)' /\ Busy(w)' /\ job'[v] = job'[w] => v = w
    BY <1>2, <1>3 DEF CallInv, OnePlace, Busy
  <2> QED
    BY <1>2, <1>3, <1>4, <2>1 DEF CallInv, OnePlace
<1>7. FreshTargets(c)' /\ JobsKnown(c)' /\ Phases(c)'
  BY <1>2, <1>3, <1>4, <1>5 DEF CallInv, FreshTargets, JobsKnown, Phases
<1>8. Counts(c)'
  BY <1>2, <1>3, <1>5 DEF CallInv, Counts
<1> QED
  BY <1>1, <1>5, <1>6, <1>7, <1>8 DEF CallInv, AllCalls, JobsKept

\* A sender's id goes into the channel: the same job elsewhere.
LEMMA SendCalls ==
  ASSUME Typed, AllCalls, NEW c \in Call, Send(c)
  PROVE  AllCalls' /\ JobsKept
<1>1. ASSUME NEW d \in Call, d # c
      PROVE  CallInv(d)' /\ Outstanding(d)' = Outstanding(d)
  <2>1. Untouched(d)
    BY <1>1 DEF Send, Untouched, Crew, Typed, workVars
  <2> QED
    BY <2>1, Frame DEF AllCalls
<1>2. CallInv(c)
  BY DEF AllCalls
<1> PICK id \in sending[c] :
          /\ sending' = [sending EXCEPT ![c] = @ \ {id}]
          /\ queue' = [queue EXCEPT ![c] = Append(@, id)]
  BY DEF Send
<1>3. /\ id \in Node /\ queue[c] \in Seq(Node)
      /\ cpc' = cpc /\ wg' = wg
      /\ sending'[c] = sending[c] \ {id}
      /\ queue'[c] = Append(queue[c], id)
      /\ targets' = targets /\ known' = known /\ wpc' = wpc /\ job' = job
      /\ cancelled' = cancelled
  BY DEF Send, Typed, workVars
<1>4. /\ Queued(c)' = Queued(c) \cup {id}
      /\ InHand(c)' = InHand(c) /\ AtCaller(c)' = AtCaller(c)
      /\ Crew(c)' = Crew(c)
  BY <1>3, SendRange DEF Queued, InHand, AtCaller, Busy, Crew
<1>5. Outstanding(c)' = Outstanding(c)
  BY <1>3, <1>4 DEF Outstanding
<1>6. NoTwice(queue'[c])
  <2>1. NoTwice(queue[c]) /\ id \notin Range(queue[c])
    BY <1>2, <1>4 DEF CallInv, OnePlace, NoTwice, Queued
  <2> QED
    BY <1>3, <2>1, SendRange
<1>7. OnePlace(c)'
  <2>1. \A v, w \in Crew(c) : Busy(v)' /\ Busy(w)' /\ job'[v] = job'[w] => v = w
    BY <1>2, <1>3 DEF CallInv, OnePlace, Busy
  <2> QED
    BY <1>2, <1>3, <1>4, <1>6, <2>1 DEF CallInv, OnePlace, NoTwice
<1>8. FreshTargets(c)' /\ JobsKnown(c)' /\ Phases(c)'
  BY <1>2, <1>3, <1>4, <1>5 DEF CallInv, FreshTargets, JobsKnown, Phases
<1>9. Counts(c)'
  BY <1>2, <1>3, <1>5 DEF CallInv, Counts
<1> QED
  BY <1>1, <1>5, <1>7, <1>8, <1>9 DEF CallInv, AllCalls, JobsKept

\* A received id goes into the dispatcher's hands: the same job elsewhere.
LEMMA TakeCalls ==
  ASSUME Typed, AllCalls, NEW w \in Worker, Take(w)
  PROVE  AllCalls' /\ JobsKept
<1> DEFINE c == Owner[w]
           id == Head(queue[c])
<1>0. c \in Call /\ w \in Crew(c) /\ CallInv(c)
  BY DEF Crew, AllCalls
<1>1. ASSUME NEW d \in Call, d # c
      PROVE  CallInv(d)' /\ Outstanding(d)' = Outstanding(d)
  <2>1. Untouched(d)
    BY <1>1 DEF Take, Untouched, Crew, Typed
  <2> QED
    BY <2>1, Frame DEF AllCalls
<1>2. /\ queue[c] \in Seq(Node) /\ queue[c] # <<>>
      /\ cpc' = cpc /\ wg' = wg /\ sending' = sending /\ targets' = targets
      /\ known' = known /\ cancelled' = cancelled
      /\ queue'[c] = Tail(queue[c])
      /\ wpc[w] = "ready" /\ wpc'[w] = "fetch" /\ job'[w] = id
      /\ \A v \in Worker : v # w => wpc'[v] = wpc[v] /\ job'[v] = job[v]
  BY <1>0 DEF Take, Typed
<1> HIDE DEF c, id
<1>3. NoTwice(queue[c]) /\ id \in Queued(c)
  BY <1>0, <1>2, ReceiveRange DEF CallInv, OnePlace, NoTwice, Queued, id
<1>4. /\ Queued(c)' = Queued(c) \ {id} /\ NoTwice(queue'[c])
  BY <1>2, <1>3, ReceiveRange DEF Queued, id
<1>5. /\ InHand(c)' = InHand(c) \cup {id} /\ AtCaller(c)' = AtCaller(c)
      /\ Crew(c)' = Crew(c)
  <2>1. Crew(c)' = Crew(c) /\ AtCaller(c)' = AtCaller(c)
    BY <1>2 DEF Crew, AtCaller
  <2>2. \A v \in Crew(c) : Busy(v)' <=> Busy(v) \/ v = w
    BY <1>2 DEF Busy, Crew
  <2>3. ~Busy(w)
    BY <1>2 DEF Busy
  <2>4. \A v \in Crew(c) : v # w => job'[v] = job[v]
    BY <1>2 DEF Crew
  <2> DEFINE B == {v \in Crew(c) : Busy(v)}
  <2>5. {v \in Crew(c)' : Busy(v)'} = B \cup {w} /\ w \notin B
    BY <1>0, <2>1, <2>2, <2>3
  <2>6. {job'[v] : v \in B \cup {w}} = {job[v] : v \in B} \cup {id}
    BY <1>2, <2>4, <2>5
  <2> QED
    BY <2>1, <2>5, <2>6 DEF InHand
<1>6. Outstanding(c)' = Outstanding(c)
  BY <1>2, <1>3, <1>4, <1>5 DEF Outstanding
<1>7. OnePlace(c)'
  <2>1. id \notin InHand(c) /\ id \notin sending[c] /\ id \notin AtCaller(c)
    BY <1>0, <1>3 DEF CallInv, OnePlace
  <2>2. \A u, v \in Crew(c) : Busy(u)' /\ Busy(v)' /\ job'[u] = job'[v] => u = v
    <3> SUFFICES ASSUME NEW u \in Crew(c), NEW v \in Crew(c), Busy(u)', Busy(v)',
                        job'[u] = job'[v], u # v
                 PROVE  FALSE
      OBVIOUS
    <3>1. \A x \in Crew(c) : x # w /\ Busy(x)' => Busy(x) /\ job'[x] = job[x] /\ job[x] \in InHand(c)
      BY <1>2 DEF Busy, Crew, InHand
    <3>2. CASE u # w /\ v # w
      BY <1>0, <3>1, <3>2 DEF CallInv, OnePlace
    <3>3. CASE u = w
      BY <1>2, <2>1, <3>1, <3>3
    <3>4. CASE v = w
      BY <1>2, <2>1, <3>1, <3>4
    <3> QED
      BY <3>2, <3>3, <3>4
  <2>3. /\ Queued(c)' \cap sending'[c] = {}
        /\ InHand(c)' \cap (Queued(c)' \cup sending'[c]) = {}
        /\ AtCaller(c)' \cap (InHand(c)' \cup Queued(c)' \cup sending'[c]) = {}
    BY <1>0, <1>2, <1>3, <1>4, <1>5, <2>1 DEF CallInv, OnePlace
  <2> QED
    BY <1>4, <1>5, <2>2, <2>3 DEF OnePlace, NoTwice
<1>8. FreshTargets(c)'
  <2>1. targets[w] = {}
    BY <1>0, <1>2 DEF CallInv, FreshTargets
  <2> QED
    BY <1>0, <1>2, <1>5, <1>6, <2>1 DEF CallInv, FreshTargets, Crew
<1>9. JobsKnown(c)' /\ Phases(c)'
  <2>1. JobsKnown(c)'
    BY <1>0, <1>2, <1>5, <1>6 DEF CallInv, JobsKnown
  <2> QED
    BY <1>0, <1>2, <1>5, <1>6, <2>1 DEF CallInv, Phases, Crew
<1>10. Counts(c)'
  BY <1>0, <1>2, <1>6 DEF CallInv, Counts
<1> QED
  BY <1>1, <1>6, <1>7, <1>8, <1>9, <1>10 DEF CallInv, AllCalls, JobsKept

\* Answer and Fail leave the dispatcher with the same job and no targets.
LEMMA ReplyCalls ==
  ASSUME Typed, AllCalls, NEW w \in Worker, Answer(w) \/ Fail(w)
  PROVE  AllCalls' /\ JobsKept
<1> SUFFICES ASSUME NEW c \in Call 
             PROVE  CallInv(c)' /\ Outstanding(c)' = Outstanding(c)
  BY DEF AllCalls, JobsKept
<1>1. CallInv(c)
  BY DEF AllCalls
<1>2. /\ cpc' = cpc /\ wg' = wg /\ queue' = queue /\ sending' = sending
      /\ known' = known /\ cancelled' = cancelled /\ job' = job
      /\ wpc[w] = "fetch" /\ wpc'[w] = "store" /\ targets'[w] = {}
      /\ \A v \in Worker : v # w => wpc'[v] = wpc[v] /\ targets'[v] = targets[v]
  BY DEF Answer, Fail, Typed, callVars
<1>3. \A v \in Worker : (Busy(v)' <=> Busy(v)) /\ targets'[v] \subseteq targets[v]
                        /\ (targets'[v] # {} => v # w)
  BY <1>2 DEF Busy
<1>4. /\ Crew(c)' = Crew(c) /\ InHand(c)' = InHand(c)
      /\ Queued(c)' = Queued(c) /\ AtCaller(c)' = AtCaller(c)
      /\ Outstanding(c)' = Outstanding(c)
  BY <1>2, <1>3 DEF Crew, InHand, Queued, AtCaller, Outstanding
<1>5. OnePlace(c)'
  BY <1>1, <1>2, <1>3, <1>4 DEF CallInv, OnePlace, Crew
<1>6. FreshTargets(c)'
  BY <1>1, <1>2, <1>3, <1>4 DEF CallInv, FreshTargets, Crew
<1>7. JobsKnown(c)'
  BY <1>1, <1>2, <1>3, <1>4 DEF CallInv, JobsKnown, Crew
<1>8. Phases(c)'
  BY <1>1, <1>2, <1>4 DEF CallInv, Phases, Crew
<1>9. Counts(c)'
  BY <1>1, <1>2, <1>4 DEF CallInv, Counts
<1> QED
  BY <1>4, <1>5, <1>6, <1>7, <1>8, <1>9 DEF CallInv

\* Storing a child adds it to the targets only if nobody knew it, so it is
\* neither a job nor a target of any call.
LEMMA StoreCalls ==
  ASSUME Typed, AllCalls, NEW w \in Worker, Store(w)
  PROVE  AllCalls' /\ JobsKept
<1> PICK child \in todo[w] :
          /\ known' = known \cup {child}
          /\ targets' = [targets EXCEPT ![w] = @ \cup ({child} \ known)]
  BY DEF Store
<1> SUFFICES ASSUME NEW c \in Call 
             PROVE  CallInv(c)' /\ Outstanding(c)' = Outstanding(c)
  BY DEF AllCalls, JobsKept
<1>1. CallInv(c)
  BY DEF AllCalls
<1>2. /\ cpc' = cpc /\ wg' = wg /\ queue' = queue /\ sending' = sending
      /\ cancelled' = cancelled /\ job' = job /\ wpc' = wpc
      /\ wpc[w] = "store"
      /\ targets'[w] = targets[w] \cup ({child} \ known)
      /\ \A v \in Worker : v # w => targets'[v] = targets[v]
  BY DEF Store, Typed, callVars
<1>3. /\ Crew(c)' = Crew(c) /\ InHand(c)' = InHand(c)
      /\ Queued(c)' = Queued(c) /\ AtCaller(c)' = AtCaller(c)
      /\ Outstanding(c)' = Outstanding(c)
  BY <1>2 DEF Crew, InHand, Busy, Queued, AtCaller, Outstanding
<1>4. OnePlace(c)'
  BY <1>1, <1>2, <1>3 DEF CallInv, OnePlace, Busy
<1>5. /\ Outstanding(c) \subseteq known
      /\ \A v \in Crew(c) : targets[v] \subseteq known
  BY <1>1 DEF CallInv, JobsKnown
<1>6. FreshTargets(c)'
  <2>1. \A v \in Crew(c) : targets'[v] \cap Outstanding(c) = {}
    BY <1>1, <1>2, <1>5 DEF CallInv, FreshTargets, Crew
  <2>2. \A u, v \in Crew(c) : u # v => targets'[u] \cap targets'[v] = {}
    <3> SUFFICES ASSUME NEW u \in Crew(c), NEW v \in Crew(c), u # v
                 PROVE  targets'[u] \cap targets'[v] = {}
      OBVIOUS
    <3>1. targets[u] \cap targets[v] = {}
      BY <1>1 DEF CallInv, FreshTargets
    <3> QED
      BY <1>2, <1>5, <3>1 DEF Crew
  <2>3. \A v \in Crew(c) : targets'[v] # {} => wpc'[v] = "store"
    BY <1>1, <1>2 DEF CallInv, FreshTargets, Crew
  <2> QED
    BY <1>3, <2>1, <2>2, <2>3 DEF FreshTargets
<1>7. JobsKnown(c)'
  BY <1>2, <1>3, <1>5 DEF JobsKnown, Crew
<1>8. Phases(c)' /\ Counts(c)'
  BY <1>1, <1>2, <1>3 DEF CallInv, Phases, Counts
<1> QED
  BY <1>3, <1>4, <1>6, <1>7, <1>8 DEF CallInv

\* Finish counts its job off and its targets in: they become jobs.
LEMMA FinishCalls ==
  ASSUME Typed, AllCalls, NEW w \in Worker, Finish(w)
  PROVE  /\ AllCalls'
         /\ \A d \in Call : d # Owner[w] => Outstanding(d)' = Outstanding(d)
         /\ Outstanding(Owner[w])' = (Outstanding(Owner[w]) \ {job[w]}) \cup targets[w]
<1> DEFINE c == Owner[w]
           id == job[w]
           T == targets[w]
<1>0. c \in Call /\ w \in Crew(c) /\ CallInv(c) /\ id \in Node
  BY DEF Crew, AllCalls, Typed
<1>1. ASSUME NEW d \in Call, d # c
      PROVE  CallInv(d)' /\ Outstanding(d)' = Outstanding(d)
  <2>1. Untouched(d)
    BY <1>1 DEF Finish, Untouched, Crew, Typed
  <2> QED
    BY <2>1, Frame DEF AllCalls
<1>2. /\ cpc' = cpc /\ queue' = queue /\ job' = job
      /\ known' = known /\ cancelled' = cancelled
      /\ wg'[c] = wg[c] + (Cardinality(T) - 1)
      /\ sending'[c] = sending[c] \cup T
      /\ targets'[w] = {} /\ wpc[w] = "store" /\ wpc'[w] = "ready"
      /\ \A v \in Worker : v # w => wpc'[v] = wpc[v] /\ targets'[v] = targets[v]
  BY <1>0 DEF Finish, Typed
<1> HIDE DEF c, id, T
<1>3. id \in InHand(c) /\ Busy(w)
  BY <1>0, <1>2 DEF InHand, Busy, id
<1>4. T \cap Outstanding(c) = {} /\ T \subseteq Node
  BY <1>0 DEF CallInv, FreshTargets, Typed, T
<1>5. /\ InHand(c)' = InHand(c) \ {id} /\ Crew(c)' = Crew(c)
      /\ Queued(c)' = Queued(c) /\ AtCaller(c)' = AtCaller(c)
  <2>1. Crew(c)' = Crew(c) /\ Queued(c)' = Queued(c) /\ AtCaller(c)' = AtCaller(c)
    BY <1>2 DEF Crew, Queued, AtCaller
  <2>2. \A v \in Crew(c) : Busy(v)' <=> Busy(v) /\ v # w
    BY <1>2 DEF Busy, Crew
  <2> DEFINE B == {v \in Crew(c) : Busy(v)}
  <2>3. {v \in Crew(c)' : Busy(v)'} = B \ {w} /\ w \in B
    BY <1>0, <1>3, <2>1, <2>2
  <2>4. \A v \in B : job[v] = id => v = w
    BY <1>0, <1>3 DEF CallInv, OnePlace, id
  <2>5. {job[v] : v \in B \ {w}} = {job[v] : v \in B} \ {id}
    BY <2>3, <2>4 DEF id
  <2> QED
    BY <1>2, <2>1, <2>3, <2>5 DEF InHand
<1>6. /\ id \in Outstanding(c)
      /\ Outstanding(c)' = (Outstanding(c) \ {id}) \cup T
  <2>1. id \notin Queued(c) /\ id \notin sending[c] /\ id \notin AtCaller(c)
    BY <1>0, <1>3 DEF CallInv, OnePlace
  <2> QED
    BY <1>2, <1>3, <1>5, <2>1 DEF Outstanding
<1>7. OnePlace(c)'
  <2>1. \A u, v \in Crew(c) : Busy(u)' /\ Busy(v)' /\ job'[u] = job'[v] => u = v
    <3>1. \A v \in Crew(c) : Busy(v)' => Busy(v)
      BY <1>2 DEF Busy, Crew
    <3> QED
      BY <1>0, <1>2, <3>1 DEF CallInv, OnePlace
  <2>2. T \cap Queued(c) = {} /\ T \cap InHand(c) = {} /\ T \cap AtCaller(c) = {}
    BY <1>4 DEF Outstanding
  <2> QED
    BY <1>0, <1>2, <1>5, <2>1, <2>2 DEF CallInv, OnePlace
<1>8. FreshTargets(c)'
  <2>1. \A v \in Crew(c) : v # w => targets[v] \cap T = {}
    BY <1>0 DEF CallInv, FreshTargets, T
  <2>2. \A v \in Crew(c) : targets'[v] \cap Outstanding(c)' = {}
    BY <1>0, <1>2, <1>6, <2>1 DEF CallInv, FreshTargets, Crew
  <2>3. \A v \in Crew(c) : targets'[v] # {} => wpc'[v] = "store"
    BY <1>0, <1>2 DEF CallInv, FreshTargets, Crew
  <2>4. \A u, v \in Crew(c) : u # v => targets'[u] \cap targets'[v] = {}
    <3> SUFFICES ASSUME NEW u \in Crew(c), NEW v \in Crew(c), u # v
                 PROVE  targets'[u] \cap targets'[v] = {}
      OBVIOUS
    <3>1. targets[u] \cap targets[v] = {}
      BY <1>0 DEF CallInv, FreshTargets
    <3> QED
      BY <1>2, <3>1 DEF Crew
  <2> QED
    BY <1>5, <2>2, <2>3, <2>4 DEF FreshTargets
<1>9. JobsKnown(c)'
  <2>1. T \subseteq known /\ Outstanding(c) \subseteq known
    BY <1>0 DEF CallInv, JobsKnown, T
  <2>2. \A v \in Crew(c) : targets'[v] \subseteq known
    BY <1>0, <1>2 DEF CallInv, JobsKnown, Crew
  <2> QED
    BY <1>2, <1>5, <1>6, <2>1, <2>2 DEF JobsKnown
<1>10. Phases(c)'
  <2>1. cpc[c] \notin {"idle", "returned"}
    BY <1>0, <1>6 DEF CallInv, Phases
  <2> QED
    BY <1>0, <1>2, <1>5, <2>1 DEF CallInv, Phases, Crew
<1>11. Counts(c)'
  <2> DEFINE O == Outstanding(c)
  <2>1. IsFiniteSet(O) /\ IsFiniteSet(T) /\ IsFiniteSet(O \ {id})
    BY <1>0, <1>4, JobsFinite, ChildFinite, FS_RemoveElement
  <2>2. Cardinality(O \ {id}) = Cardinality(O) - 1
    BY <1>6, <2>1, FS_RemoveElement
  <2>3. (O \ {id}) \cap T = {}
    BY <1>4
  <2>4. Cardinality((O \ {id}) \cup T)
          = Cardinality(O \ {id}) + Cardinality(T) - Cardinality((O \ {id}) \cap T)
    BY <2>1, FS_Union
  <2>5. /\ Cardinality((O \ {id}) \cap T) = 0
        /\ Cardinality(O) \in Nat /\ Cardinality(T) \in Nat
    BY <2>1, <2>3, FS_EmptySet, FS_CardinalityType
  <2>6. wg[c] = Cardinality(O)
    BY <1>0 DEF CallInv, Counts
  <2>7. Cardinality(Outstanding(c)') = Cardinality(O) - 1 + Cardinality(T)
    BY <1>6, <2>2, <2>4, <2>5
  <2> QED
    BY <1>2, <2>5, <2>6, <2>7 DEF Counts
<1> QED
  BY <1>1, <1>6, <1>7, <1>8, <1>9, <1>10, <1>11 DEF CallInv, AllCalls, c, id, T

\* A dispatcher that leaves had neither a job nor targets.
LEMMA ExitCalls ==
  ASSUME Typed, AllCalls, NEW w \in Worker, Exit(w)
  PROVE  AllCalls' /\ JobsKept
<1> SUFFICES ASSUME NEW c \in Call 
             PROVE  CallInv(c)' /\ Outstanding(c)' = Outstanding(c)
  BY DEF AllCalls, JobsKept
<1>1. CallInv(c)
  BY DEF AllCalls
<1>2. /\ cpc' = cpc /\ wg' = wg /\ queue' = queue /\ sending' = sending
      /\ known' = known /\ cancelled' = cancelled /\ job' = job
      /\ targets' = targets
      /\ wpc[w] = "ready" /\ wpc'[w] = "exited"
      /\ cancelled \/ cpc[Owner[w]] = "returned"
      /\ \A v \in Worker : v # w => wpc'[v] = wpc[v]
  BY DEF Exit, Typed, callVars
<1>3. \A v \in Worker : Busy(v)' <=> Busy(v)
  BY <1>2 DEF Busy
<1>4. /\ Crew(c)' = Crew(c) /\ InHand(c)' = InHand(c)
      /\ Queued(c)' = Queued(c) /\ AtCaller(c)' = AtCaller(c)
      /\ Outstanding(c)' = Outstanding(c)
  BY <1>2, <1>3 DEF Crew, InHand, Queued, AtCaller, Outstanding
<1>5. OnePlace(c)'
  BY <1>1, <1>2, <1>3, <1>4 DEF CallInv, OnePlace, Crew
<1>6. FreshTargets(c)'
  BY <1>1, <1>2, <1>4 DEF CallInv, FreshTargets, Crew
<1>7. JobsKnown(c)' /\ Counts(c)'
  BY <1>1, <1>2, <1>4 DEF CallInv, JobsKnown, Counts
<1>8. Phases(c)'
  BY <1>1, <1>2, <1>4 DEF CallInv, Phases, Crew
<1> QED
  BY <1>4, <1>5, <1>6, <1>7, <1>8 DEF CallInv

\* Every step of the program keeps the invariant of every call.
LEMMA NextCalls == Typed /\ AllCalls /\ [Next]_vars => AllCalls'
<1> SUFFICES ASSUME Typed, AllCalls, [Next]_vars PROVE AllCalls'
  OBVIOUS
<1>1. ASSUME NEW c \in Call, CallStep(c) PROVE AllCalls'
  BY <1>1, StartCalls, SendRootCalls, ReturnCalls, SendCalls DEF CallStep
<1>2. ASSUME NEW w \in Worker, WorkerStep(w) PROVE AllCalls'
  BY <1>2, TakeCalls, ReplyCalls, StoreCalls, FinishCalls, ExitCalls DEF WorkerStep
<1>3. CASE UNCHANGED vars \/ Cancel
  <2>1. ASSUME NEW d \in Call PROVE CallInv(d)'
    <3>1. Untouched(d)
      BY <1>3 DEF vars, history, callVars, workVars, Cancel, Untouched
    <3> QED
      BY <3>1, Frame DEF AllCalls
  <2> QED
    BY <2>1 DEF AllCalls
<1> QED
  BY <1>1, <1>2, <1>3 DEF Next, Step, Terminated
-----------------------------------------------------------------------------
(* The theorems.                                                           *)

\* The type and the invariant of every call hold throughout (subSubtree's
\* counting in wg, one place for each job).
THEOREM CallsInvariant == Spec => [](Typed /\ AllCalls)
<1>1. Init => Typed /\ AllCalls
  BY InitTyped, InitCalls
<1>2. Typed /\ AllCalls /\ [Next]_vars => (Typed /\ AllCalls)'
  BY NextTyped, NextCalls
<1> QED
  BY <1>1, <1>2, PTL DEF Spec

\* The state has its type; in particular no WaitGroup counter ever becomes
\* negative (sync.WaitGroup would panic).
THEOREM TypeCorrect == Spec => []TypeOK
<1>1. Typed /\ AllCalls => TypeOK
  <2> SUFFICES ASSUME Typed, AllCalls PROVE TypeOK
    OBVIOUS
  <2>1. \A c \in Call : wg[c] \in Nat
    BY JobsFinite, FS_CardinalityType DEF AllCalls, CallInv, Counts
  <2>2. wg \in [Call -> Nat]
    BY <2>1 DEF Typed
  <2> QED
    BY <2>2 DEF Typed, TypeOK
<1> QED
  BY <1>1, CallsInvariant, PTL

\* The WaitGroup counts exactly the outstanding jobs.
THEOREM WaitGroupCorrect == Spec => []WaitGroupExact
<1>1. Typed /\ AllCalls => WaitGroupExact
  BY DEF AllCalls, CallInv, Counts, WaitGroupExact
<1> QED
  BY <1>1, CallsInvariant, PTL

\* The channel is closed only when nobody will send on it again.
THEOREM CloseCorrect == Spec => []CloseIsLast
<1>1. Typed /\ AllCalls => CloseIsLast
  <2> SUFFICES ASSUME Typed, AllCalls, NEW c \in Call, cpc[c] = "returned"
               PROVE  Outstanding(c) = {} /\ \A w \in Crew(c) : targets[w] = {}
    BY DEF CloseIsLast
  <2>1. CallInv(c) /\ Outstanding(c) = {}
    BY DEF AllCalls, CallInv, Phases
  <2>2. \A w \in Crew(c) : ~Busy(w)
    BY <2>1 DEF Outstanding, InHand
  <2> QED
    BY <2>1, <2>2 DEF CallInv, FreshTargets, Busy
<1> QED
  BY <1>1, CallsInvariant, PTL

\* No deadlock, whatever the number of dispatchers and the capacity.
THEOREM DeadlockFree == Spec => []NeverStuck
<1>1. Typed /\ AllCalls => NeverStuck
  <2> SUFFICES ASSUME Typed, AllCalls, ~cancelled,
                      NEW c \in Call, cpc[c] # "returned"
               PROVE  CanStep
    BY DEF NeverStuck, Returned
  <2>1. CallInv(c) /\ queue[c] \in Seq(Node)
    BY DEF AllCalls, Typed
  <2>2. CASE cpc[c] = "idle"
    BY <2>2 DEF CanStep
  <2>3. CASE cpc[c] \in {"send", "wait"}
    <3>1. PICK w \in Worker : Owner[w] = c
      OBVIOUS
    <3>2. Busy(w) \/ wpc[w] = "ready"
      BY <2>1, <2>3, <3>1 DEF CallInv, Phases, Busy, Crew, Typed
    <3>3. CASE queue[c] # <<>>
      BY <3>1, <3>2, <3>3 DEF CanStep
    <3>4. CASE queue[c] = <<>>
      <4>1. HasRoom(c) /\ Queued(c) = {}
        BY <3>4 DEF HasRoom, Queued, Range
      <4>2. CASE cpc[c] = "send" \/ sending[c] # {} \/ \E v \in Worker : Busy(v)
        BY <4>1, <4>2 DEF CanStep
      <4>3. CASE cpc[c] = "wait" /\ sending[c] = {} /\ \A v \in Worker : ~Busy(v)
        <5>1. Outstanding(c) = {}
          <6>1. AtCaller(c) = {}
            BY <4>3 DEF AtCaller
          <6>2. InHand(c) = {}
            BY <4>3 DEF InHand, Crew
          <6> QED
            BY <4>1, <4>3, <6>1, <6>2 DEF Outstanding
        <5>2. wg[c] = 0
          BY <2>1, <5>1, FS_EmptySet DEF CallInv, Counts
        <5> QED
          BY <4>3, <5>2 DEF CanStep
      <4> QED
        BY <2>3, <4>2, <4>3
    <3> QED
      BY <3>3, <3>4
  <2> QED
    BY <2>2, <2>3 DEF Typed
<1> QED
  BY <1>1, CallsInvariant, PTL
-----------------------------------------------------------------------------
(* Nothing is lost: every new node is a job, a target or settled.          *)

AllAccounted ==
    /\ \A n \in NewNodes : Accounted(n)
    /\ \A w \in Worker : Storing(w)

\* What was settled stays settled.
LEMMA SettledStays ==
  ASSUME NEW n, Settled(n), asked \subseteq asked', failed \subseteq failed',
         known \subseteq known'
  PROVE  Settled(n)'
  BY DEF Settled

\* In the beginning there is no new node.
LEMMA InitAccounted == Init => AllAccounted
<1> SUFFICES ASSUME Init PROVE AllAccounted
  OBVIOUS
<1>1. NewNodes = {}
  BY DEF Init, NewNodes
<1>2. \A w \in Worker : Storing(w)
  BY DEF Init, Storing, Busy
<1> QED
  BY <1>1, <1>2 DEF AllAccounted

\* A step that stores no node, begins no call, and loses no job and no target
\* keeps every node accounted for.
LEMMA AccountedStays ==
  ASSUME AllAccounted, Typed, known' = known, before' = before,
         asked \subseteq asked', failed \subseteq failed',
         \A c \in Call : cpc'[c] # "idle" => cpc[c] # "idle",
         \A c \in Call : Outstanding(c) \subseteq Outstanding(c)',
         \A w \in Worker : targets[w] \subseteq targets'[w]
  PROVE  \A n \in NewNodes' : Accounted(n)'
<1> SUFFICES ASSUME NEW n \in NewNodes' PROVE Accounted(n)'
  OBVIOUS
<1>1. n \in NewNodes /\ Accounted(n)
  BY DEF NewNodes, AllAccounted
<1> QED
  BY <1>1, SettledStays DEF Accounted

\* The root that a call stores is the call's job.
LEMMA StartAccounted ==
  ASSUME Typed, AllCalls, AllAccounted, NEW c \in Call, Start(c)
  PROVE  AllAccounted'
<1>1. /\ asked' = asked /\ failed' = failed /\ before' = before
      /\ known' = known \cup {Root[c]} /\ cpc' = [cpc EXCEPT ![c] = "send"]
      /\ queue' = queue /\ sending' = sending /\ job' = job /\ todo' = todo
      /\ targets' = targets
      /\ wpc' = [w \in Worker |-> IF w \in Crew(c) THEN "ready" ELSE wpc[w]]
  BY DEF Start, history
<1>2. \A w \in Crew(c) : wpc[w] = "off"
  BY DEF AllCalls, CallInv, Phases, Start
<1>3. \A w \in Worker : (Busy(w)' <=> Busy(w)) /\ (wpc'[w] = "store" <=> wpc[w] = "store")
  BY <1>1, <1>2 DEF Busy
<1>4. \A d \in Call : Outstanding(d) \subseteq Outstanding(d)'
  <2> SUFFICES ASSUME NEW d \in Call PROVE Outstanding(d) \subseteq Outstanding(d)'
    OBVIOUS
  <2>1. AtCaller(d) \subseteq AtCaller(d)'
    BY <1>1 DEF AtCaller, Start, Typed
  <2>2. InHand(d)' = InHand(d) /\ Queued(d)' = Queued(d)
    BY <1>1, <1>3 DEF InHand, Crew, Queued
  <2> QED
    BY <1>1, <2>1, <2>2 DEF Outstanding
<1>5. Root[c] \in Outstanding(c)'
  BY <1>1 DEF Outstanding, AtCaller, Typed
<1>6. ASSUME NEW n \in NewNodes' PROVE Accounted(n)'
  <2>1. n \in NewNodes \/ n = Root[c]
    BY <1>1 DEF NewNodes, Typed
  <2>2. CASE n = Root[c]
    BY <1>5, <2>2 DEF Accounted
  <2>3. CASE n \in NewNodes
    <3>1. Accounted(n)
      BY <2>3 DEF AllAccounted
    <3> QED
      BY <1>1, <1>4, <3>1, SettledStays DEF Accounted
  <2> QED
    BY <2>1, <2>2, <2>3
<1>7. ASSUME NEW w \in Worker PROVE Storing(w)'
  BY <1>1, <1>3 DEF AllAccounted, Storing
<1> QED
  BY <1>6, <1>7 DEF AllAccounted

\* The steps of the call that leave the stored nodes and the dispatchers alone.
LEMMA QuietAccounted ==
  ASSUME Typed, AllCalls, AllAccounted, NEW c \in Call,
         SendRoot(c) \/ Return(c) \/ Send(c)
  PROVE  AllAccounted'
<1>1. JobsKept
  BY SendRootCalls, ReturnCalls, SendCalls
<1>2. /\ known' = known /\ before' = before /\ asked' = asked /\ failed' = failed
      /\ targets' = targets /\ wpc' = wpc /\ job' = job /\ todo' = todo
      /\ \A d \in Call : cpc'[d] # "idle" => cpc[d] # "idle"
  BY DEF SendRoot, Return, Send, history, workVars, Typed
<1>3. \A n \in NewNodes' : Accounted(n)'
  BY <1>1, <1>2, AccountedStays DEF JobsKept
<1>4. \A w \in Worker : Storing(w)'
  BY <1>2 DEF AllAccounted, Storing, Busy
<1> QED
  BY <1>3, <1>4 DEF AllAccounted

\* A received id is still a job, and has now been asked for.
LEMMA TakeAccounted ==
  ASSUME Typed, AllCalls, AllAccounted, NEW w \in Worker, Take(w)
  PROVE  AllAccounted'
<1>1. JobsKept
  BY TakeCalls
<1>2. /\ known' = known /\ before' = before /\ failed' = failed /\ cpc' = cpc
      /\ targets' = targets /\ todo' = todo
      /\ asked' = asked \cup {job'[w]} /\ wpc'[w] = "fetch"
      /\ \A v \in Worker : v # w => wpc'[v] = wpc[v] /\ job'[v] = job[v]
  BY DEF Take, Typed
<1>3. \A n \in NewNodes' : Accounted(n)'
  BY <1>1, <1>2, AccountedStays DEF JobsKept
<1>4. \A v \in Worker : Storing(v)'
  BY <1>2 DEF AllAccounted, Storing, Busy
<1> QED
  BY <1>3, <1>4 DEF AllAccounted

\* An answer puts all children on the dispatcher's list; a failure settles the job.
LEMMA ReplyAccounted ==
  ASSUME Typed, AllCalls, AllAccounted, NEW w \in Worker, Answer(w) \/ Fail(w)
  PROVE  AllAccounted'
<1>1. JobsKept
  BY ReplyCalls
<1>2. /\ known' = known /\ before' = before /\ asked' = asked /\ cpc' = cpc
      /\ failed \subseteq failed' /\ job' = job
      /\ wpc[w] = "fetch" /\ wpc'[w] = "store"
      /\ todo'[w] = Child[job[w]] \/ job[w] \in failed'
      /\ \A v \in Worker : v # w => wpc'[v] = wpc[v] /\ todo'[v] = todo[v]
                                    /\ targets'[v] = targets[v]
  BY DEF Answer, Fail, Typed, history, callVars
<1>3. targets[w] = {}
  BY <1>2 DEF AllCalls, CallInv, FreshTargets, Crew
<1>4. \A v \in Worker : targets[v] \subseteq targets'[v]
  BY <1>2, <1>3
<1>5. \A n \in NewNodes' : Accounted(n)'
  BY <1>1, <1>2, <1>4, AccountedStays DEF JobsKept
<1>6. \A v \in Worker : Storing(v)'
  BY <1>2 DEF AllAccounted, Storing, Busy
<1> QED
  BY <1>5, <1>6 DEF AllAccounted

\* A child stored for the first time becomes a target of the dispatcher.
LEMMA StoreAccounted ==
  ASSUME Typed, AllCalls, AllAccounted, NEW w \in Worker, Store(w)
  PROVE  AllAccounted'
<1>1. JobsKept
  BY StoreCalls
<1> PICK child \in todo[w] :
          /\ todo' = [todo EXCEPT ![w] = @ \ {child}]
          /\ known' = known \cup {child}
          /\ targets' = [targets EXCEPT ![w] = @ \cup ({child} \ known)]
  BY DEF Store
<1>2. /\ before' = before /\ asked' = asked /\ failed' = failed /\ cpc' = cpc
      /\ job' = job /\ wpc' = wpc
  BY DEF Store, history, callVars
<1>3. \A v \in Worker : targets[v] \subseteq targets'[v]
  BY DEF Typed
<1>4. ASSUME NEW n \in NewNodes' PROVE Accounted(n)'
  <2>1. CASE n \in NewNodes
    <3>1. Accounted(n)
      BY <2>1 DEF AllAccounted
    <3> QED
      BY <1>1, <1>2, <1>3, <3>1, SettledStays DEF Accounted, JobsKept
  <2>2. CASE n \notin NewNodes
    <3>1. n = child /\ n \notin known
      BY <1>2, <2>2 DEF NewNodes
    <3>2. n \in targets'[w]
      BY <3>1 DEF Typed
    <3> QED
      BY <3>2 DEF Accounted
  <2> QED
    BY <2>1, <2>2
<1>5. ASSUME NEW v \in Worker PROVE Storing(v)'
  <2>1. todo[v] \subseteq todo'[v] \cup {child}
    BY DEF Typed
  <2> QED
    BY <1>2, <2>1 DEF AllAccounted, Storing, Busy
<1> QED
  BY <1>4, <1>5 DEF AllAccounted

\* The job a dispatcher finishes is settled: its children are all stored.
LEMMA FinishAccounted ==
  ASSUME Typed, AllCalls, AllAccounted, NEW w \in Worker, Finish(w)
  PROVE  AllAccounted'
<1>1. /\ \A d \in Call : d # Owner[w] => Outstanding(d)' = Outstanding(d)
      /\ Outstanding(Owner[w])' = (Outstanding(Owner[w]) \ {job[w]}) \cup targets[w]
  BY FinishCalls
<1>2. /\ before' = before /\ asked' = asked /\ failed' = failed /\ known' = known
      /\ cpc' = cpc /\ job' = job /\ todo' = todo
      /\ wpc[w] = "store" /\ wpc'[w] = "ready" /\ todo[w] = {}
      /\ \A v \in Worker : v # w => wpc'[v] = wpc[v] /\ targets'[v] = targets[v]
  BY DEF Finish, history, Typed
<1>3. \A m : m = job[w] => Settled(m)'
  BY <1>2 DEF AllAccounted, Storing, Busy, Settled
<1>4. Owner[w] \in Call
  OBVIOUS
<1>5. ASSUME NEW n \in NewNodes' PROVE Accounted(n)'
  <2>1. Accounted(n)
    BY <1>2 DEF NewNodes, AllAccounted
  <2>2. CASE Settled(n)
    BY <1>2, <2>2, SettledStays DEF Accounted
  <2>3. ASSUME NEW d \in Call, n \in Outstanding(d) PROVE Accounted(n)'
    <3>1. CASE n = job[w]
      BY <1>3, <3>1 DEF Accounted
    <3>2. CASE n # job[w]
      <4>1. n \in Outstanding(d)'
        BY <1>1, <2>3, <3>2
      <4> QED
        BY <4>1 DEF Accounted
    <3> QED
      BY <3>1, <3>2
  <2>4. ASSUME NEW v \in Worker, n \in targets[v] PROVE Accounted(n)'
    <3>1. CASE v = w
      <4>1. n \in Outstanding(Owner[w])'
        BY <1>1, <2>4, <3>1
      <4> QED
        BY <1>4, <4>1 DEF Accounted
    <3>2. CASE v # w
      BY <1>2, <2>4, <3>2 DEF Accounted
    <3> QED
      BY <3>1, <3>2
  <2> QED
    BY <2>1, <2>2, <2>3, <2>4 DEF Accounted
<1>6. \A v \in Worker : Storing(v)'
  BY <1>2 DEF AllAccounted, Storing, Busy
<1> QED
  BY <1>5, <1>6 DEF AllAccounted

\* A dispatcher that leaves holds nothing that would be lost.
LEMMA ExitAccounted ==
  ASSUME Typed, AllCalls, AllAccounted, NEW w \in Worker, Exit(w)
  PROVE  AllAccounted'
<1>1. JobsKept
  BY ExitCalls
<1>2. /\ known' = known /\ before' = before /\ asked' = asked /\ failed' = failed
      /\ cpc' = cpc /\ targets' = targets /\ todo' = todo /\ job' = job
      /\ wpc'[w] = "exited"
      /\ \A v \in Worker : v # w => wpc'[v] = wpc[v]
  BY DEF Exit, Typed, history, callVars
<1>3. \A n \in NewNodes' : Accounted(n)'
  BY <1>1, <1>2, AccountedStays DEF JobsKept
<1>4. \A v \in Worker : Storing(v)'
  BY <1>2 DEF AllAccounted, Storing, Busy
<1> QED
  BY <1>3, <1>4 DEF AllAccounted

\* Every step keeps every new node accounted for.
LEMMA NextAccounted ==
  Typed /\ AllCalls /\ AllAccounted /\ [Next]_vars => AllAccounted'
<1> SUFFICES ASSUME Typed, AllCalls, AllAccounted, [Next]_vars PROVE AllAccounted'
  OBVIOUS
<1>1. ASSUME NEW c \in Call, CallStep(c) PROVE AllAccounted'
  BY <1>1, StartAccounted, QuietAccounted DEF CallStep
<1>2. ASSUME NEW w \in Worker, WorkerStep(w) PROVE AllAccounted'
  BY <1>2, TakeAccounted, ReplyAccounted, StoreAccounted, FinishAccounted,
     ExitAccounted DEF WorkerStep
<1>3. CASE UNCHANGED vars \/ Cancel
  <2>1. /\ known' = known /\ before' = before /\ asked' = asked /\ failed' = failed
        /\ cpc' = cpc /\ queue' = queue /\ sending' = sending
        /\ targets' = targets /\ todo' = todo /\ job' = job /\ wpc' = wpc
    BY <1>3 DEF vars, history, callVars, workVars, Cancel
  <2>2. \A c \in Call : Outstanding(c)' = Outstanding(c)
    BY <2>1 DEF Outstanding, AtCaller, Queued, InHand, Crew, Busy
  <2>3. \A n \in NewNodes' : Accounted(n)'
    BY <2>1, <2>2, AccountedStays
  <2>4. \A v \in Worker : Storing(v)'
    BY <2>1 DEF AllAccounted, Storing, Busy
  <2> QED
    BY <2>3, <2>4 DEF AllAccounted
<1> QED
  BY <1>1, <1>2, <1>3 DEF Next, Step, Terminated

\* The inductive invariant holds throughout.
THEOREM InductiveInvariant == Spec => []IInv
<1>1. Init => AllAccounted
  BY InitAccounted
<1>2. Typed /\ AllCalls /\ AllAccounted /\ [Next]_vars => AllAccounted'
  BY NextAccounted
<1>3. AllCalls /\ AllAccounted => IInv
  BY DEF AllCalls, AllAccounted, IInv
<1> QED
  BY <1>1, <1>2, <1>3, CallsInvariant, PTL DEF Spec

\* When all calls have returned, the subtrees are complete.
THEOREM CompleteCorrect == Spec => []CompleteOnReturn
<1>1. Typed /\ IInv => CompleteOnReturn
  <2> SUFFICES ASSUME Typed, IInv, Returned, NEW n \in NewNodes PROVE Settled(n)
    BY DEF CompleteOnReturn
  <2>1. \A c \in Call : Outstanding(c) = {}
    BY DEF IInv, CallInv, Phases, Returned
  <2>2. \A w \in Worker : targets[w] = {}
    <3> SUFFICES ASSUME NEW w \in Worker PROVE targets[w] = {}
      OBVIOUS
    <3>1. Busy(w) => job[w] \in InHand(Owner[w])
      BY DEF InHand, Crew
    <3>2. ~Busy(w)
      BY <2>1, <3>1 DEF Outstanding
    <3> QED
      BY <3>2 DEF IInv, CallInv, FreshTargets, Crew, Busy
  <2> QED
    BY <2>1, <2>2 DEF IInv, Accounted
<1> QED
  BY <1>1, CallsInvariant, InductiveInvariant, PTL
-----------------------------------------------------------------------------
(* The calls implement SubtreeFetch, but for the promise to complete.      *)

\* What a dispatcher stores are children of its job; roots of calls that have
\* begun are stored.
Origins ==
    /\ \A w \in Worker : wpc[w] = "store" => todo[w] \subseteq Child[job[w]]
    /\ \A c \in Call : cpc[c] # "idle" => Root[c] \in known

\* Stored nodes come from roots and from children of nodes asked for.
LEMMA NextOrigins == Typed /\ Origins /\ [Next]_vars => Origins'
<1> SUFFICES ASSUME Typed, Origins, [Next]_vars PROVE Origins'
  OBVIOUS
<1> USE DEF Origins, history, callVars, workVars
<1>1. ASSUME NEW c \in Call, Start(c) PROVE Origins'
  BY <1>1 DEF Start, Typed
<1>2. ASSUME NEW c \in Call, SendRoot(c) \/ Return(c) PROVE Origins'
  BY <1>2 DEF SendRoot, Return, Typed
<1>3. ASSUME NEW c \in Call, Send(c) PROVE Origins'
  BY <1>3 DEF Send, Typed
<1>4. ASSUME NEW w \in Worker, Take(w) PROVE Origins'
  BY <1>4 DEF Take, Typed
<1>5. ASSUME NEW w \in Worker, Answer(w) \/ Fail(w) PROVE Origins'
  <2>1. /\ todo'[w] \subseteq Child[job[w]]
        /\ job' = job /\ cpc' = cpc /\ known' = known
        /\ \A v \in Worker : v # w => wpc'[v] = wpc[v] /\ todo'[v] = todo[v]
    BY <1>5 DEF Answer, Fail, Typed
  <2> QED
    BY <2>1
<1>6. ASSUME NEW w \in Worker, Store(w) PROVE Origins'
  BY <1>6 DEF Store, Typed
<1>7. ASSUME NEW w \in Worker, Finish(w) \/ Exit(w) PROVE Origins'
  BY <1>7 DEF Finish, Exit, Typed
<1>8. CASE UNCHANGED vars \/ Cancel
  BY <1>8 DEF vars, Cancel
<1> QED
  BY <1>1, <1>2, <1>3, <1>4, <1>5, <1>6, <1>7, <1>8
     DEF Next, Step, Terminated, CallStep, WorkerStep

\* A dispatcher at work, or a call that has not returned, means not done.
LEMMA BusyNotDone ==
  ASSUME Typed, AllCalls, NEW w \in Worker, wpc[w] \in {"ready", "fetch", "store"},
         Busy(w) \/ queue[Owner[w]] # <<>>
  PROVE  ~Returned
<1> DEFINE c == Owner[w]
<1>1. c \in Call /\ w \in Crew(c) /\ queue[c] \in Seq(Node) /\ CallInv(c)
  BY DEF Crew, Typed, AllCalls
<1>2. Busy(w) => job[w] \in InHand(c)
  BY <1>1 DEF InHand
<1>3. queue[c] # <<>> => Head(queue[c]) \in Queued(c)
  BY <1>1, ReceiveRange DEF Queued
<1>4. Outstanding(c) # {}
  BY <1>2, <1>3 DEF Outstanding
<1> QED
  BY <1>1, <1>4 DEF CallInv, Phases, Returned

\* Every step is a step of SubtreeFetch or leaves its variables alone.
LEMMA StepRefines ==
  Typed /\ AllCalls /\ AllAccounted /\ Origins /\ (Typed /\ AllCalls /\ AllAccounted)' /\ Origins'
    /\ [Next]_vars => [Abstract!Next]_(Abstract!vars)
<1> SUFFICES ASSUME Typed, AllCalls, AllAccounted, Origins, Typed', AllCalls', AllAccounted', Origins', [Next]_vars
             PROVE  Abstract!Next \/ UNCHANGED Abstract!vars
  OBVIOUS
<1> USE DEF Abstract!vars, history, callVars, workVars
<1>1. ASSUME NEW c \in Call, Start(c) PROVE Abstract!Next \/ UNCHANGED Abstract!vars
  <2>1. ~Returned
    BY <1>1 DEF Start, Returned
  <2>2. Returned' = Returned
    BY <1>1 DEF Start, Returned, Typed
  <2>3. Abstract!Learn(Root[c])
    BY <1>1, <2>2 DEF Start, Abstract!Learn
  <2> QED
    BY <2>1, <2>3 DEF Abstract!Next
<1>2. ASSUME NEW c \in Call, SendRoot(c) \/ Send(c)
      PROVE  Abstract!Next \/ UNCHANGED Abstract!vars
  <2>1. ~Returned /\ Returned' = Returned
    BY <1>2 DEF SendRoot, Send, Returned, Typed
  <2> QED
    BY <1>2, <2>1 DEF SendRoot, Send
<1>3. ASSUME NEW c \in Call, Return(c) PROVE Abstract!Next \/ UNCHANGED Abstract!vars
  <2>1. ~Returned
    BY <1>3 DEF Return, Returned
  <2>2. CASE ~Returned'
    <3>1. Returned' = Returned
      BY <2>1, <2>2 DEF Returned
    <3> QED
      BY <1>3, <3>1 DEF Return
  <2>3. CASE Returned'
    <3>1. \A n \in NewNodes' : Settled(n)'
      <4> SUFFICES ASSUME NEW n \in NewNodes' PROVE Settled(n)'
        OBVIOUS
      <4>1. \A d \in Call : Outstanding(d)' = {}
        BY <2>3 DEF AllCalls, CallInv, Phases, Returned
      <4>2. \A w \in Worker : targets'[w] = {}
        <5> SUFFICES ASSUME NEW w \in Worker PROVE targets'[w] = {}
          OBVIOUS
        <5>1. Busy(w)' => job'[w] \in InHand(Owner[w])'
          BY DEF InHand, Crew
        <5>2. ~Busy(w)'
          BY <4>1, <5>1 DEF Outstanding
        <5> QED
          BY <5>2 DEF AllCalls, CallInv, FreshTargets, Crew, Busy
      <4> QED
        BY <4>1, <4>2 DEF AllAccounted, Accounted
    <3>2. /\ known' = known /\ before' = before /\ asked' = asked /\ failed' = failed
      BY <1>3 DEF Return
    <3>3. NewNodes' = (known \ before) \cup {Root[d] : d \in Call}
      BY <2>3, <3>2 DEF NewNodes, Returned
    <3>4. NewNodes' \subseteq known
      BY <2>3, <3>2, <3>3 DEF Origins, Returned
    <3>5. Abstract!Finish
      BY <2>3, <3>1, <3>2, <3>3, <3>4 DEF Abstract!Finish, Settled
    <3> QED
      BY <2>1, <3>5 DEF Abstract!Next
  <2> QED
    BY <2>2, <2>3
<1>4. ASSUME NEW w \in Worker, Take(w) PROVE Abstract!Next \/ UNCHANGED Abstract!vars
  <2> DEFINE id == Head(queue[Owner[w]])
  <2>1. queue[Owner[w]] \in Seq(Node) /\ queue[Owner[w]] # <<>>
    BY <1>4 DEF Take, Typed
  <2>2. id \in known /\ id \in Node
    BY <2>1, ReceiveRange DEF AllCalls, CallInv, JobsKnown, Outstanding, Queued, Typed
  <2>3. ~Returned
    BY <1>4, <2>1, BusyNotDone DEF Take
  <2>4. Abstract!Ask(id)
    BY <1>4, <2>2 DEF Take, Abstract!Ask, Returned
  <2> QED
    BY <2>2, <2>3, <2>4 DEF Abstract!Next
<1>5. ASSUME NEW w \in Worker, Answer(w) \/ Finish(w) \/ Exit(w)
      PROVE  Abstract!Next \/ UNCHANGED Abstract!vars
  BY <1>5 DEF Answer, Finish, Exit, Returned
<1>6. ASSUME NEW w \in Worker, Fail(w) PROVE Abstract!Next \/ UNCHANGED Abstract!vars
  <2>1. job[w] \in asked /\ job[w] \in Node
    BY <1>6 DEF Fail, AllAccounted, Storing, Busy, Typed
  <2>2. ~Returned
    BY <1>6, BusyNotDone DEF Fail, Busy
  <2>3. Abstract!Refuse(job[w])
    BY <1>6, <2>1 DEF Fail, Abstract!Refuse, Returned
  <2> QED
    BY <2>1, <2>2, <2>3 DEF Abstract!Next
<1>7. ASSUME NEW w \in Worker, Store(w) PROVE Abstract!Next \/ UNCHANGED Abstract!vars
  <2> PICK child \in todo[w] : known' = known \cup {child}
    BY <1>7 DEF Store
  <2>1. child \in Child[job[w]] /\ job[w] \in asked /\ child \in Node
    BY <1>7 DEF Store, Origins, AllAccounted, Storing, Busy, Typed
  <2>2. ~Returned
    BY <1>7, BusyNotDone DEF Store, Busy
  <2>3. Abstract!Learn(child)
    BY <1>7, <2>1 DEF Store, Abstract!Learn, Returned
  <2> QED
    BY <2>1, <2>2, <2>3 DEF Abstract!Next
<1>8. CASE UNCHANGED vars \/ Cancel
  BY <1>8 DEF vars, Cancel, Returned
<1> QED
  BY <1>1, <1>2, <1>3, <1>4, <1>5, <1>6, <1>7, <1>8
     DEF Next, Step, Terminated, CallStep, WorkerStep

\* Every behaviour of the goroutines is one SubtreeFetch allows.
THEOREM Refinement == Spec => Implements
<1>1. Init => Abstract!Init
  BY DEF Init, Abstract!Init, Returned
<1>2. Init => Typed /\ AllCalls /\ AllAccounted /\ Origins
  BY InitTyped, InitCalls, InitAccounted DEF Init, Origins
<1>3. Typed /\ AllCalls /\ AllAccounted /\ Origins /\ [Next]_vars
        => (Typed /\ AllCalls /\ AllAccounted /\ Origins)'
  BY NextTyped, NextCalls, NextAccounted, NextOrigins
<1> QED
  BY <1>1, <1>2, <1>3, StepRefines, PTL DEF Spec, Implements, Abstract!Spec
-----------------------------------------------------------------------------
(* No node is asked for twice, unless a call was given it.                 *)

\* The nodes call c has yet to ask for: its jobs but for those in a
\* dispatcher's hands, and its dispatchers' targets.
Due(c) == AtCaller(c) \cup Queued(c) \cup sending[c] \cup UNION {targets[w] : w \in Crew(c)}

Roots == {Root[c] : c \in Call}

\* What is due was not asked for before, and is due to one call only.
OnceInv ==
    /\ asked \subseteq known
    /\ \A c \in Call : Due(c) \cap asked \subseteq Roots
    /\ \A c, d \in Call : c # d => Due(c) \cap Due(d) \subseteq Roots

\* Nothing is due that is not stored.
LEMMA DueKnown == AllCalls => \A c \in Call : Due(c) \subseteq known
  BY DEF AllCalls, CallInv, JobsKnown, Outstanding, Due

\* In the beginning nothing is due.
LEMMA InitOnce == Init => OnceInv
<1> SUFFICES ASSUME Init PROVE OnceInv
  OBVIOUS
<1>1. \A c \in Call : Due(c) = {}
  BY DEF Init, Due, AtCaller, Queued, Range, Crew
<1> QED
  BY <1>1 DEF Init, OnceInv

\* A step that asks for nothing, and after which only roots are newly due.
LEMMA QuietOnce ==
  ASSUME OnceInv, asked' = asked, known \subseteq known',
         \A c \in Call : Due(c)' \subseteq Due(c) \cup Roots
  PROVE  OnceInv'
<1>1. Roots' = Roots
  BY DEF Roots
<1>2. ASSUME NEW c \in Call PROVE Due(c)' \cap asked' \subseteq Roots
  BY DEF OnceInv
<1>3. ASSUME NEW c \in Call, NEW d \in Call, c # d PROVE Due(c)' \cap Due(d)' \subseteq Roots
  <2>1. Due(c) \cap Due(d) \subseteq Roots
    BY <1>3 DEF OnceInv
  <2> QED
    BY <2>1
<1> QED
  BY <1>1, <1>2, <1>3 DEF OnceInv

\* The root of a call becomes due when the call starts.
LEMMA StartOnce == ASSUME Typed, OnceInv, NEW c \in Call, Start(c) PROVE OnceInv'
<1>1. /\ asked' = asked /\ known' = known \cup {Root[c]}
      /\ queue' = queue /\ sending' = sending /\ targets' = targets
      /\ \A d \in Call : d # c => cpc'[d] = cpc[d]
  BY DEF Start, history, Typed
<1>2. ASSUME NEW d \in Call PROVE Due(d)' \subseteq Due(d) \cup Roots
  <2>1. Queued(d)' = Queued(d) /\ Crew(d)' = Crew(d)
    BY <1>1 DEF Queued, Crew
  <2>2. AtCaller(d)' \subseteq Roots
    BY DEF AtCaller, Roots
  <2> QED
    BY <1>1, <2>1, <2>2 DEF Due
<1> QED
  BY <1>1, <1>2, QuietOnce

\* An id that is sent goes into the channel.
LEMMA SendOnce == ASSUME Typed, OnceInv, NEW c \in Call, SendRoot(c) \/ Send(c) PROVE OnceInv'
<1>1. /\ asked' = asked /\ known' = known /\ targets' = targets
      /\ \A d \in Call : d # c =>
            cpc'[d] = cpc[d] /\ queue'[d] = queue[d] /\ sending'[d] = sending[d]
  BY DEF SendRoot, Send, history, workVars, Typed
<1>2. PICK id \in AtCaller(c) \cup sending[c] :
        /\ queue'[c] = Append(queue[c], id)
        /\ sending'[c] \subseteq sending[c]
        /\ AtCaller(c)' \subseteq AtCaller(c)
  <2>1. CASE SendRoot(c)
    <3>1. Root[c] \in AtCaller(c) /\ AtCaller(c)' = {}
      BY <2>1 DEF SendRoot, AtCaller, Typed
    <3>2. queue'[c] = Append(queue[c], Root[c]) /\ sending' = sending
      BY <2>1 DEF SendRoot, Typed
    <3> QED
      BY <3>1, <3>2
  <2>2. CASE Send(c)
    <3> PICK id \in sending[c] :
          /\ sending' = [sending EXCEPT ![c] = @ \ {id}]
          /\ queue' = [queue EXCEPT ![c] = Append(@, id)]
      BY <2>2 DEF Send
    <3>1. AtCaller(c)' = AtCaller(c)
      BY <2>2 DEF Send, AtCaller
    <3>2. queue'[c] = Append(queue[c], id) /\ sending'[c] \subseteq sending[c]
      BY DEF Typed
    <3> QED
      BY <3>1, <3>2
  <2> QED
    BY <2>1, <2>2
<1>3. queue[c] \in Seq(Node) /\ id \in Node
  BY <1>2 DEF Typed, AtCaller
<1>4. Queued(c)' = Queued(c) \cup {id}
  BY <1>2, <1>3, SendRange DEF Queued
<1>5. ASSUME NEW d \in Call PROVE Due(d)' \subseteq Due(d) \cup Roots
  <2>1. CASE d = c
    <3>1. Queued(d)' \subseteq Due(d)
      BY <1>2, <1>4, <2>1 DEF Due
    <3>2. Crew(d)' = Crew(d)
      BY DEF Crew
    <3> QED
      BY <1>1, <1>2, <2>1, <3>1, <3>2 DEF Due
  <2>2. CASE d # c
    <3>1. Queued(d)' = Queued(d) /\ AtCaller(d)' = AtCaller(d) /\ Crew(d)' = Crew(d)
      BY <1>1, <2>2 DEF Queued, AtCaller, Crew
    <3> QED
      BY <1>1, <2>2, <3>1 DEF Due
  <2> QED
    BY <2>1, <2>2
<1> QED
  BY <1>1, <1>5, QuietOnce

\* The head of a channel is asked for, and is due no longer.
LEMMA TakeOnce ==
  ASSUME Typed, AllCalls, OnceInv, NEW w \in Worker, Take(w)
  PROVE  /\ OnceInv'
         /\ Head(queue[Owner[w]]) \in Due(Owner[w])
<1> DEFINE c == Owner[w]
           id == Head(queue[c])
<1>1. /\ c \in Call /\ w \in Crew(c) /\ queue[c] \in Seq(Node) /\ queue[c] # <<>>
      /\ CallInv(c)
  BY DEF Take, Typed, AllCalls, Crew
<1>2. /\ asked' = asked \cup {id} /\ known' = known /\ cpc' = cpc
      /\ sending' = sending /\ targets' = targets
      /\ queue'[c] = Tail(queue[c])
      /\ \A d \in Call : d # c => queue'[d] = queue[d]
  BY DEF Take, Typed
<1>3. id \in Queued(c) /\ Queued(c)' = Queued(c) \ {id}
  <2>1. NoTwice(queue[c])
    BY <1>1 DEF CallInv, OnePlace, NoTwice
  <2> QED
    BY <1>1, <1>2, <2>1, ReceiveRange DEF Queued
<1>4. id \in Due(c)
  BY <1>3 DEF Due
<1>5. id \notin Due(c)'
  <2>1. id \notin AtCaller(c) /\ id \notin sending[c]
    BY <1>1, <1>3 DEF CallInv, OnePlace
  <2>2. \A v \in Crew(c) : id \notin targets[v]
    BY <1>1, <1>3 DEF CallInv, FreshTargets, Outstanding
  <2>3. AtCaller(c)' = AtCaller(c) /\ Crew(c)' = Crew(c)
    BY <1>2 DEF AtCaller, Crew
  <2> QED
    BY <1>2, <1>3, <2>1, <2>2, <2>3 DEF Due
<1>6. \A d \in Call : Due(d)' \subseteq Due(d)
  <2> SUFFICES ASSUME NEW d \in Call PROVE Due(d)' \subseteq Due(d)
    OBVIOUS
  <2>1. Queued(d)' \subseteq Queued(d)
    BY <1>2, <1>3 DEF Queued
  <2>2. AtCaller(d)' = AtCaller(d) /\ Crew(d)' = Crew(d)
    BY <1>2 DEF AtCaller, Crew
  <2> QED
    BY <1>2, <2>1, <2>2 DEF Due
<1>7. Roots' = Roots
  BY DEF Roots
<1>8. asked' \subseteq known'
  BY <1>1, <1>2, <1>4, DueKnown DEF OnceInv
<1> HIDE DEF c, id
<1>9. ASSUME NEW d \in Call PROVE Due(d)' \cap asked' \subseteq Roots
  <2>1. Due(d) \cap asked \subseteq Roots
    BY DEF OnceInv
  <2>2. id \in Due(d)' => id \in Roots
    <3>1. CASE d = c
      BY <1>5, <3>1
    <3>2. CASE d # c
      BY <1>1, <1>4, <1>6, <3>2 DEF OnceInv
    <3> QED
      BY <3>1, <3>2
  <2> QED
    BY <1>2, <1>6, <2>1, <2>2
<1>10. ASSUME NEW d \in Call, NEW e \in Call, d # e PROVE Due(d)' \cap Due(e)' \subseteq Roots
  <2>1. Due(d) \cap Due(e) \subseteq Roots
    BY <1>10 DEF OnceInv
  <2> QED
    BY <1>6, <2>1
<1> QED
  BY <1>4, <1>7, <1>8, <1>9, <1>10 DEF OnceInv, c, id

\* An answer, an error and the end of a dispatcher make nothing due.
LEMMA ReplyOnce ==
  ASSUME Typed, OnceInv, NEW w \in Worker, Answer(w) \/ Fail(w) \/ Exit(w)
  PROVE  OnceInv'
<1>1. /\ asked' = asked /\ known' = known /\ cpc' = cpc /\ queue' = queue
      /\ sending' = sending
      /\ \A v \in Worker : targets'[v] \subseteq targets[v]
  BY DEF Answer, Fail, Exit, history, callVars, Typed
<1>2. ASSUME NEW d \in Call PROVE Due(d)' \subseteq Due(d) \cup Roots
  <2>1. Queued(d)' = Queued(d) /\ AtCaller(d)' = AtCaller(d) /\ Crew(d)' = Crew(d)
    BY <1>1 DEF Queued, AtCaller, Crew
  <2>2. Crew(d) \subseteq Worker
    BY DEF Crew
  <2> QED
    BY <1>1, <2>1, <2>2 DEF Due
<1> QED
  BY <1>1, <1>2, QuietOnce

\* A new target was not stored, so it was neither asked for nor due.
LEMMA StoreOnce ==
  ASSUME Typed, AllCalls, OnceInv, NEW w \in Worker, Store(w)
  PROVE  OnceInv'
<1> PICK child \in todo[w] :
          /\ known' = known \cup {child}
          /\ targets' = [targets EXCEPT ![w] = @ \cup ({child} \ known)]
  BY DEF Store
<1> DEFINE c == Owner[w]
           new == {child} \ known
<1>1. /\ asked' = asked /\ cpc' = cpc /\ queue' = queue /\ sending' = sending
      /\ c \in Call
      /\ targets'[w] = targets[w] \cup new
      /\ \A v \in Worker : v # w => targets'[v] = targets[v]
  BY DEF Store, history, callVars, Typed
<1>2. ASSUME NEW d \in Call PROVE Due(d)' \subseteq Due(d) \cup (IF d = c THEN new ELSE {})
  <2>1. Queued(d)' = Queued(d) /\ AtCaller(d)' = AtCaller(d) /\ Crew(d)' = Crew(d)
    BY <1>1 DEF Queued, AtCaller, Crew
  <2>2. Crew(d) \subseteq Worker /\ (d # c => w \notin Crew(d))
    BY DEF Crew
  <2>3. \A v \in Crew(d) : targets'[v] \subseteq targets[v] \cup (IF d = c THEN new ELSE {})
    BY <1>1, <2>2
  <2> HIDE DEF new, c
  <2> QED
    BY <1>1, <2>1, <2>3 DEF Due
<1>3. \A d \in Call : Due(d) \cap new = {}
  BY DueKnown
<1>4. asked \cap new = {}
  BY DEF OnceInv
<1>5. Roots' = Roots
  BY DEF Roots
<1> HIDE DEF new, c
<1>6. ASSUME NEW d \in Call PROVE Due(d)' \cap asked' \subseteq Roots
  <2>1. Due(d)' \subseteq Due(d) \cup new
    BY <1>2
  <2>2. Due(d) \cap asked \subseteq Roots
    BY DEF OnceInv
  <2> QED
    BY <1>1, <1>4, <2>1, <2>2
<1>7. ASSUME NEW d \in Call, NEW e \in Call, d # e PROVE Due(d)' \cap Due(e)' \subseteq Roots
  <2>1. Due(d) \cap Due(e) \subseteq Roots
    BY <1>7 DEF OnceInv
  <2>2. Due(d) \cap new = {} /\ Due(e) \cap new = {}
    BY <1>3
  <2>3. CASE d = c
    <3>1. Due(d)' \subseteq Due(d) \cup new /\ Due(e)' \subseteq Due(e)
      BY <1>2, <1>7, <2>3
    <3> QED
      BY <2>1, <2>2, <3>1
  <2>4. CASE d # c
    <3>1. Due(d)' \subseteq Due(d) /\ Due(e)' \subseteq Due(e) \cup new
      BY <1>2, <2>4
    <3> QED
      BY <2>1, <2>2, <3>1
  <2> QED
    BY <2>3, <2>4
<1>8. asked' \subseteq known'
  BY <1>1 DEF OnceInv
<1> QED
  BY <1>5, <1>6, <1>7, <1>8 DEF OnceInv

\* Targets go to the sender: they are due as before.
LEMMA FinishOnce ==
  ASSUME Typed, OnceInv, NEW w \in Worker, Finish(w)
  PROVE  OnceInv'
<1> DEFINE c == Owner[w]
<1>1. /\ asked' = asked /\ known' = known /\ cpc' = cpc /\ queue' = queue
      /\ c \in Call
      /\ sending'[c] = sending[c] \cup targets[w]
      /\ \A d \in Call : d # c => sending'[d] = sending[d]
      /\ \A v \in Worker : targets'[v] \subseteq targets[v]
  BY DEF Finish, history, Typed
<1>2. ASSUME NEW d \in Call PROVE Due(d)' \subseteq Due(d) \cup Roots
  <2>1. Queued(d)' = Queued(d) /\ AtCaller(d)' = AtCaller(d) /\ Crew(d)' = Crew(d)
    BY <1>1 DEF Queued, AtCaller, Crew
  <2>2. Crew(d) \subseteq Worker /\ (d = c => w \in Crew(d))
    BY DEF Crew
  <2>3. sending'[d] \subseteq Due(d)
    BY <1>1, <2>2 DEF Due
  <2>4. UNION {targets'[v] : v \in Crew(d)} \subseteq Due(d)
    BY <1>1, <2>2 DEF Due
  <2>5. Queued(d) \cup AtCaller(d) \subseteq Due(d)
    BY DEF Due
  <2>6. Due(d)' = AtCaller(d) \cup Queued(d) \cup sending'[d] \cup UNION {targets'[v] : v \in Crew(d)}
    BY <2>1 DEF Due
  <2> QED
    BY <2>3, <2>4, <2>5, <2>6
<1> QED
  BY <1>1, <1>2, QuietOnce

\* A dispatcher that asks for a node asks for one that was due.
LEMMA AskDue ==
  ASSUME Typed, AllCalls, OnceInv, [Next]_vars, NEW w \in Worker,
         wpc[w] = "ready", wpc'[w] = "fetch"
  PROVE  job'[w] \notin asked \/ job'[w] \in Roots
<1>1. Take(w)
  <2>1. ASSUME NEW c \in Call, CallStep(c) PROVE FALSE
    <3>1. CASE Start(c)
      BY <3>1 DEF Start, Crew, Typed
    <3>2. CASE SendRoot(c) \/ Return(c) \/ Send(c)
      <4>1. wpc' = wpc
        BY <3>2 DEF SendRoot, Return, Send, workVars
      <4> QED
        BY <4>1
    <3> QED
      BY <2>1, <3>1, <3>2 DEF CallStep
  <2>2. ASSUME NEW v \in Worker, WorkerStep(v) PROVE v = w /\ Take(v)
    BY <2>2 DEF WorkerStep, Take, Answer, Fail, Store, Finish, Exit, Typed
  <2> QED
    BY <2>1, <2>2 DEF Next, Step, Cancel, Terminated, vars, workVars
<1>2. job'[w] = Head(queue[Owner[w]])
  BY <1>1 DEF Take, Typed
<1>3. Head(queue[Owner[w]]) \in Due(Owner[w]) /\ Owner[w] \in Call
  BY <1>1, TakeOnce
<1> QED
  BY <1>2, <1>3 DEF OnceInv

\* Every step keeps what is due apart from what was asked for.
LEMMA NextOnce == Typed /\ AllCalls /\ OnceInv /\ [Next]_vars => OnceInv'
<1> SUFFICES ASSUME Typed, AllCalls, OnceInv, [Next]_vars PROVE OnceInv'
  OBVIOUS
<1>1. ASSUME NEW c \in Call, Return(c) PROVE OnceInv'
  <2>1. /\ asked' = asked /\ known' = known /\ queue' = queue /\ sending' = sending
        /\ targets' = targets /\ \A d \in Call : cpc'[d] = "send" => cpc[d] = "send"
    BY <1>1 DEF Return, history, workVars, Typed
  <2>2. \A d \in Call : Due(d)' \subseteq Due(d) \cup Roots
    BY <2>1 DEF Due, AtCaller, Queued, Crew
  <2> QED
    BY <2>1, <2>2, QuietOnce
<1>2. CASE UNCHANGED vars \/ Cancel
  <2>1. /\ asked' = asked /\ known' = known /\ queue' = queue /\ sending' = sending
        /\ targets' = targets /\ cpc' = cpc
    BY <1>2 DEF vars, Cancel, history, callVars, workVars
  <2>2. \A d \in Call : Due(d)' \subseteq Due(d) \cup Roots
    BY <2>1 DEF Due, AtCaller, Queued, Crew
  <2> QED
    BY <2>1, <2>2, QuietOnce
<1>3. ASSUME NEW c \in Call, CallStep(c) PROVE OnceInv'
  BY <1>1, <1>3, StartOnce, SendOnce DEF CallStep
<1>4. ASSUME NEW w \in Worker, WorkerStep(w) PROVE OnceInv'
  BY <1>4, TakeOnce, ReplyOnce, StoreOnce, FinishOnce DEF WorkerStep
<1> QED
  BY <1>2, <1>3, <1>4 DEF Next, Step, Terminated

\* A node is asked for at most once, except as the argument of a call.
THEOREM OnceCorrect == Spec => AskedOnce
<1> DEFINE A == \A w \in Worker : (wpc[w] = "ready" /\ wpc'[w] = "fetch") =>
                   job'[w] \notin asked \/ \E c \in Call : Root[c] = job'[w]
<1>1. Init => Typed /\ AllCalls /\ OnceInv
  BY InitTyped, InitCalls, InitOnce
<1>2. Typed /\ AllCalls /\ OnceInv /\ [Next]_vars => (Typed /\ AllCalls /\ OnceInv)'
  BY NextTyped, NextCalls, NextOnce
<1>3. Typed /\ AllCalls /\ OnceInv /\ [Next]_vars => A
  BY AskDue DEF Roots
<1> HIDE DEF A
<1>4. Spec => [][A]_vars
  BY <1>1, <1>2, <1>3, PTL DEF Spec
<1> QED
  BY <1>4 DEF A, AskedOnce
=============================================================================
