----------------------------- MODULE SubSubtree -----------------------------
(***************************************************************************)
(* Subscribing to a subtree of the page's accessibility (AX) tree:         *)
(* listener.subSubtree, listener.subDispatcher and listener.subscribe of   *)
(* internal/chrome/axstream/listener_subscriber_worker.go.                 *)
(*                                                                         *)
(* Several calls of subSubtree may be in progress at once (reconcile       *)
(* starts one goroutine for each unknown child of an updated node).  Every *)
(* call has its own job channel, its own WaitGroup, its own dispatchers    *)
(* and its own sender goroutines; all calls share treeState.nodes, whose   *)
(* domain is known below.                                                  *)
(*                                                                         *)
(* Abstractions.  A node is its id.  The children the browser reports are  *)
(* fixed for the duration of the calls (module Listener lets them change). *)
(* The sender goroutines of a call are merged into the set of the ids they *)
(* have yet to send, so that every order of the sends is allowed.  The     *)
(* stale-page exits of UpdateNode cannot be taken while a call is in       *)
(* progress, which is Listener!NeverStale.                                 *)
(***************************************************************************)
EXTENDS Integers, Sequences, FiniteSets, Functions

CONSTANTS
    Node,      \* ids of AX nodes
    Child,     \* Child[n]: what cdp.GetChildAXNodes{ID: n} answers; any graph
    Flaky,     \* nodes for which GetChildAXNodes may answer an error
    Call,      \* the calls of subSubtree in progress together
    Root,      \* Root[c]: the argument of call c
    Worker,    \* the dispatcher goroutines of all the calls
    Owner,     \* Owner[w]: the call dispatcher w works for
    QueueCap,  \* sub_channel_buffer_size
    MayCancel  \* can the listener's context be cancelled?

ASSUME ConstantsOK ==
    /\ IsFiniteSet(Node)
    /\ Call # {}
    /\ IsFiniteSet(Worker)
    /\ Child \in [Node -> SUBSET Node]
    /\ Flaky \subseteq Node
    /\ Root \in [Call -> Node]
    /\ Owner \in [Worker -> Call]
    /\ \A c \in Call : \E w \in Worker : Owner[w] = c
    /\ QueueCap \in Nat \ {0}
    /\ MayCancel \in BOOLEAN

VARIABLES
    before,    \* nodes stored before the calls start (never changes)
    known,     \* the domain of treeState.nodes
    asked,     \* history: the nodes GetChildAXNodes has been called for
    failed,    \* history: the nodes for which it answered an error
    cancelled, \* is the page context (child of the listener's) done?
    cpc,       \* cpc[c]: where call c is
    wg,        \* wg[c]: the counter of call c's WaitGroup
    queue,     \* queue[c]: call c's job channel, closed once c has returned
    sending,   \* sending[c]: ids that c's sender goroutines have yet to send
    wpc,       \* wpc[w]: where dispatcher w is
    job,       \* job[w]: the id w received last
    todo,      \* todo[w]: nodes of the answer that w has yet to store
    targets    \* targets[w]: childTargets of w's subscribe

callVars == <<cpc, wg, queue, sending>>
workVars == <<wpc, job, todo, targets>>
history  == <<before, asked, failed>>
vars     == <<history, known, cancelled, callVars, workVars>>

Crew(c)   == {w \in Worker : Owner[w] = c}
Busy(w)   == wpc[w] \in {"fetch", "store"}
HasRoom(c) == Len(queue[c]) < QueueCap
Returned  == \A c \in Call : cpc[c] = "returned"

Init ==
    /\ before \in SUBSET Node
    /\ known = before
    /\ asked = {}
    /\ failed = {}
    /\ cancelled = FALSE
    /\ cpc = [c \in Call |-> "idle"]
    /\ wg = [c \in Call |-> 0]
    /\ queue = [c \in Call |-> <<>>]
    /\ sending = [c \in Call |-> {}]
    /\ wpc = [w \in Worker |-> "off"]
    /\ job = [w \in Worker |-> Root[Owner[w]]]
    /\ todo = [w \in Worker |-> {}]
    /\ targets = [w \in Worker |-> {}]
-----------------------------------------------------------------------------
(* The goroutine that runs subSubtree(Root[c]).                            *)

\* Mutant: wg.Add(1) is forgotten.
StartNoAdd(c) ==
    /\ cpc[c] = "idle"
    /\ cpc' = [cpc EXCEPT ![c] = "send"]
    /\ known' = known \cup {Root[c]}
    /\ wpc' = [w \in Worker |-> IF w \in Crew(c) THEN "ready" ELSE wpc[w]]
    /\ UNCHANGED <<history, cancelled, wg, queue, sending, job, todo, targets>>

\* UpdateNode(root), make the channel, start the dispatchers, wg.Add(1).
Start(c) ==
    /\ cpc[c] = "idle"
    /\ cpc' = [cpc EXCEPT ![c] = "send"]
    /\ known' = known \cup {Root[c]}
    /\ wg' = [wg EXCEPT ![c] = 1]
    /\ wpc' = [w \in Worker |-> IF w \in Crew(c) THEN "ready" ELSE wpc[w]]
    /\ UNCHANGED <<history, cancelled, queue, sending, job, todo, targets>>

\* queue <- root.NodeID
SendRoot(c) ==
    /\ cpc[c] = "send"
    /\ HasRoom(c)
    /\ cpc' = [cpc EXCEPT ![c] = "wait"]
    /\ queue' = [queue EXCEPT ![c] = Append(@, Root[c])]
    /\ UNCHANGED <<history, known, cancelled, wg, sending, workVars>>

\* Mutant: the wait also ends when the context is cancelled.
ReturnOnCancel(c) ==
    /\ cpc[c] = "wait"
    /\ wg[c] = 0 \/ cancelled
    /\ cpc' = [cpc EXCEPT ![c] = "returned"]
    /\ UNCHANGED <<history, known, cancelled, wg, queue, sending, workVars>>

\* wg.Wait() passes and the deferred close(queue) runs.
Return(c) ==
    /\ cpc[c] = "wait"
    /\ wg[c] = 0
    /\ cpc' = [cpc EXCEPT ![c] = "returned"]
    /\ UNCHANGED <<history, known, cancelled, wg, queue, sending, workVars>>

\* Mutant: select { case queue <- id: default: } drops a job when there is no room.
SendOrDrop(c) ==
    /\ cpc[c] # "returned"
    /\ \E id \in sending[c] :
          /\ sending' = [sending EXCEPT ![c] = @ \ {id}]
          /\ queue' = [queue EXCEPT ![c] = IF HasRoom(c) THEN Append(@, id) ELSE @]
    /\ UNCHANGED <<history, known, cancelled, cpc, wg, workVars>>

(* The sender goroutines subDispatcher starts: queue <- id.                *)
Send(c) ==
    /\ cpc[c] # "returned"     \* a send on the closed channel would panic
    /\ HasRoom(c)
    /\ \E id \in sending[c] :
          /\ sending' = [sending EXCEPT ![c] = @ \ {id}]
          /\ queue' = [queue EXCEPT ![c] = Append(@, id)]
    /\ UNCHANGED <<history, known, cancelled, cpc, wg, workVars>>
-----------------------------------------------------------------------------
(* A dispatcher: subDispatcher and the subscribe it calls.                 *)

\* Mutant: a dispatcher sends its targets itself, so it receives nothing
\* before they are all sent.
TakeAfterSends(w) ==
    LET c == Owner[w] IN
    /\ wpc[w] = "ready"
    /\ queue[c] # <<>>
    /\ sending[c] = {}
    /\ job' = [job EXCEPT ![w] = Head(queue[c])]
    /\ queue' = [queue EXCEPT ![c] = Tail(@)]
    /\ asked' = asked \cup {Head(queue[c])}
    /\ wpc' = [wpc EXCEPT ![w] = "fetch"]
    /\ UNCHANGED <<before, failed, known, cancelled, cpc, wg, sending,
                   todo, targets>>

\* case id := <-queue, and the request of subscribe goes out.
Take(w) ==
    LET c == Owner[w] IN
    /\ wpc[w] = "ready"
    /\ queue[c] # <<>>
    /\ job' = [job EXCEPT ![w] = Head(queue[c])]
    /\ queue' = [queue EXCEPT ![c] = Tail(@)]
    /\ asked' = asked \cup {Head(queue[c])}
    /\ wpc' = [wpc EXCEPT ![w] = "fetch"]
    /\ UNCHANGED <<before, failed, known, cancelled, cpc, wg, sending,
                   todo, targets>>

\* The answer arrives.
Answer(w) ==
    /\ wpc[w] = "fetch"
    /\ wpc' = [wpc EXCEPT ![w] = "store"]
    /\ todo' = [todo EXCEPT ![w] = Child[job[w]]]
    /\ targets' = [targets EXCEPT ![w] = {}]
    /\ UNCHANGED <<history, known, cancelled, callVars, job>>

\* The request fails, or the page context is done: subscribe returns nil.
Fail(w) ==
    /\ wpc[w] = "fetch"
    /\ job[w] \in Flaky \/ cancelled
    /\ wpc' = [wpc EXCEPT ![w] = "store"]
    /\ failed' = failed \cup {job[w]}
    /\ todo' = [todo EXCEPT ![w] = {}]
    /\ targets' = [targets EXCEPT ![w] = {}]
    /\ UNCHANGED <<before, asked, known, cancelled, callVars, job>>

\* Mutant: fetchedBefore is ignored.
StoreAlways(w) ==
    /\ wpc[w] = "store"
    /\ \E child \in todo[w] :
          /\ todo' = [todo EXCEPT ![w] = @ \ {child}]
          /\ known' = known \cup {child}
          /\ targets' = [targets EXCEPT ![w] = @ \cup {child}]
    /\ UNCHANGED <<history, cancelled, callVars, wpc, job>>

\* One UpdateNode of subscribe's loop: a child seen for the first time is a
\* target.  UpdateNode holds the mutex, so looking and storing are one step.
Store(w) ==
    /\ wpc[w] = "store"
    /\ \E child \in todo[w] :
          /\ todo' = [todo EXCEPT ![w] = @ \ {child}]
          /\ known' = known \cup {child}
          /\ targets' = [targets EXCEPT ![w] = @ \cup ({child} \ known)]
    /\ UNCHANGED <<history, cancelled, callVars, wpc, job>>

\* Mutant: the finished job is counted off twice.
FinishTwice(w) ==
    LET c == Owner[w] IN
    /\ wpc[w] = "store"
    /\ todo[w] = {}
    /\ wg' = [wg EXCEPT ![c] = @ + (Cardinality(targets[w]) - 2)]
    /\ sending' = [sending EXCEPT ![c] = @ \cup targets[w]]
    /\ targets' = [targets EXCEPT ![w] = {}]
    /\ wpc' = [wpc EXCEPT ![w] = "ready"]
    /\ UNCHANGED <<history, known, cancelled, cpc, queue, job, todo>>

\* wg.Add(len(childTargets) - 1) and the goroutine that sends the targets.
Finish(w) ==
    LET c == Owner[w] IN
    /\ wpc[w] = "store"
    /\ todo[w] = {}
    /\ wg' = [wg EXCEPT ![c] = @ + (Cardinality(targets[w]) - 1)]
    /\ sending' = [sending EXCEPT ![c] = @ \cup targets[w]]
    /\ targets' = [targets EXCEPT ![w] = {}]
    /\ wpc' = [wpc EXCEPT ![w] = "ready"]
    /\ UNCHANGED <<history, known, cancelled, cpc, queue, job, todo>>

\* case <-ctx.Done(), or the channel is closed and drained.
Exit(w) ==
    /\ wpc[w] = "ready"
    /\ \/ cancelled
       \/ cpc[Owner[w]] = "returned" /\ queue[Owner[w]] = <<>>
    /\ wpc' = [wpc EXCEPT ![w] = "exited"]
    /\ UNCHANGED <<history, known, cancelled, callVars, job, todo, targets>>
-----------------------------------------------------------------------------
\* The consumer of the stream cancels the context it passed to Listen.
Cancel ==
    /\ MayCancel
    /\ ~cancelled
    /\ cancelled' = TRUE
    /\ UNCHANGED <<history, known, callVars, workVars>>

CallStep(c)   == Start(c) \/ SendRoot(c) \/ Return(c) \/ Send(c)
WorkerStep(w) == Take(w) \/ Answer(w) \/ Fail(w) \/ Store(w) \/ Finish(w) \/ Exit(w)

\* Every call has returned and every dispatcher has ended.
Terminated ==
    /\ Returned
    /\ \A w \in Worker : wpc[w] = "exited"
    /\ UNCHANGED vars

Step == (\E c \in Call : CallStep(c)) \/ (\E w \in Worker : WorkerStep(w))
Next == Step \/ Cancel \/ Terminated

\* The Go scheduler runs every goroutine that can run, and the browser
\* answers every request.  (Weak fairness of the whole is enough: no step can
\* be repeated for ever.)
Fairness == WF_vars(Step)
Spec == Init /\ [][Next]_vars /\ Fairness
-----------------------------------------------------------------------------
(* Properties.                                                             *)

TypeOK ==
    /\ before \subseteq Node
    /\ known \subseteq Node
    /\ asked \subseteq Node
    /\ failed \subseteq Node
    /\ cancelled \in BOOLEAN
    /\ cpc \in [Call -> {"idle", "send", "wait", "returned"}]
    /\ wg \in [Call -> Nat]
    /\ queue \in [Call -> Seq(Node)]
    /\ sending \in [Call -> SUBSET Node]
    /\ wpc \in [Worker -> {"off", "ready", "fetch", "store", "exited"}]
    /\ job \in [Worker -> Node]
    /\ todo \in [Worker -> SUBSET Node]
    /\ targets \in [Worker -> SUBSET Node]

\* The jobs of call c that the WaitGroup has to wait for.
AtCaller(c)    == IF cpc[c] = "send" THEN {Root[c]} ELSE {}
Queued(c)      == Range(queue[c])
InHand(c)      == {job[w] : w \in {v \in Crew(c) : Busy(v)}}
Outstanding(c) == AtCaller(c) \cup Queued(c) \cup sending[c] \cup InHand(c)

\* The WaitGroup of subSubtree counts exactly the jobs that are outstanding,
\* wherever they are: at the caller, in a sender goroutine, in the channel or
\* in a dispatcher's hands.  (wg.Add(1), wg.Add(len(childTargets) - 1).)
WaitGroupExact ==
    \A c \in Call : cpc[c] # "idle" => wg[c] = Cardinality(Outstanding(c))

\* subSubtree closes the channel only when nobody will ever send on it again:
\* no goroutine panics with "send on closed channel", and no job is left in a
\* channel nobody reads.
CloseIsLast ==
    \A c \in Call : cpc[c] = "returned" =>
        /\ Outstanding(c) = {}
        /\ \A w \in Crew(c) : targets[w] = {}

\* No job is lost: a node the calls have stored is still to be asked for, or
\* it has been asked for and all of its children are stored (or the request
\* failed).  handleAXLoadComplete and handleNodesUpdated rely on it when they
\* build the tree: "all requests and their children have finished".  One call
\* alone does not promise it, since another may have taken a child first.
Settled(n) ==
    /\ n \in asked
    /\ n \in failed \/ Child[n] \subseteq known

NewNodes == (known \ before) \cup {Root[c] : c \in {d \in Call : cpc[d] # "idle"}}

CompleteOnReturn == Returned => \A n \in NewNodes : Settled(n)

\* Nothing blocks everything: while some call has not returned, some goroutine
\* can take a step, however few dispatchers there are and however small the
\* channel is.  (The comment in subDispatcher explains the deadlock that the
\* sender goroutines avoid.)  CanStep is written out from the guards, for the
\* proof; that it agrees with them is TLC's own search for deadlocks.
CanStep ==
    \/ \E c \in Call :
          \/ cpc[c] = "idle"
          \/ cpc[c] = "send" /\ HasRoom(c)
          \/ cpc[c] = "wait" /\ wg[c] = 0
          \/ sending[c] # {} /\ HasRoom(c)
    \/ \E w \in Worker :
          \/ Busy(w)
          \/ wpc[w] = "ready" /\ queue[Owner[w]] # <<>>

NeverStuck == (~cancelled /\ ~Returned) => CanStep

\* A node is asked for at most once, except as the argument of a call: the
\* test "fetched before" and the storing are one critical section, so no two
\* dispatchers, of one call or of two, both take a child as their target.
AskedOnce ==
    [][\A w \in Worker : (wpc[w] = "ready" /\ wpc'[w] = "fetch") =>
          job'[w] \notin asked \/ \E c \in Call : Root[c] = job'[w]]_vars

Left(c) == \A w \in Worker : Owner[w] = c => wpc[w] = "exited"

\* Every call returns, and no dispatcher or sender goroutine is left behind; only
\* a cancellation can keep a call, and then the call waits for ids that nobody will
\* take or count off, since all its dispatchers have left (subSubtree, wg.Wait).
AllEnd ==
    <>[](\A c \in Call :
            /\ Left(c)
            /\ \/ cpc[c] = "returned" /\ sending[c] = {}
               \/ cancelled /\ cpc[c] = "wait" /\ (queue[c] # <<>> \/ sending[c] # {}))
-----------------------------------------------------------------------------
(* The inductive invariant: why the counters are exact.  A node becomes a  *)
(* target only when it was not stored before, and is stored in the same    *)
(* step; so no job of a call exists twice, and counting jobs is counting a *)
(* set of ids.                                                             *)

\* No id is twice in the channel, and none is at two places.
OnePlace(c) ==
    /\ \A i, j \in DOMAIN queue[c] : queue[c][i] = queue[c][j] => i = j
    /\ \A v, w \in Crew(c) : Busy(v) /\ Busy(w) /\ job[v] = job[w] => v = w
    /\ Queued(c) \cap sending[c] = {}
    /\ InHand(c) \cap (Queued(c) \cup sending[c]) = {}
    /\ AtCaller(c) \cap (InHand(c) \cup Queued(c) \cup sending[c]) = {}

\* Targets are ids that are no jobs yet, and each is one dispatcher's.
FreshTargets(c) ==
    /\ \A w \in Crew(c) : targets[w] # {} => wpc[w] = "store"
    /\ \A w \in Crew(c) : targets[w] \cap Outstanding(c) = {}
    /\ \A v, w \in Crew(c) : v # w => targets[v] \cap targets[w] = {}

\* Jobs and targets are stored nodes, so a node not yet stored is neither.
JobsKnown(c) ==
    /\ Outstanding(c) \subseteq known
    /\ \A w \in Crew(c) : targets[w] \subseteq known

\* Where the call and its dispatchers are.
Phases(c) ==
    /\ cpc[c] \in {"idle", "returned"} => Outstanding(c) = {}
    /\ cpc[c] = "idle" => \A w \in Crew(c) : wpc[w] = "off"
    /\ \A w \in Crew(c) : wpc[w] = "off" => cpc[c] = "idle"
    /\ \A w \in Crew(c) : wpc[w] = "exited" => cancelled \/ cpc[c] = "returned"

Counts(c) == wg[c] = Cardinality(Outstanding(c))

CallInv(c) ==
    OnePlace(c) /\ FreshTargets(c) /\ JobsKnown(c) /\ Phases(c) /\ Counts(c)

\* Every new node is a job, a target, or settled; and a dispatcher that is
\* storing an answer has stored the children no longer on its list.
Accounted(n) ==
    \/ Settled(n)
    \/ \E c \in Call : n \in Outstanding(c)
    \/ \E w \in Worker : n \in targets[w]

Storing(w) ==
    /\ Busy(w) => job[w] \in asked
    /\ wpc[w] = "store" => job[w] \in failed \/ Child[job[w]] \subseteq known \cup todo[w]

IInv ==
    /\ \A c \in Call : CallInv(c)
    /\ \A n \in NewNodes : Accounted(n)
    /\ \A w \in Worker : Storing(w)
-----------------------------------------------------------------------------
\* What the calls promise together, whatever goroutines and channels they use,
\* cancelled or not: no node is stored, asked for or given up, and completion is
\* never announced, in a way SubtreeFetch does not allow.
Abstract == INSTANCE SubtreeFetch WITH
                Roots <- {Root[c] : c \in Call},
                done  <- Returned
Implements == Abstract!Spec
=============================================================================
