----------------------------- MODULE Continuous -----------------------------
(***************************************************************************)
(* cmd/test-ax-events-continuous: the first form of the listener.  Workers *)
(* ask for the children of every node they are sent; the event loop sends  *)
(* them the root of a new page and the unknown nodes of an update, over one*)
(* unbuffered channel, the latter while it holds fetchedMutex.             *)
(*                                                                         *)
(* Abstractions.  Of fetched only the keys are kept.  Browser: a node of a *)
(* page that is gone has no children to tell, ids are not used again, and  *)
(* the events of a page come in order.  The loop dies of nothing else than *)
(* an interrupt: the events of page.Event() never end.                     *)
(***************************************************************************)
EXTENDS Integers, Sequences

CONSTANTS
    Ids,        \* AX ids
    PageOf,     \* PageOf[i]: the page a node belongs to
    Root,       \* Root[p]: the root of page p
    Kids,       \* Kids[i]: the children Chrome answers for a node
    Workers,
    MaxUpdates  \* bound: nodesUpdated events

\* What an instance has to assume of the constants.
PagesOK ==
    /\ PageOf \in [Ids -> Nat \ {0}] /\ Kids \in [Ids -> SUBSET Ids]
    /\ Root \in [1..Len(Root) -> Ids]
    /\ \A p \in DOMAIN Root : PageOf[Root[p]] = p
    /\ MaxUpdates \in Nat

VARIABLES
    browser,   \* the page the browser shows (0: none yet)
    updates,   \* nodesUpdated events so far
    events,    \* events on their way to the loop
    loop,      \* where the event loop is
    nodes,     \* the nodes of its event it has not handled
    sends,     \* the node it is sending (a set, empty at first)
    page,      \* the page the current subctx is for
    alive,     \* is subctx not cancelled by cancel()?
    mutex,     \* does the loop hold fetchedMutex? (workers hold it for one step)
    fetched,   \* the keys of fetched
    senders,   \* how many goroutines wait to send each node
    at,        \* where each worker is
    target,    \* the node each worker has received last (a set, empty at first)
    todo,      \* children each worker has yet to store
    asked,     \* history: nodes whose children were asked for
    cancelled  \* has the user interrupted?

chrome == <<browser, updates, events>>
ctx    == <<page, alive>>
pool   == <<at, target, todo, asked>>
vars   == <<chrome, loop, nodes, sends, ctx, mutex, fetched, senders, pool, cancelled>>

Init ==
    /\ browser = 0 /\ updates = 0 /\ events = <<>>
    /\ loop = "wait" /\ nodes = {} /\ sends = {} /\ page = 0 /\ alive = TRUE
    /\ mutex = FALSE /\ fetched = {} /\ senders = [i \in Ids |-> 0]
    /\ at = [w \in Workers |-> "wait"] /\ target = [w \in Workers |-> {}]
    /\ todo = [w \in Workers |-> {}] /\ asked = {} /\ cancelled = FALSE
-----------------------------------------------------------------------------
(* The browser.                                                            *)

Load ==
    /\ browser < Len(Root)
    /\ browser' = browser + 1
    /\ events' = Append(events, [load |-> TRUE, nodes |-> {Root[browser + 1]}])
    /\ UNCHANGED <<updates, loop, nodes, sends, ctx, mutex, fetched, senders, pool, cancelled>>

\* nodesUpdated: nodes the program knows, and nodes that are new to it.
Update(changed) ==
    /\ updates < MaxUpdates /\ changed # {}
    /\ \A i \in changed : PageOf[i] = browser
    /\ updates' = updates + 1
    /\ events' = Append(events, [load |-> FALSE, nodes |-> changed])
    /\ UNCHANGED <<browser, loop, nodes, sends, ctx, mutex, fetched, senders, pool, cancelled>>
-----------------------------------------------------------------------------
(* The event loop.                                                         *)

Receive ==
    /\ loop = "wait" /\ events # <<>>
    /\ loop' = IF Head(events).load THEN "cancel" ELSE "update"
    /\ nodes' = Head(events).nodes /\ events' = Tail(events)
    /\ UNCHANGED <<browser, updates, sends, ctx, mutex, fetched, senders, pool, cancelled>>

\* reset: cancel(), the drain, the new subctx.
CancelOld ==
    /\ loop = "cancel"
    /\ alive' = FALSE /\ loop' = "drain"
    /\ UNCHANGED <<chrome, nodes, sends, page, mutex, fetched, senders, pool, cancelled>>

Drain(i) ==
    /\ loop = "drain" /\ senders[i] > 0
    /\ senders' = [senders EXCEPT ![i] = @ - 1]
    /\ UNCHANGED <<chrome, loop, nodes, sends, ctx, mutex, fetched, pool, cancelled>>

\* Mutant: the drain ends, but the old subctx stays.
KeepOld ==
    /\ loop = "drain"
    /\ loop' = "clear" /\ page' = PageOf[CHOOSE i \in nodes : TRUE]
    /\ UNCHANGED <<chrome, nodes, sends, alive, mutex, fetched, senders, pool, cancelled>>

\* default: no goroutine is at its send.  Those that wait may not have got there.
Renew ==
    /\ loop = "drain"
    /\ loop' = "clear" /\ page' = PageOf[CHOOSE i \in nodes : TRUE] /\ alive' = TRUE
    /\ UNCHANGED <<chrome, nodes, sends, mutex, fetched, senders, pool, cancelled>>

\* "fetch root & reset state", between Lock and Unlock.
Clear ==
    /\ loop = "clear" /\ ~mutex
    /\ fetched' = nodes
    /\ loop' = "send root" /\ sends' = nodes /\ nodes' = {}
    /\ UNCHANGED <<chrome, ctx, mutex, senders, pool, cancelled>>

\* One turn of the loop over the nodes of an update: an unknown node is sent
\* before the mutex is unlocked.
Updated(i) ==
    /\ loop = "update" /\ i \in nodes /\ ~mutex
    /\ nodes' = nodes \ {i}
    /\ IF i \in fetched THEN UNCHANGED <<loop, sends, mutex>>
       ELSE loop' = "send" /\ sends' = {i} /\ mutex' = TRUE
    /\ UNCHANGED <<chrome, ctx, fetched, senders, pool, cancelled>>

\* Mutant: the mutex is not unlocked when the node was unknown.
SentLocked(w) ==
    /\ loop \in {"send", "send root"} /\ at[w] = "wait"
    /\ at' = [at EXCEPT ![w] = "check"] /\ target' = [target EXCEPT ![w] = sends]
    /\ fetched' = fetched \cup sends
    /\ loop' = "update"
    /\ UNCHANGED <<chrome, nodes, sends, ctx, mutex, senders, todo, asked, cancelled>>

\* A worker takes what the loop sends.
Sent(w) ==
    /\ loop \in {"send", "send root"} /\ at[w] = "wait"
    /\ at' = [at EXCEPT ![w] = "check"] /\ target' = [target EXCEPT ![w] = sends]
    /\ fetched' = fetched \cup sends /\ mutex' = FALSE
    /\ loop' = "update"
    /\ UNCHANGED <<chrome, nodes, sends, ctx, senders, todo, asked, cancelled>>

Handled ==
    /\ loop = "update" /\ nodes = {}
    /\ loop' = "wait"
    /\ UNCHANGED <<chrome, nodes, sends, ctx, mutex, fetched, senders, pool, cancelled>>

\* main returns, and the process ends.
End ==
    /\ loop = "wait" /\ cancelled
    /\ loop' = "ended"
    /\ UNCHANGED <<chrome, nodes, sends, ctx, mutex, fetched, senders, pool, cancelled>>
-----------------------------------------------------------------------------
(* A worker.                                                               *)

Goto(w, pc) == at' = [at EXCEPT ![w] = pc]

Take(w, i) ==
    /\ at[w] = "wait" /\ senders[i] > 0
    /\ senders' = [senders EXCEPT ![i] = @ - 1]
    /\ target' = [target EXCEPT ![w] = {i}] /\ Goto(w, "check")
    /\ UNCHANGED <<chrome, loop, nodes, sends, ctx, mutex, fetched, todo, asked, cancelled>>

\* subctx.Err(): the variable is read without a lock, so a worker with a node of
\* an earlier page may still see that page's subctx; with a node of this page it
\* has been sent the node after subctx was set.
Check(w) ==
    /\ at[w] = "check"
    /\ \/ alive /\ ~cancelled /\ Goto(w, "ask")
       \/ /\ ~alive \/ cancelled \/ \E i \in target[w] : PageOf[i] # page
          /\ Goto(w, "wait")
    /\ UNCHANGED <<chrome, loop, nodes, sends, ctx, mutex, fetched, senders,
                   target, todo, asked, cancelled>>

\* GetChildAXNodes is answered, unless the node's page is gone; or it fails, as
\* it does when subctx is cancelled ("we ignore errors").
Ask(w) ==
    /\ at[w] = "ask"
    /\ asked' = asked \cup target[w]
    /\ \/ \E i \in target[w] :
             /\ PageOf[i] = browser
             /\ todo' = [todo EXCEPT ![w] = Kids[i]]
             /\ Goto(w, "store")
       \/ Goto(w, "wait") /\ UNCHANGED todo
    /\ UNCHANGED <<chrome, loop, nodes, sends, ctx, mutex, fetched, senders, target, cancelled>>

\* Mutant: the child is sent only if a worker is waiting just then.
StoreOrDrop(w, i) ==
    /\ at[w] = "store" /\ i \in todo[w] /\ ~mutex
    /\ todo' = [todo EXCEPT ![w] = @ \ {i}] /\ fetched' = fetched \cup {i}
    /\ senders' = IF i \in fetched \/ \A v \in Workers : at[v] # "wait" THEN senders
                  ELSE [senders EXCEPT ![i] = @ + 1]
    /\ UNCHANGED <<chrome, loop, nodes, sends, ctx, mutex, at, target, asked, cancelled>>

\* One turn of the loop over the children, between Lock and Unlock.
Store(w, i) ==
    /\ at[w] = "store" /\ i \in todo[w] /\ ~mutex
    /\ todo' = [todo EXCEPT ![w] = @ \ {i}] /\ fetched' = fetched \cup {i}
    /\ senders' = IF i \in fetched THEN senders ELSE [senders EXCEPT ![i] = @ + 1]
    /\ UNCHANGED <<chrome, loop, nodes, sends, ctx, mutex, at, target, asked, cancelled>>

Stored(w) ==
    /\ at[w] = "store" /\ todo[w] = {}
    /\ Goto(w, "wait")
    /\ UNCHANGED <<chrome, loop, nodes, sends, ctx, mutex, fetched, senders,
                   target, todo, asked, cancelled>>

Exit(w) ==
    /\ at[w] = "wait" /\ cancelled
    /\ Goto(w, "exited")
    /\ UNCHANGED <<chrome, loop, nodes, sends, ctx, mutex, fetched, senders,
                   target, todo, asked, cancelled>>
-----------------------------------------------------------------------------
Interrupt ==
    /\ ~cancelled
    /\ cancelled' = TRUE
    /\ UNCHANGED <<chrome, loop, nodes, sends, ctx, mutex, fetched, senders, pool>>

Step ==
    /\ loop # "ended"
    /\ \/ Receive \/ CancelOld \/ Renew \/ Clear \/ Handled \/ End
       \/ \E i \in Ids : Drain(i) \/ Updated(i)
       \/ \E w \in Workers :
             \/ Sent(w) \/ Check(w) \/ Ask(w) \/ Stored(w) \/ Exit(w)
             \/ \E i \in Ids : Take(w, i) \/ Store(w, i)

Next ==
    \/ Step
    \/ loop # "ended" /\ (Load \/ Interrupt \/ \E changed \in SUBSET Ids : Update(changed))

\* The Go scheduler runs the goroutines, Chrome answers; nothing makes the page
\* change or the user interrupt.
Spec == Init /\ [][Next]_vars /\ WF_vars(Step)
-----------------------------------------------------------------------------
(* Properties.                                                             *)

TypeOK ==
    /\ browser \in 0..Len(Root) /\ page \in 0..browser /\ updates \in 0..MaxUpdates
    /\ loop \in {"wait", "cancel", "drain", "clear", "send root", "send", "update", "ended"}
    /\ nodes \subseteq Ids /\ sends \subseteq Ids /\ fetched \subseteq Ids /\ asked \subseteq Ids
    /\ alive \in BOOLEAN /\ cancelled \in BOOLEAN /\ mutex \in BOOLEAN
    /\ senders \in [Ids -> Nat]
    /\ at \in [Workers -> {"wait", "check", "ask", "store", "exited"}]
    /\ target \in [Workers -> SUBSET Ids] /\ todo \in [Workers -> SUBSET Ids]

\* The loop holds the mutex and waits for a worker; every worker waits for the
\* mutex.
Embrace ==
    /\ loop = "send"
    /\ \A w \in Workers : at[w] = "store" /\ todo[w] # {}

\* The event loop gets back to its select, or the program ends.  Two things only
\* can keep it: an embrace of the loop and all workers, and an interrupt during
\* a send, which the workers leave behind (the sends do not select ctx.Done).
LoopServes ==
    loop # "wait" ~>
        \/ loop \in {"wait", "ended"} \/ Embrace
        \/ cancelled /\ loop \in {"send", "send root"}

\* Nodes of the page whose children nobody has asked for.
Unasked == {i \in fetched : PageOf[i] = page} \ asked

\* No node of the page is left out, whatever is drained, dropped or skipped when
\* the page changes: in the end the children of all nodes have been asked for
\* (so that their changes are reported), unless the user interrupts or the loop
\* and the workers embrace.
AllAsked == Unasked # {} ~> (Unasked = {} \/ cancelled \/ Embrace)
=============================================================================
