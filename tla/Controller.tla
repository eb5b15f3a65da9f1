----------------------------- MODULE Controller -----------------------------
(***************************************************************************)
(* The flight search of cmd/demo-scrape-flights: Controller (controller.go)*)
(* with its two goroutines, actionProcessor and eventLoop, over unbuffered *)
(* channels; the actions of actions.go; and the goroutines of main.go that *)
(* feed it tree updates and wait for onDone.                               *)
(*                                                                         *)
(* Abstractions.  What InstancesByStructHash answers for one of the hashes *)
(* is whether it is the number of instances the code expects (found).  An  *)
(* action is named by the element it is for.  There is one search, as in   *)
(* main; nextSearch, dateInput and the state for the date picker, which no *)
(* code reaches, are left out.                                             *)
(***************************************************************************)
EXTENDS Naturals

CONSTANTS MaxUpdates  \* bound: events of the stream
ASSUME MaxUpdatesOK == MaxUpdates \in Nat

Elements == {"container", "from", "to", "dates", "text"}
Clicks   == {"from", "to", "dates"}
Actions  == Clicks \cup {"location"}
Events   == {"update", "clicked", "located", "error"}

VARIABLES
    found,      \* elements the database has as many instances of as expected
    updates,    \* events of the stream so far
    feeder,     \* the goroutine of main: "idle", "send" (DispatchEvent), "exited"
    strays,     \* goroutines started by go c.DispatchEvent(ErrEvent{...})
    epc,        \* where eventLoop is
    event,      \* the event it has received last
    site,       \* c.state
    set,        \* which of c.setFrom, c.setTo, c.setDates are true
    done,       \* c.done
    closed,     \* is c.actions closed?
    apc,        \* where actionProcessor is
    hand,       \* the action it has received, then the event it sends
    performed,  \* history: the actions it has performed
    main,       \* "wait" (its last select), "closing" (deferred calls), "ended"
    result,     \* what main has received from onDone
    cancelled,  \* has the context been cancelled (an interrupt)?
    crashed     \* has a goroutine panicked, and on what?

loop   == <<epc, event, site, set, done, closed, strays>>
worker == <<apc, hand, performed>>
env    == <<found, updates, feeder, main, result, cancelled, crashed>>
vars   == <<loop, worker, env>>

Init ==
    /\ found = {} /\ updates = 0 /\ feeder = "idle" /\ strays = 0
    /\ epc = "wait" /\ event = "update" /\ site = "home" /\ set = {}
    /\ done = FALSE /\ closed = FALSE
    /\ apc = "wait" /\ hand = "clicked" /\ performed = {}
    /\ main = "wait" /\ result = "none" /\ cancelled = FALSE /\ crashed = "no"
-----------------------------------------------------------------------------
(* The feeder: the goroutine of main.                                      *)

\* An event of the stream changes the database; the feeder then dispatches
\* ControllerTreeUpdate.  (The controller reads the database without the lock.)
Stream ==
    /\ feeder = "idle" /\ updates < MaxUpdates
    /\ found' \in SUBSET Elements
    /\ updates' = updates + 1 /\ feeder' = "send"
    /\ UNCHANGED <<loop, worker, main, result, cancelled, crashed>>

FeederExit ==
    /\ feeder = "idle" /\ cancelled
    /\ feeder' = "exited"
    /\ UNCHANGED <<loop, worker, found, updates, main, result, cancelled, crashed>>
-----------------------------------------------------------------------------
(* eventLoop.  Channels have no buffer: a send is a step of both parties.  *)

Receive(ev) ==
    /\ epc = "wait"
    /\ epc' = "handle" /\ event' = ev

FromFeeder ==
    /\ feeder = "send" /\ Receive("update")
    /\ feeder' = "idle"
    /\ UNCHANGED <<site, set, done, closed, strays, worker>>
    /\ UNCHANGED <<found, updates, main, result, cancelled, crashed>>

\* Mutant: an error is delivered that nobody sent.
FromNobody ==
    /\ Receive("error")
    /\ strays' = strays - 1
    /\ UNCHANGED <<site, set, done, closed, worker, env>>

FromStray ==
    /\ strays > 0 /\ Receive("error")
    /\ strays' = strays - 1
    /\ UNCHANGED <<site, set, done, closed, worker, env>>

FromProcessor ==
    /\ apc = "send" /\ Receive(hand)
    /\ apc' = "check"
    /\ UNCHANGED <<site, set, done, closed, strays, hand, performed, env>>

\* Mutant: without go, the event loop waits for ever for itself to receive.
ComplainInline ==
    /\ strays' = strays + 1 /\ epc' = "exited"
    /\ UNCHANGED <<site, set>>

\* The end of a handler that did not find what it wants.
Complain ==
    /\ strays' = strays + 1 /\ epc' = "wait"
    /\ UNCHANGED <<site, set>>

\* One of the three parts of handleHomeState: send the click, unless the
\* element is not there or has been clicked before.
Want(el, next) ==
    IF el \in found /\ el \notin set
    THEN /\ set' = set \cup {el} /\ site' = next /\ epc' = el
         /\ UNCHANGED strays
    ELSE Complain

handleHomeState ==
    IF "container" \in found THEN Want("from", "picker") ELSE Complain

locationInput ==
    IF "text" \in found
    THEN /\ site' = "home" /\ epc' = "location"
         /\ UNCHANGED <<set, strays>>
    ELSE Complain

\* Mutant: processEvent does not look at c.done.
IgnoredClicksOnly == event = "clicked"

Ignored == done \/ event = "clicked"

processEvent ==
    /\ epc = "handle"
    /\ \/ /\ Ignored
          /\ epc' = "wait"
          /\ UNCHANGED <<site, set, strays, done>>
       \/ /\ ~Ignored /\ event = "error"
          /\ done' = TRUE /\ epc' = "report"
          /\ UNCHANGED <<site, set, strays>>
       \/ /\ ~Ignored /\ event = "update" /\ site = "picker"
          /\ locationInput
          /\ UNCHANGED done
       \/ /\ ~Ignored
          /\ \/ event = "located"
             \/ event = "update" /\ site = "home"
          /\ handleHomeState
          /\ UNCHANGED done
    /\ UNCHANGED <<event, closed, worker, env>>

\* handleHomeState goes on when its click has been taken.
HomeGoesOn ==
    /\ epc \in {"after from", "after to"}
    /\ IF epc = "after from" THEN Want("to", "picker") ELSE Want("dates", site)
    /\ UNCHANGED <<event, done, closed, worker, env>>

\* dispatchAction: the processor takes the action.  (A send on a closed channel
\* panics.)
dispatchAction ==
    /\ epc \in Actions
    /\ closed \/ apc = "wait"
    /\ IF closed
       THEN crashed' = "closed channel" /\ UNCHANGED <<epc, apc, hand>>
       ELSE /\ apc' = "act" /\ hand' = epc
            /\ epc' = CASE epc = "from" -> "after from"
                        [] epc = "to"   -> "after to"
                        [] OTHER        -> "wait"
            /\ UNCHANGED crashed
    /\ UNCHANGED <<event, site, set, done, closed, strays, performed>>
    /\ UNCHANGED <<found, updates, feeder, main, result, cancelled>>

\* cleanup: onDone <- c.err, which main takes, then close(c.actions).
Report ==
    /\ epc = "report" /\ main = "wait"
    /\ epc' = "close" /\ main' = "closing" /\ result' = "failed"
    /\ UNCHANGED <<event, site, set, done, closed, strays, worker>>
    /\ UNCHANGED <<found, updates, feeder, cancelled, crashed>>

Close ==
    /\ epc = "close"
    /\ epc' = "wait" /\ closed' = TRUE
    /\ crashed' = IF closed THEN "closed channel" ELSE crashed
    /\ UNCHANGED <<event, site, set, done, strays, worker>>
    /\ UNCHANGED <<found, updates, feeder, main, result, cancelled>>

LoopExit ==
    /\ epc = "wait" /\ cancelled
    /\ epc' = "exited"
    /\ UNCHANGED <<event, site, set, done, closed, strays, worker, env>>
-----------------------------------------------------------------------------
(* actionProcessor.                                                        *)

\* Mutant: a click gives no event (nothing handles it).
ActSilently ==
    /\ apc = "act"
    /\ performed' = performed \cup {hand}
    /\ apc' = "check"
    /\ UNCHANGED <<loop, hand, env>>

\* The action is performed on the page.  locationInput's action uses the
\* element without looking at the error of GetElementByBackendID.
Act ==
    /\ apc = "act"
    /\ performed' = performed \cup {hand}
    /\ \/ /\ hand' \in {IF hand = "location" THEN "located" ELSE "clicked", "error"}
          /\ apc' = "send"
          /\ UNCHANGED crashed
       \/ /\ hand = "location"
          /\ crashed' = "nil element"
          /\ UNCHANGED <<apc, hand>>
    /\ UNCHANGED <<loop, found, updates, feeder, main, result, cancelled>>

\* if c.done { return }: a data race with cleanup, so an old value may be read.
Check ==
    /\ apc = "check"
    /\ apc' \in IF done THEN {"wait", "exited"} ELSE {"wait"}
    /\ UNCHANGED <<loop, hand, performed, env>>

ProcessorExit ==
    /\ apc = "wait" /\ (cancelled \/ closed)
    /\ apc' = "exited"
    /\ UNCHANGED <<loop, hand, performed, env>>
-----------------------------------------------------------------------------
Interrupt ==
    /\ ~cancelled
    /\ cancelled' = TRUE
    /\ UNCHANGED <<loop, worker, found, updates, feeder, main, result, crashed>>

\* main leaves its last select on an interrupt; when its deferred calls have
\* been made the process ends, whatever the goroutines are doing.
MainCancelled ==
    /\ main = "wait" /\ cancelled
    /\ main' = "closing"
    /\ UNCHANGED <<loop, worker, found, updates, feeder, result, cancelled, crashed>>

MainEnds ==
    /\ main = "closing"
    /\ main' = "ended"
    /\ UNCHANGED <<loop, worker, found, updates, feeder, result, cancelled, crashed>>

Running == main # "ended" /\ crashed = "no"

eventLoop ==
    \/ FromFeeder \/ FromStray \/ FromProcessor
    \/ processEvent \/ HomeGoesOn \/ dispatchAction
    \/ Report \/ Close \/ LoopExit
actionProcessor == Act \/ Check \/ ProcessorExit

Next ==
    /\ Running
    /\ \/ eventLoop \/ actionProcessor
       \/ Stream \/ FeederExit \/ Interrupt \/ MainCancelled \/ MainEnds

\* The Go scheduler runs the goroutines.  (Weak fairness of the two together is
\* enough: with finitely many updates no step can be repeated for ever.)  Nothing
\* makes the page change, the user interrupt, or main's deferred calls return.
Fairness == WF_vars(Running /\ (eventLoop \/ actionProcessor))
Spec == Init /\ [][Next]_vars /\ Fairness
-----------------------------------------------------------------------------
(* Properties.                                                             *)

TypeOK ==
    /\ found \subseteq Elements /\ updates \in 0..MaxUpdates
    /\ feeder \in {"idle", "send", "exited"} /\ strays \in Nat
    /\ epc \in {"wait", "handle", "after from", "after to", "location",
                "report", "close", "exited"} \cup Clicks
    /\ event \in Events /\ site \in {"home", "picker"} /\ set \subseteq Clicks
    /\ done \in BOOLEAN /\ closed \in BOOLEAN
    /\ apc \in {"wait", "act", "send", "check", "exited"}
    /\ hand \in Actions \cup Events
    /\ performed \subseteq Actions
    /\ main \in {"wait", "closing", "ended"} /\ result \in {"none", "failed"}
    /\ cancelled \in BOOLEAN /\ crashed \in {"no", "nil element", "closed channel"}

\* The search never gets beyond its first click: the click on "to" and the one
\* on the dates are sent (handleHomeState) while the processor is still busy
\* with the click on "from", whose event only the event loop could take.
FirstClickOnly == performed \subseteq {"from", "location"}

\* However many complaints are under way, cleanup closes the channel once and
\* nobody sends on it afterwards.
ChannelsSafe == crashed # "closed channel"

\* The two goroutines wait for each other: one with an action, one with an event.
Deadlocked == epc \in Actions /\ apc = "send"

\* A complaint (go c.DispatchEvent(ErrEvent{...})) reaches main as the result,
\* unless the goroutines have blocked each other or the program has ended.
ComplaintHeard ==
    strays > 0 ~> (result = "failed" \/ Deadlocked \/ cancelled \/ crashed # "no")
-----------------------------------------------------------------------------
(* The inductive invariants.                                               *)

\* While the event loop is inside handleHomeState the processor is busy with
\* the click on "from"; so the second click is never taken.
HomeInv ==
    /\ epc \in {"after from", "to"} => apc \in {"act", "send"}
    /\ epc \notin {"after to", "dates"}
    /\ apc = "act" => hand \in {"from", "location"}
    /\ FirstClickOnly

\* Once done is set the event loop only lets events pass, and it closes the
\* channel at the end of the one cleanup.
CleanupInv ==
    /\ done \in BOOLEAN /\ closed \in BOOLEAN
    /\ done => epc \in {"wait", "handle", "report", "close", "exited"}
    /\ epc \in {"report", "close"} => done /\ ~closed
    /\ closed => done
    /\ ChannelsSafe
=============================================================================
