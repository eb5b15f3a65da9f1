--------------------------- MODULE ProgramsProofs ---------------------------
(***************************************************************************)
(* Proofs about the programs that MCPrograms runs side by side.            *)
(*                                                                         *)
(* Controller, for any number of tree updates: the search never gets       *)
(* beyond its first click, and the channel of actions is closed once and   *)
(* not used afterwards.  The labeler and the pool: what their own modules  *)
(* prove holds of them here, where they run on MCPrograms' structures.     *)
(***************************************************************************)
EXTENDS MCPrograms, SequenceTheorems, TLAPS

LP == INSTANCE LabelerProofs WITH Instances <- Structures,
          cancelled <- lcancelled, crashed <- lcrashed

WP == INSTANCE WorkerPoolProofs WITH at <- wat, hand <- whand, cancelled <- wcancelled
-----------------------------------------------------------------------------
(* Controller.                                                             *)

\* What a step of handleHomeState or locationInput can change, in one place.
LEMMA WantSteps ==
    ASSUME NEW el \in Clicks, NEW next, Want(el, next)
    PROVE  epc' \in {el, "wait"}
  BY DEF Want, Complain

\* What processEvent may do: done is set only with a report, and then for the first time.
LEMMA HandlerSteps ==
    ASSUME processEvent
    PROVE  /\ epc = "handle"
           /\ epc' \in {"wait", "report", "from", "location"}
           /\ epc' \in Actions => ~done
           /\ UNCHANGED <<worker, env, closed>>
           /\ IF epc' = "report" THEN done' = TRUE ELSE done' = done
           /\ epc' = "report" => ~done
<1>1. handleHomeState => epc' \in {"from", "wait"}
  BY WantSteps DEF handleHomeState, Complain, Clicks
<1>2. locationInput => epc' \in {"location", "wait"}
  BY DEF locationInput, Complain
<1> QED
  BY <1>1, <1>2 DEF processEvent, Ignored, Actions, Clicks

\* What the four programs do is for the controller a step of its own or none.
LEMMA ControllerSteps == [ProgramsNext]_all => [Next]_vars
  BY DEF ProgramsNext, Alone, all

\* No click but the first is ever performed.
THEOREM FirstClick == (Spec => []FirstClickOnly) /\ (ProgramsSpec => []FirstClickOnly)
<1>1. Init => HomeInv
  BY DEF Init, HomeInv, FirstClickOnly
<1>2. HomeInv /\ [Next]_vars => HomeInv'
  <2> SUFFICES ASSUME HomeInv, [Next]_vars PROVE HomeInv'
    OBVIOUS
  <2> USE DEF HomeInv, FirstClickOnly
  <2>1. CASE FromFeeder \/ FromStray \/ FromProcessor
    BY <2>1 DEF FromFeeder, FromStray, FromProcessor, Receive, worker, env
  <2>2. CASE processEvent
    BY <2>2, HandlerSteps DEF worker
  <2>3. CASE HomeGoesOn
    BY <2>3, WantSteps DEF HomeGoesOn, Clicks, worker
  <2>4. CASE dispatchAction
    BY <2>4 DEF dispatchAction, Actions, Clicks
  <2>5. CASE Report \/ Close \/ LoopExit
    BY <2>5 DEF Report, Close, LoopExit, worker
  <2>6. CASE Act
    BY <2>6 DEF Act, loop
  <2>7. CASE Check \/ ProcessorExit
    BY <2>7 DEF Check, ProcessorExit, loop
  <2>8. CASE Stream \/ FeederExit \/ Interrupt \/ MainCancelled \/ MainEnds
    BY <2>8 DEF Stream, FeederExit, Interrupt, MainCancelled, MainEnds, loop, worker
  <2>9. CASE UNCHANGED vars
    BY <2>9 DEF vars, loop, worker
  <2> QED
    BY <2>1, <2>2, <2>3, <2>4, <2>5, <2>6, <2>7, <2>8, <2>9
       DEF Next, eventLoop, actionProcessor
<1>3. HomeInv => FirstClickOnly
  BY DEF HomeInv
<1>4. ProgramsInit => HomeInv
  BY <1>1 DEF ProgramsInit
<1>5. HomeInv /\ [ProgramsNext]_all => HomeInv'
  BY <1>2, ControllerSteps
<1> QED
  BY <1>1, <1>2, <1>3, <1>4, <1>5, PTL DEF Spec, ProgramsSpec

\* The channel of actions is closed at most once, after its last use.
THEOREM Channels == (Spec => []ChannelsSafe) /\ (ProgramsSpec => []ChannelsSafe)
<1>1. Init => CleanupInv
  BY DEF Init, CleanupInv, ChannelsSafe
<1>2. CleanupInv /\ [Next]_vars => CleanupInv'
  <2> SUFFICES ASSUME CleanupInv, [Next]_vars PROVE CleanupInv'
    OBVIOUS
  <2> USE DEF CleanupInv, ChannelsSafe
  <2>1. CASE FromFeeder \/ FromStray \/ FromProcessor
    <3>1. epc' = "handle" /\ UNCHANGED <<done, closed, crashed>>
      BY <2>1 DEF FromFeeder, FromStray, FromProcessor, Receive, env
    <3> QED
      BY <3>1
  <2>2. CASE processEvent
    <3>1. /\ epc' \in {"wait", "report", "from", "location"}
          /\ epc' \in {"from", "location"} => ~done
          /\ UNCHANGED <<closed, crashed>>
          /\ IF epc' = "report" THEN done' = TRUE ELSE done' = done
          /\ epc' = "report" => ~done
      BY <2>2, HandlerSteps DEF env, Actions, Clicks
    <3> QED
      BY <3>1
  <2>3. CASE HomeGoesOn
    <3>1. ~done /\ epc' \in {"to", "dates", "wait"} /\ UNCHANGED <<done, closed, crashed>>
      BY <2>3, WantSteps DEF HomeGoesOn, Clicks, env
    <3> QED
      BY <3>1
  <2>4. CASE dispatchAction
    <3>1. ~done
      BY <2>4 DEF dispatchAction, Actions, Clicks
    <3> QED
      BY <2>4, <3>1 DEF dispatchAction, Actions, Clicks
  <2>5. CASE Report
    BY <2>5 DEF Report
  <2>6. CASE Close
    BY <2>6 DEF Close
  <2>7. CASE LoopExit
    <3>1. epc' = "exited" /\ UNCHANGED <<done, closed, crashed>>
      BY <2>7 DEF LoopExit, env
    <3> QED
      BY <3>1
  <2>8. CASE Act
    BY <2>8 DEF Act, loop
  <2>9. ASSUME UNCHANGED <<epc, done, closed, crashed>> PROVE CleanupInv'
    BY <2>9
  <2>10. CASE Check \/ ProcessorExit
    BY <2>9, <2>10 DEF Check, ProcessorExit, loop, env
  <2>11. CASE Stream \/ FeederExit \/ Interrupt \/ MainCancelled \/ MainEnds
    BY <2>9, <2>11 DEF Stream, FeederExit, Interrupt, MainCancelled, MainEnds, loop
  <2>12. CASE UNCHANGED vars
    BY <2>9, <2>12 DEF vars, loop, env
  <2> QED
    BY <2>1, <2>2, <2>3, <2>4, <2>5, <2>6, <2>7, <2>8, <2>10, <2>11, <2>12
       DEF Next, eventLoop, actionProcessor
<1>3. CleanupInv => ChannelsSafe
  BY DEF CleanupInv
<1>4. ProgramsInit => CleanupInv
  BY <1>1 DEF ProgramsInit
<1>5. CleanupInv /\ [ProgramsNext]_all => CleanupInv'
  BY <1>2, ControllerSteps
<1> QED
  BY <1>1, <1>2, <1>3, <1>4, <1>5, PTL DEF Spec, ProgramsSpec

\* The types of the variables of each part.  An action is in the processor's hand
\* while it acts, then an event.
Places == {"wait", "handle", "after from", "after to", "location", "from", "to", "dates",
           "report", "close", "exited"}
LoopTyped ==
    /\ epc \in Places /\ event \in Events
    /\ site \in {"home", "picker"} /\ set \subseteq Clicks
    /\ done \in BOOLEAN /\ closed \in BOOLEAN /\ strays \in Nat
WorkerTyped ==
    /\ apc \in {"wait", "act", "send", "check", "exited"}
    /\ hand \in Actions \cup Events /\ performed \subseteq Actions
    /\ apc = "act"  => hand \in Actions
    /\ apc = "send" => hand \in Events
EnvTyped ==
    /\ found \subseteq Elements /\ updates \in 0..MaxUpdates
    /\ feeder \in {"idle", "send", "exited"} /\ main \in {"wait", "closing", "ended"}
    /\ result \in {"none", "failed"} /\ cancelled \in BOOLEAN
    /\ crashed \in {"no", "nil element", "closed channel"}
ControllerTyped == LoopTyped /\ WorkerTyped /\ EnvTyped

\* The types the run checks follow from these.
LEMMA ControllerTypes == ControllerTyped => TypeOK
BY DEF ControllerTyped, LoopTyped, WorkerTyped, EnvTyped, TypeOK, Places, Clicks

\* The controller starts with its types.
LEMMA ControllerInit == Init => ControllerTyped
<1> SUFFICES ASSUME Init PROVE ControllerTyped
  OBVIOUS
<1>1. LoopTyped
  BY DEF Init, LoopTyped, Places, Events
<1>2. WorkerTyped
  BY DEF Init, WorkerTyped, Actions, Events
<1>3. EnvTyped
  <2>1. updates \in 0..MaxUpdates
    BY MaxUpdatesOK DEF Init
  <2> QED
    BY <2>1 DEF Init, EnvTyped
<1> QED
  BY <1>1, <1>2, <1>3 DEF ControllerTyped

\* Every step of the controller keeps them.
LEMMA ControllerNext == ControllerTyped /\ [Next]_vars => ControllerTyped'
<1> SUFFICES ASSUME LoopTyped, WorkerTyped, EnvTyped, [Next]_vars
             PROVE  LoopTyped' /\ WorkerTyped' /\ EnvTyped'
  BY DEF ControllerTyped
<1>1. loop' = loop => LoopTyped'
  BY DEF loop, LoopTyped
<1>2. worker' = worker => WorkerTyped'
  BY DEF worker, WorkerTyped
<1>3. env' = env => EnvTyped'
  BY DEF env, EnvTyped
<1>4. CASE FromFeeder \/ FromStray
  <2>1. LoopTyped'
    <3>1. epc' = "handle" /\ event' \in {"update", "error"} /\ strays' \in Nat
      BY <1>4 DEF FromFeeder, FromStray, Receive, LoopTyped
    <3>2. UNCHANGED <<site, set, done, closed>>
      BY <1>4 DEF FromFeeder, FromStray
    <3> QED
      BY <3>1, <3>2 DEF LoopTyped, Places, Events
  <2>2. worker' = worker /\ EnvTyped'
    BY <1>3, <1>4 DEF FromFeeder, FromStray, EnvTyped
  <2> QED
    BY <1>2, <2>1, <2>2
<1>5. CASE FromProcessor
  <2>1. LoopTyped'
    BY <1>5 DEF FromProcessor, Receive, LoopTyped, WorkerTyped, Places
  <2>2. WorkerTyped' /\ env' = env
    BY <1>5 DEF FromProcessor, WorkerTyped
  <2> QED
    BY <1>3, <2>1, <2>2
<1>6. CASE processEvent
  <2>1. Complain => strays' \in Nat /\ set' \subseteq Clicks /\ site' \in {"home", "picker"} /\ epc' = "wait"
    BY DEF Complain, LoopTyped
  <2>2. handleHomeState => /\ strays' \in Nat /\ set' \subseteq Clicks
                           /\ site' \in {"home", "picker"} /\ epc' \in {"wait", "from"}
    BY <2>1 DEF handleHomeState, Want, Clicks, LoopTyped
  <2>3. locationInput => /\ strays' \in Nat /\ set' \subseteq Clicks
                         /\ site' \in {"home", "picker"} /\ epc' \in {"wait", "location"}
    BY <2>1 DEF locationInput, LoopTyped
  <2>4. /\ strays' \in Nat /\ set' \subseteq Clicks /\ site' \in {"home", "picker"}
        /\ epc' \in {"wait", "from", "location", "report"} /\ done' \in BOOLEAN
        /\ UNCHANGED <<event, closed, worker, env>>
    BY <1>6, <2>2, <2>3 DEF processEvent, LoopTyped
  <2>5. LoopTyped'
    BY <2>4 DEF LoopTyped, Places
  <2> QED
    BY <1>2, <1>3, <2>4, <2>5
<1>7. CASE HomeGoesOn
  <2>1. LoopTyped'
    <3>1. ASSUME NEW el \in {"to", "dates"}, NEW next \in {"home", "picker"}, Want(el, next)
          PROVE  /\ strays' \in Nat /\ set' \subseteq Clicks /\ site' \in {"home", "picker"}
                 /\ epc' \in {"wait", "to", "dates"}
      <4>1. CASE set' = set \cup {el} /\ site' = next /\ epc' = el /\ strays' = strays
        BY <4>1 DEF Clicks, LoopTyped
      <4>2. CASE Complain
        BY <4>2 DEF Complain, LoopTyped
      <4> QED
        BY <3>1, <4>1, <4>2 DEF Want
    <3>2. /\ strays' \in Nat /\ set' \subseteq Clicks /\ site' \in {"home", "picker"}
          /\ epc' \in {"wait", "to", "dates"} /\ UNCHANGED <<event, done, closed>>
      BY <1>7, <3>1 DEF HomeGoesOn, LoopTyped
    <3> QED
      BY <3>2 DEF LoopTyped, Places
  <2> QED
    BY <1>2, <1>3, <1>7, <2>1 DEF HomeGoesOn
<1>8. CASE dispatchAction
  <2>1. LoopTyped'
    BY <1>8 DEF dispatchAction, LoopTyped, Places
  <2>2. WorkerTyped'
    BY <1>8 DEF dispatchAction, WorkerTyped
  <2>3. EnvTyped'
    BY <1>8 DEF dispatchAction, EnvTyped
  <2> QED
    BY <2>1, <2>2, <2>3
<1>9. CASE Report \/ Close
  <2>1. LoopTyped'
    BY <1>9 DEF Report, Close, LoopTyped, Places
  <2>2. worker' = worker /\ EnvTyped'
    BY <1>9 DEF Report, Close, EnvTyped
  <2> QED
    BY <1>2, <2>1, <2>2
<1>10. CASE LoopExit
  <2>1. LoopTyped' /\ worker' = worker /\ env' = env
    BY <1>10 DEF LoopExit, LoopTyped, Places
  <2> QED
    BY <1>2, <1>3, <2>1
<1>11. CASE Act
  <2>1. WorkerTyped'
    BY <1>11 DEF Act, WorkerTyped, Events
  <2>2. loop' = loop /\ EnvTyped'
    BY <1>11 DEF Act, EnvTyped
  <2> QED
    BY <1>1, <2>1, <2>2
<1>12. CASE Check \/ ProcessorExit
  <2>1. WorkerTyped' /\ loop' = loop /\ env' = env
    BY <1>12 DEF Check, ProcessorExit, WorkerTyped
  <2> QED
    BY <1>1, <1>3, <2>1
<1>13. CASE Stream \/ FeederExit \/ Interrupt \/ MainCancelled \/ MainEnds
  <2>1. loop' = loop /\ worker' = worker
    BY <1>13 DEF Stream, FeederExit, Interrupt, MainCancelled, MainEnds
  <2>2. EnvTyped'
    <3>1. CASE Stream
      <4>1. updates' \in 0..MaxUpdates
        <5>1. updates \in 0..MaxUpdates /\ updates < MaxUpdates /\ updates' = updates + 1
          BY <3>1 DEF Stream, EnvTyped
        <5> QED
          BY <5>1, MaxUpdatesOK
      <4> QED
        BY <3>1, <4>1 DEF Stream, EnvTyped
    <3>2. CASE FeederExit \/ Interrupt
      BY <3>2 DEF FeederExit, Interrupt, EnvTyped
    <3>3. CASE MainCancelled \/ MainEnds
      BY <3>3 DEF MainCancelled, MainEnds, EnvTyped
    <3> QED
      BY <1>13, <3>1, <3>2, <3>3
  <2> QED
    BY <1>1, <1>2, <2>1, <2>2
<1>14. CASE UNCHANGED vars
  BY <1>1, <1>2, <1>3, <1>14 DEF vars
<1> QED
  BY <1>4, <1>5, <1>6, <1>7, <1>8, <1>9, <1>10, <1>11, <1>12, <1>13, <1>14
     DEF Next, eventLoop, actionProcessor
-----------------------------------------------------------------------------
(* The continuous test program.                                            *)

\* What a load event tells is the root of a page the browser has shown, and so is
\* what the loop has in hand until it has its new subctx.
RootSets == {{Roots[p]} : p \in 1..browser}

BrowserTyped ==
    /\ browser \in 0..Len(Roots) /\ browserUpdates \in 0..MaxNodesUpdated
    /\ events \in Seq([load : BOOLEAN, nodes : SUBSET Ids])
    /\ \A k \in DOMAIN events : events[k].load => events[k].nodes \in RootSets
ServerTyped ==
    /\ listener \in {"wait", "cancel", "drain", "clear", "send root", "send", "update", "ended"}
    /\ listener \in {"cancel", "drain"} => nodes \in RootSets
    /\ nodes \subseteq Ids /\ sends \subseteq Ids
    /\ page \in 0..browser /\ alive \in BOOLEAN /\ mutex \in BOOLEAN /\ ccancelled \in BOOLEAN
WorkersTyped ==
    /\ fetched \subseteq Ids /\ asked \subseteq Ids /\ senders \in [Ids -> Nat]
    /\ at \in [Workers -> {"wait", "check", "ask", "store", "exited"}]
    /\ target \in [Workers -> SUBSET Ids] /\ toStore \in [Workers -> SUBSET Ids]

\* The types the run checks follow from these.
LEMMA ContinuousTypes == BrowserTyped /\ ServerTyped /\ WorkersTyped => C!TypeOK
BY DEF BrowserTyped, ServerTyped, WorkersTyped, C!TypeOK

\* The test program starts with its types.
LEMMA ContinuousInit == C!Init => BrowserTyped /\ ServerTyped /\ WorkersTyped
<1> SUFFICES ASSUME C!Init PROVE BrowserTyped /\ ServerTyped /\ WorkersTyped
  OBVIOUS
<1>1. Roots \in [1..Len(Roots) -> Ids] /\ MaxNodesUpdated \in Nat /\ Len(Roots) \in Nat
  BY InstancesFit DEF C!PagesOK, Roots
<1> HIDE DEF Roots
<1>2. BrowserTyped
  BY <1>1 DEF C!Init, BrowserTyped
<1>3. ServerTyped
  <2>1. page \in 0..browser
    BY DEF C!Init
  <2> QED
    BY <2>1 DEF C!Init, ServerTyped
<1>4. WorkersTyped
  BY DEF C!Init, WorkersTyped
<1> QED
  BY <1>2, <1>3, <1>4

\* Every step of the test program keeps them.
LEMMA ContinuousNext ==
    ASSUME BrowserTyped, ServerTyped, WorkersTyped, C!Next
    PROVE  BrowserTyped' /\ ServerTyped' /\ WorkersTyped'
<1>1. /\ Roots \in [1..Len(Roots) -> Ids] /\ MaxNodesUpdated \in Nat /\ Len(Roots) \in Nat
      /\ \A p \in 1..Len(Roots) : Pages[Roots[p]] = p
      /\ Tree \in [Ids -> SUBSET Ids]
  BY InstancesFit DEF C!PagesOK, Roots
<1> HIDE DEF Roots
<1> DEFINE Event == [load : BOOLEAN, nodes : SUBSET Ids]
<1>2. browser \in Nat
  BY <1>1 DEF BrowserTyped
<1>3. UNCHANGED <<browser, browserUpdates, events>> => BrowserTyped'
  BY DEF BrowserTyped, RootSets
<1>4. UNCHANGED <<browser, listener, nodes, sends, page, alive, mutex, ccancelled>> => ServerTyped'
  BY DEF ServerTyped, RootSets
<1>5. UNCHANGED <<fetched, asked, senders, at, target, toStore>> => WorkersTyped'
  BY DEF WorkersTyped
<1>6. ASSUME NEW e \in Event, events' = Append(events, e), browser' \in browser..Len(Roots),
             browserUpdates' \in 0..MaxNodesUpdated, e.load => e.nodes \in RootSets',
             UNCHANGED <<listener, nodes, sends, page, alive, mutex, ccancelled>>
      PROVE  BrowserTyped' /\ ServerTyped'
  <2>1. RootSets \subseteq RootSets'
    BY <1>1, <1>2, <1>6 DEF RootSets
  <2>2. events \in Seq(Event) /\ \A k \in DOMAIN events : events[k].load => events[k].nodes \in RootSets
    BY DEF BrowserTyped
  <2>3. events' \in Seq(Event) /\ \A k \in DOMAIN events' : events'[k] = e \/ (k \in DOMAIN events /\ events'[k] = events[k])
    BY <1>6, <2>2
  <2>4. BrowserTyped'
    <3>1. browser' \in 0..Len(Roots)
      BY <1>1, <1>2, <1>6
    <3>2. \A k \in DOMAIN events' : events'[k].load => events'[k].nodes \in RootSets'
      BY <1>6, <2>1, <2>2, <2>3
    <3> QED
      BY <1>6, <2>3, <3>1, <3>2 DEF BrowserTyped
  <2>5. ServerTyped'
    <3>1. page' \in 0..browser'
      <4>1. page \in 0..browser /\ page' = page /\ browser' \in browser..Len(Roots)
        BY <1>6 DEF ServerTyped
      <4> QED
        BY <1>1, <1>2, <4>1
    <3> QED
      BY <1>6, <2>1, <3>1 DEF ServerTyped
  <2> QED
    BY <2>4, <2>5
<1>7. CASE C!Load
  <2> DEFINE e == [load |-> TRUE, nodes |-> {Roots[browser + 1]}]
  <2>1. /\ browser < Len(Roots) /\ browser' = browser + 1 /\ events' = Append(events, e)
        /\ UNCHANGED <<browserUpdates, listener, nodes, sends, page, alive, mutex, ccancelled>>
        /\ UNCHANGED <<fetched, asked, senders, at, target, toStore>>
    BY <1>7 DEF C!Load, C!ctx, C!pool
  <2>2. browser + 1 \in 1..Len(Roots) /\ browser' \in browser..Len(Roots)
    BY <1>1, <1>2, <2>1 DEF BrowserTyped
  <2>3. e \in Event /\ e.load = TRUE /\ e.nodes = {Roots[browser + 1]}
    BY <1>1, <2>2
  <2>4. e.nodes \in RootSets'
    BY <1>2, <2>1, <2>3 DEF RootSets
  <2> HIDE DEF e
  <2>5. browserUpdates' \in 0..MaxNodesUpdated
    BY <2>1 DEF BrowserTyped
  <2> QED
    BY <1>5, <1>6, <2>1, <2>2, <2>3, <2>4, <2>5
<1>8. ASSUME NEW changed \in SUBSET Ids, C!Update(changed)
      PROVE  BrowserTyped' /\ ServerTyped' /\ WorkersTyped'
  <2> DEFINE e == [load |-> FALSE, nodes |-> changed]
  <2>1. /\ browserUpdates < MaxNodesUpdated /\ browserUpdates' = browserUpdates + 1
        /\ events' = Append(events, e)
        /\ UNCHANGED <<browser, listener, nodes, sends, page, alive, mutex, ccancelled>>
        /\ UNCHANGED <<fetched, asked, senders, at, target, toStore>>
    BY <1>8 DEF C!Update, C!ctx, C!pool
  <2>2. browserUpdates' \in 0..MaxNodesUpdated /\ browser' \in browser..Len(Roots)
    BY <1>1, <1>2, <2>1 DEF BrowserTyped
  <2>3. e \in Event /\ e.load = FALSE
    OBVIOUS
  <2> HIDE DEF e
  <2> QED
    BY <1>5, <1>6, <2>1, <2>2, <2>3
<1>9. CASE C!Receive
  <2>1. /\ events # <<>> /\ nodes' = Head(events).nodes /\ events' = Tail(events)
        /\ listener' = IF Head(events).load THEN "cancel" ELSE "update"
        /\ UNCHANGED <<browser, browserUpdates, sends, page, alive, mutex, ccancelled>>
        /\ UNCHANGED <<fetched, asked, senders, at, target, toStore>>
    BY <1>9 DEF C!Receive, C!ctx, C!pool
  <2>2. events \in Seq(Event) /\ \A k \in DOMAIN events : events[k].load => events[k].nodes \in RootSets
    BY DEF BrowserTyped
  <2> HIDE DEF Event
  <2>3. /\ Head(events) = events[1] /\ 1 \in DOMAIN events /\ events[1] \in Event
        /\ Tail(events) \in Seq(Event)
        /\ \A k \in DOMAIN Tail(events) : k + 1 \in DOMAIN events /\ Tail(events)[k] = events[k + 1]
    <3>1. events \in Seq(Event) /\ events # <<>>
      BY <2>1, <2>2
    <3>2. Len(events) \in Nat /\ Len(events) > 0 /\ DOMAIN events = 1..Len(events)
      BY <3>1, EmptySeq, LenProperties
    <3>3. /\ Tail(events) \in Seq(Event) /\ Len(Tail(events)) = Len(events) - 1
          /\ \A k \in 1..Len(Tail(events)) : Tail(events)[k] = events[k + 1]
      BY <3>1, HeadTailProperties
    <3>4. DOMAIN Tail(events) = 1..(Len(events) - 1)
      BY <3>3, LenProperties
    <3>5. Head(events) = events[1] /\ 1 \in DOMAIN events /\ events[1] \in Event
      BY <3>1, <3>2, ElementOfSeq
    <3>6. \A k \in 1..(Len(events) - 1) : k + 1 \in 1..Len(events)
      BY <3>2
    <3> QED
      BY <3>2, <3>3, <3>4, <3>5, <3>6
  <2>4. BrowserTyped'
    <3>1. \A k \in DOMAIN events' : events'[k].load => events'[k].nodes \in RootSets'
      BY <2>1, <2>2, <2>3 DEF RootSets
    <3> QED
      BY <2>1, <2>3, <3>1 DEF BrowserTyped, Event
  <2>5. ServerTyped'
    <3>1. nodes' \subseteq Ids /\ (listener' = "cancel" => nodes' \in RootSets')
      BY <2>1, <2>2, <2>3 DEF RootSets, Event
    <3> QED
      BY <2>1, <3>1 DEF ServerTyped
  <2> QED
    BY <1>5, <2>1, <2>4, <2>5
<1>10. CASE C!Renew
  <2>1. nodes \in RootSets
    BY <1>10 DEF C!Renew, ServerTyped
  <2>2. PICK p \in 1..browser : nodes = {Roots[p]}
    BY <2>1 DEF RootSets
  <2>3. p \in 1..Len(Roots) /\ p \in 0..browser
    BY <1>1, <1>2 DEF BrowserTyped
  <2>4. (CHOOSE i \in nodes : TRUE) = Roots[p]
    BY <2>2
  <2>5. page' = p
    BY <1>1, <1>10, <2>3, <2>4 DEF C!Renew
  <2>6. ServerTyped'
    BY <1>10, <2>3, <2>5 DEF C!Renew, C!chrome, ServerTyped
  <2> QED
    BY <1>3, <1>5, <1>10, <2>6 DEF C!Renew, C!chrome, C!pool
<1>11. CASE C!CancelOld \/ C!Clear \/ C!Handled \/ C!End
  <2>1. ServerTyped'
    BY <1>11 DEF C!CancelOld, C!Clear, C!Handled, C!End, C!chrome, C!ctx, ServerTyped, RootSets
  <2>2. WorkersTyped'
    BY <1>11 DEF C!CancelOld, C!Clear, C!Handled, C!End, C!pool, WorkersTyped, ServerTyped
  <2> QED
    BY <1>3, <1>11, <2>1, <2>2 DEF C!CancelOld, C!Clear, C!Handled, C!End, C!chrome
<1>12. ASSUME NEW i \in Ids, C!Drain(i) \/ C!Updated(i)
       PROVE  BrowserTyped' /\ ServerTyped' /\ WorkersTyped'
  <2>1. ServerTyped'
    BY <1>12 DEF C!Drain, C!Updated, C!chrome, C!ctx, ServerTyped, RootSets
  <2>2. WorkersTyped'
    BY <1>12 DEF C!Drain, C!Updated, C!pool, WorkersTyped
  <2> QED
    BY <1>3, <1>12, <2>1, <2>2 DEF C!Drain, C!Updated, C!chrome
<1>13. ASSUME NEW w \in Workers, C!Sent(w)
       PROVE  BrowserTyped' /\ ServerTyped' /\ WorkersTyped'
  <2>1. ServerTyped'
    BY <1>13 DEF C!Sent, C!chrome, C!ctx, ServerTyped, RootSets
  <2>2. WorkersTyped'
    BY <1>13 DEF C!Sent, WorkersTyped, ServerTyped
  <2> QED
    BY <1>3, <1>13, <2>1, <2>2 DEF C!Sent, C!chrome
<1>14. ASSUME NEW w \in Workers, C!Check(w) \/ C!Ask(w) \/ C!Stored(w) \/ C!Exit(w)
       PROVE  BrowserTyped' /\ ServerTyped' /\ WorkersTyped'
  <2>1. UNCHANGED <<browser, browserUpdates, events>>
        /\ UNCHANGED <<listener, nodes, sends, page, alive, mutex, ccancelled, fetched, senders, target>>
    BY <1>14 DEF C!Check, C!Ask, C!Stored, C!Exit, C!chrome, C!ctx
  <2>2. /\ at' \in [Workers -> {"wait", "check", "ask", "store", "exited"}]
        /\ toStore' \in [Workers -> SUBSET Ids] /\ asked' \subseteq Ids
    BY <1>1, <1>14 DEF C!Check, C!Ask, C!Stored, C!Exit, C!Goto, WorkersTyped
  <2> QED
    BY <1>3, <1>4, <2>1, <2>2 DEF WorkersTyped
<1>15. ASSUME NEW w \in Workers, NEW i \in Ids, C!Take(w, i) \/ C!Store(w, i)
       PROVE  BrowserTyped' /\ ServerTyped' /\ WorkersTyped'
  <2>1. UNCHANGED <<browser, browserUpdates, events>>
        /\ UNCHANGED <<listener, nodes, sends, page, alive, mutex, ccancelled>>
    BY <1>15 DEF C!Take, C!Store, C!chrome, C!ctx
  <2>2. WorkersTyped'
    BY <1>15 DEF C!Take, C!Store, C!Goto, WorkersTyped
  <2> QED
    BY <1>3, <1>4, <2>1, <2>2
<1>16. CASE C!Interrupt
  <2>1. ServerTyped'
    BY <1>16 DEF C!Interrupt, C!chrome, C!ctx, ServerTyped, RootSets
  <2> QED
    BY <1>3, <1>5, <1>16, <2>1 DEF C!Interrupt, C!chrome, C!pool
<1> QED
  BY <1>7, <1>8, <1>9, <1>10, <1>11, <1>12, <1>13, <1>14, <1>15, <1>16 DEF C!Next, C!Step
-----------------------------------------------------------------------------
(* The labeler and the pool of workers.                                    *)

\* The programs MCPrograms runs are those the proofs are about.
LEMMA LabelerIsProved == (L!Init => LP!Init) /\ (L!Next => LP!Next)
<1> USE DEF L!page, LP!page, L!storage, LP!storage
<1>1. \A h : L!anyNonCyclicStructure(h) = LP!anyNonCyclicStructure(h)
  BY DEF L!anyNonCyclicStructure, LP!anyNonCyclicStructure
<1>2. \A p : L!Kids(p) = LP!Kids(p) /\ L!Below(p) = LP!Below(p) /\ L!Drop(p) = LP!Drop(p)
  BY <1>1 DEF L!Kids, LP!Kids, L!Below, LP!Below, L!Drop, LP!Drop
<1>3. L!Pages = LP!Pages
  BY DEF L!Pages, LP!Pages, L!Range, LP!Range
<1>4. L!Init => LP!Init
  BY <1>3 DEF L!Init, LP!Init
<1>5. \A h : L!Begin(h) => LP!Begin(h)
  BY DEF L!Begin, LP!Begin, L!Idle, LP!Idle, L!Call, LP!Call
<1>6. \A p : (L!Finish(p) => LP!Finish(p)) /\ (L!Fail(p) => LP!Fail(p)) /\ (L!Ask(p) => LP!Ask(p))
  BY <1>2 DEF L!Finish, LP!Finish, L!Fail, LP!Fail, L!Ask, LP!Ask, L!Go, LP!Go
<1>7. \A p : L!Lookup(p) => LP!Lookup(p)
  BY <1>2 DEF L!Lookup, LP!Lookup, L!Go, LP!Go, L!Call, LP!Call, L!Last, LP!Last
<1>8. \A p : (L!AllCollected(p) => LP!AllCollected(p)) /\ (L!SendOnClosed(p) => LP!SendOnClosed(p))
  BY DEF L!AllCollected, LP!AllCollected, L!SendOnClosed, LP!SendOnClosed, L!Go, LP!Go, L!Front, LP!Front
<1>9. \A p : L!Record(p) => LP!Record(p)
  BY DEF L!Record, LP!Record, L!Go, LP!Go
<1>10. \A p, q : L!Collect(p, q) => LP!Collect(p, q)
  BY <1>2 DEF L!Collect, LP!Collect, L!Front, LP!Front
<1>11. /\ L!Write => LP!Write
       /\ L!WriterExit => LP!WriterExit
       /\ L!PageChange => LP!PageChange
       /\ L!Interrupt => LP!Interrupt
  BY <1>3 DEF L!Write, LP!Write, L!WriterExit, LP!WriterExit, L!PageChange, LP!PageChange,
              L!Interrupt, LP!Interrupt
<1>12. L!Step => LP!Step
  BY <1>5, <1>6, <1>7, <1>8, <1>9, <1>10, <1>11 DEF L!Step, LP!Step
<1> QED
  BY <1>4, <1>11, <1>12 DEF L!Next, LP!Next

\* The pool of the run is one the proofs of the pool are about.
LEMMA PoolIsProved == (W!Init => WP!Init) /\ (W!Next => WP!Next)
BY DEF W!Init, WP!Init, W!Next, WP!Next, W!Step, WP!Step, W!MayAdd, WP!MayAdd, W!Add, WP!Add,
       W!Start, WP!Start, W!Receive, WP!Receive, W!Exec, WP!Exec, W!Done, WP!Done,
       W!Exit, WP!Exit, W!Wait, WP!Wait, W!Close, WP!Close, W!Cancel, WP!Cancel

\* The invariants of the labeler hold in the specification the run checks.
LEMMA LabelerInvariant == ProgramsSpec => [](LP!IInv /\ LP!Calm)
<1>1. LP!InstancesOK
  BY InstancesFit DEF L!InstancesOK, LP!InstancesOK
<1>2. ProgramsInit => LP!IInv /\ LP!Calm
  BY <1>1, LabelerIsProved, LP!InitIInv DEF ProgramsInit
<1>3. [ProgramsNext]_all => [LP!Next]_LP!vars
  <2>1. lvars' = lvars => LP!vars' = LP!vars
    BY DEF lvars, LP!vars, LP!page, LP!storage
  <2> QED
    BY <2>1, LabelerIsProved DEF ProgramsNext, Alone, all
<1>4. LP!IInv /\ LP!Calm /\ [ProgramsNext]_all => (LP!IInv /\ LP!Calm)'
  BY <1>3, LP!NextIInv
<1> QED
  BY <1>2, <1>4, PTL DEF ProgramsSpec

\* So does that of the pool.
LEMMA PoolInvariant == ProgramsSpec => []WP!IInv
<1>1. ProgramsInit => WP!IInv
  BY PoolIsProved, WP!InitIInv DEF ProgramsInit
<1>2. [ProgramsNext]_all => [WP!Next]_WP!vars
  <2>1. wvars' = wvars => WP!vars' = WP!vars
    BY DEF wvars, WP!vars
  <2> QED
    BY <2>1, PoolIsProved DEF ProgramsNext, Alone, all
<1>3. WP!IInv /\ [ProgramsNext]_all => WP!IInv'
  BY <1>2, WP!NextIInv
<1> QED
  BY <1>1, <1>3, PTL DEF ProgramsSpec

\* So do the types of the controller.
LEMMA ControllerInvariant == ProgramsSpec => []ControllerTyped
<1>1. ProgramsInit => ControllerTyped
  BY ControllerInit DEF ProgramsInit
<1>2. ControllerTyped /\ [ProgramsNext]_all => ControllerTyped'
  BY ControllerSteps, ControllerNext
<1> QED
  BY <1>1, <1>2, PTL DEF ProgramsSpec

\* So do those of the test program.
LEMMA ContinuousInvariant == ProgramsSpec => [](BrowserTyped /\ ServerTyped /\ WorkersTyped)
<1>1. ProgramsInit => BrowserTyped /\ ServerTyped /\ WorkersTyped
  BY ContinuousInit DEF ProgramsInit
<1>2. [ProgramsNext]_all => C!Next \/ UNCHANGED cvars
  BY DEF ProgramsNext, Alone, all
<1>3. ASSUME BrowserTyped, ServerTyped, WorkersTyped, UNCHANGED cvars
      PROVE  BrowserTyped' /\ ServerTyped' /\ WorkersTyped'
  BY <1>3 DEF cvars, BrowserTyped, ServerTyped, WorkersTyped, RootSets
<1>4. /\ BrowserTyped /\ ServerTyped /\ WorkersTyped
      /\ [ProgramsNext]_all
      => BrowserTyped' /\ ServerTyped' /\ WorkersTyped'
  BY <1>2, <1>3, ContinuousNext
<1> QED
  BY <1>1, <1>4, PTL DEF ProgramsSpec
-----------------------------------------------------------------------------
(* What the programs promise, for any number of updates, calls, changes    *)
(* and events, any work and any workers.                                   *)

\* Every variable of the four programs keeps its type: among others the
\* WaitGroup never goes below zero, for which a Go program panics (doWork), and
\* the event loop is never handed a value that is not an event (eventLoop).
THEOREM ProgramTypes == ProgramsSpec => []TypesOK
<1>1. /\ ControllerTyped => TypeOK
      /\ BrowserTyped /\ ServerTyped /\ WorkersTyped => C!TypeOK
  BY ControllerTypes, ContinuousTypes
<1>2. LP!IInv => L!TypeOK
  BY LP!TypedIsTyped DEF LP!TypeOK, L!TypeOK, LP!Cardinality, L!Cardinality
<1>3. WP!IInv => W!TypeOK
  BY WP!TypedIsTyped DEF WP!TypeOK, W!TypeOK
<1>4. /\ ControllerTyped /\ BrowserTyped /\ ServerTyped /\ WorkersTyped
      /\ LP!IInv /\ WP!IInv
      => TypesOK
  BY <1>1, <1>2, <1>3 DEF TypesOK
<1> QED
  BY <1>4, ControllerInvariant, ContinuousInvariant, LabelerInvariant, PoolInvariant, PTL

\* Children come first, however the calls interleave, fail or are interrupted: the
\* model is asked about a structure (Labeler.Label), and its label is written
\* (recordWriteWorker), only when the label of each child is in the database or its
\* write has failed, or, while the model is asked, is going on.
THEOREM ProgramBottomUp == ProgramsSpec => []BottomUp
<1>1. LP!IInv => BottomUp
  <2>1. \A h : L!anyNonCyclicStructure(h) = LP!anyNonCyclicStructure(h)
    BY DEF L!anyNonCyclicStructure, LP!anyNonCyclicStructure
  <2> QED
    BY <2>1 DEF LP!IInv, LP!WriterInv, BottomUp, L!BottomUp, L!AskedLast, LP!AskedLast,
                L!WrittenLast, LP!WrittenLast, L!Received, LP!Received, L!Kids, LP!Kids,
                L!Range, LP!Range
<1> QED
  BY <1>1, LabelerInvariant, PTL

\* Nothing panics (a send on a closed channel in childLabels or RecordLabel, the
\* missing instance in anyNonCyclicStructure) while nothing fails, the page
\* stays as it is and nobody interrupts.
THEOREM ProgramCalm == ProgramsSpec => []CalmIsSafe
<1>1. LP!Calm => CalmIsSafe
  BY DEF LP!Calm, CalmIsSafe, L!CalmIsSafe, LP!CalmIsSafe
<1> QED
  BY <1>1, LabelerInvariant, PTL

\* "Wait returns a channel which is closed when the wait group is empty"
\* (worker_pool.go): it is closed only when all work has been executed.
THEOREM ProgramAllDone == ProgramsSpec => []AllDone
<1>1. WP!IInv => AllDone
  BY WP!IsDone DEF AllDone, W!AllDone, WP!AllDone
<1> QED
  BY <1>1, PoolInvariant, PTL
=============================================================================
