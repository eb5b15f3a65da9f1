# Verification of ax-distiller

TLA+ models of ax-distiller, checked with TLC on small instances and, where it
matters most, proved with TLAPS for every instance. Every definition is
translated from the Go source; `PROJECT.json` ("map") names the lines.

## The system

ax-distiller follows the accessibility (AX) tree of a page in Chrome over the
DevTools protocol and condenses it into structures that repeat.

| part | state | operations | talks to |
|---|---|---|---|
| `axstream` event worker (`listener_event_worker.go`) | where it is in an event; `updatedIDs` | `handleAXLoadComplete`, `handleNodesUpdated`, `reconcile` | receives CDP events in order, starts subscriptions and waits for them, sends `Event`s on a channel of 8 |
| `axstream` page state (`listener_state.go`) | `pageID`, page context, `nodes` under one mutex | `PageReset`, `GetNode`, `UpdateNode`, `GetTree` | shared by the event worker and all dispatchers |
| `axstream` subscriptions (`listener_subscriber_worker.go`) | per call: job channel of 8, WaitGroup, 8 dispatchers, sender goroutines | `subSubtree`, `subDispatcher`, `subscribe` | asks Chrome for a node's children, which also makes Chrome report its changes |
| `structure` wrappers (`synthetics.go`) | a sibling list | `deleteAdjacent`, `slideWindow`, `Construct` | called by `Persistent` |
| `structure` hashes (`structure.go`) | hash, path hash, parent of each node | `UpdateSHash`, `UpdatePHash`, `UpdateParentRecursively` | called by `Persistent` |
| `structure.Persistent` (`persistent.go`) | two SQLite databases: instances (in memory), structures and paths (file) | `HandleEvent`, `pushDB`, `pushInstances`, `pushStructures`, `updateAncestorSHash` | consumes the stream |
| `syncx.WorkerPool` (`worker_pool.go`) | an unbuffered queue, a WaitGroup, a fixed number of workers | `Add`, `Start`, `Wait` | executes work that may add work |
| `tree`, `cdp` | a generic tree; CDP requests | `DetectCycles`; `FilterDescendentsShallow` | libraries of the above |
| `cmd/test-ax-events-continuous` | the first form of the listener: `fetched` under a mutex, an unbuffered channel, 8 workers | event loop, workers, senders | asks Chrome like the listener, keeps no tree |
| `cmd/inspector` | the program's tree behind a lock; the panel's `Tree.nodes`, its `TreeNode` objects and their HTML elements | `expandLevels`, `expandTo`, `updateInspectorTree`; clicks, hovering, Alt+C | panel and program call each other's functions |
| `cmd/demo-scrape-flights`, `cmd/demo-ai` | flight search controller; labeler and its database of labels | | consume the stream, ask `Persistent` |

What is hard in it: many goroutines share one map and feed each other through
a bounded channel; the page goes on changing while its tree is being fetched;
the page may be replaced at any time; requests fail; the consumer may be slow
or cancel; the tree is put together from answers and updates given at
different times; two databases have to agree. `PROJECT.json` ("hazards") has
the list, line by line.

What makes the parts correct:

- **subscriptions**: every node below the root is fetched before the call
  returns, none by two dispatchers; the WaitGroup is exact; the channel is
  closed last; no deadlock; the call ends.
- **event worker and page state**: nothing works for a stale page; the
  assertions hold; every node of the page ends up known; the consumer's copy
  follows the listener's map and, in the end, the page.
- **wrappers**: every node is kept once, in order; every replacement wraps a
  pattern that is repeated, until none is; a hash tells what is below it.
- **worker pool**: `Wait` answers when all work has been executed, and does answer.
- **continuous test program**: its loop comes back, and no node of the page is left
  out when pages change.
- **inspector**: the panel knows what the program knows, and shows the page's tree.
- **Persistent**: the instances are those of the page; both databases describe
  the same tree; paths and hashes identify structures.

## Modules

### SubSubtree (with SubtreeFetch, MCSubSubtree, SubSubtreeProofs)

Several calls of `subSubtree` at once, as `reconcile` starts them.

| model | code |
|---|---|
| `known` | the keys of `treeState.nodes` |
| `cpc[c]`, `wg[c]`, `queue[c]` | the goroutine of the call, its WaitGroup, its channel (closed = `"returned"`) |
| `sending[c]` | ids in the sender goroutines of `subDispatcher` |
| `wpc[w]`, `job[w]`, `todo[w]`, `targets[w]` | a dispatcher: at its select, in `CommandOutputPtr`, in the loop of `subscribe` |
| `Start`, `SendRoot`, `Return` | `subSubtree` up to `wg.Add(1)`, the send, `wg.Wait` with the deferred close |
| `Send` | a sender goroutine's `queue <- id` |
| `Take`, `Answer`, `Fail`, `Store`, `Finish`, `Exit` | `subDispatcher` and `subscribe`: one step per channel operation, request, critical section and `wg.Add` |
| `Cancel` | the consumer cancels the context of `Listen` |
| `asked`, `failed`, `before` | history, for the properties |

The children the browser answers are a constant graph, any graph: with
duplicates and cycles, as answers taken at different times may give together.
The senders of a call are one set, so their sends may come in any order.

`SubtreeFetch` is what the calls promise, with no goroutine in sight: stored
nodes only come from roots and children of nodes asked for, and completion is
announced once, when all new nodes are settled. `Implements` says that
`SubSubtree` implements it, with `done` mapped to "all calls have returned";
that they do return, unless a cancellation leaves ids that nobody will count off, is
`AllEnd`.

### Listener (with MCListener, ListenerProofs)

The event worker, the page state and the stream, with Chrome and the page
around them and a consumer that keeps a copy of the tree (`Apply`).
Subscriptions appear as the jobs that `SubSubtree` shows them to be (any job
may be taken next; a job is over when its snapshots are stored; then its
targets are jobs; a request may fail), but now with data: an answer holds snapshots of the
children *as they are then*, and each is stored by a step of its own, while
the page changes and other answers and updates are stored.

| model | code |
|---|---|
| `nodes`, `pageID` | `listenerTreeState` |
| `lpc`, `left`, `cur`, `look`, `childUpd`, `updated`, `evPage` | the event worker's position and local variables |
| `Subscribe`, `missed` | the goroutine reaches `page.Event()`; pages that had loaded before it did, which nobody hears of |
| `spawned`, `jobs` | goroutines of `subSubtree` not begun; ids in channels and dispatchers |
| `ReceiveLoad`, `ReceiveUpdate`, `Pick`, `LookUp`, `Compare`, `Overwrite`, `Emit`, `Stop` | `eventSourceWorker`, `handleAXLoadComplete`, `handleNodesUpdated`, `reconcile`; one step per critical section |
| `PageReset`, `UpdateNode`, `Stale`, `GetTree`, `Cyclic` | `listener_state.go`; in a cycle `getTreeInner` recurses until the stack overflows |
| `out`, `view` | the channel of `Event`s, the consumer's copy |
| `Answer` (`Succeed`, `FailRequest`), `Store` | `subscribe`: the request, and one critical section per child |
| `kids`, `meta`, `subs`, `dirty`, `wire` (external) | the page; what Chrome reports on; events on their way |
| `failed` | history: nodes of the page whose last request failed |

Assumed of Chrome, from the comments in the code and `README.md` of axstream:
asking for a node's children makes Chrome report its later changes; a report
holds the changed nodes as they are when it is sent; events arrive in order;
ids of removed nodes and of earlier pages are not used again; a page is a tree when
it loads (`FirstPageOK`). Nothing is assumed of requests: one for a node that is gone
fails, and one for a node of the page may fail as well, before or after Chrome has
begun to report on the node. `subscribe` then has no targets, and nobody asks again
until an update happens to start a call for the node. What that leaves out, at most, is
`LeftOut`: the node and what is below it, which `Covered` excepts; `Converges` excepts
pages with such a node.

`Below` is the tree that `getTreeInner` walks: the least set that has the node and,
with a stored node, its children up to the first one not stored (`Shown`). A job
whose `todo` is empty is still to be asked; an answer without children ends it at once.

### Wrappers and Synthetics (with MCSynthetics, SyntheticsProofs)

`Wrappers` has `deleteAdjacent` and `slideWindow` as operators on sequences of
nodes, `Synthetics` the loop of `Construct` over them, one step per call. A hash
is a term, the role and the hashes hashed, so equal terms are equal bytes and
xxh3 is taken to have no collisions. The linked lists become sequences with
what their pointers do at the ends: `Replace` drops the nodes that the code
leaves unlinked, from the sequence with each occurrence of the pattern under a wrapper
of its own. `Counted` gives up a length at the first overlap, as
`continue outer` does, and `Best` is the maximum of the ordered map with its ties.
`Leaves` are the list's nodes seen through the wrappers (`Unwrapped`).

### Structure (with AXTrees, Rows, MCTrees, SyntheticsProofs)

`initStructTree`, one step per call it makes: `MakeStructTree` filters out what
is ignored, `HashStructures`, `HashPaths` and `SetParents` are the three updates,
`Wrap` is `makeSynthetics` with the rounds of `Wrappers` at every list. The order
matters and is the code's: hashes, paths and parents are those of the tree
before it is wrapped. A path hash is the sequence of its steps from the root.

| model | code |
|---|---|
| `ax` | the `AXNodeWithRelatives` below the root of the event; a node is its place in the document, and knows its children and the last node below it |
| `st`, a function of the nodes kept | the `StructureInstance` made of each |
| `kids` of an instance | `FirstChild` and its `NextSibling`s before anything is wrapped |
| `list` | the same after it, as nodes of `Wrappers`; the id of a node is its place in `kids` |
| `hash`, `path`, `up` | `Hash`, `PathHash`, `Parent.PathHash` |
| `step` | the line of `initStructTree` |

The nodes are numbered so that the recursions of the code become recursive functions,
of the children for what is computed from below (`FilterDescendentsShallow`, `UpdateSHash`)
and of the parent for what is computed from above (`UpdatePHash`). `AXTrees` numbers the
nodes of a tree that is written down nested. `Rows` has the rows of a structure tree in the
order in which `pushInstancesInner` and `pushStructures` walk it, for `PushDB`. `MCTrees` checks
`Structure` and `Synthetics` side by side (`TreesSpec`): a behavior takes one AX tree or
one list. `HashTells`, a property of `Synthetics` that walks hashes, is stated there.

### PushDB (with MCPushDB, PushDBProofs)

`HandleEvent` and `pushDB`: one step per statement or pair of statements, on
the committed databases (`stdb`, `db`) and on the copies the two open transactions
see (`stdbtx`, `dbtx`). `Fail` can follow every call, `Crash` every step; what is
in memory is then lost. `onDisk` chooses between `":memory:"`, for which
`db.OpenDB` sets no pragmas, and a file with foreign keys checked. In the
second case SQLite refuses every statement on `path`, whose column `parent`
refers to only a part of its key (`Refused`). `EventsOK` says what the events are: rows
follow their parents, and refer to hashes and paths of their own tree; `HashesOK` that
equal hashes have equal first children where nothing overwrites them. Both are what
`Structure` makes of trees, and TLC evaluates them for the trees of the run. The statements of the generated code
(`CreateStructureInstance`, `DeleteInstance`, `UpsertPath`, `UpsertStructure`) are
operators on sets of rows. `Described` says of every row of a successful push that
its structure and path exist, and of every reference in the structure database
that it leads somewhere (`NoDangling`). The trees are those that
`Structure` makes of a few AX trees (`RowsOf`).

### Controller (with MCPrograms, ProgramsProofs)

The flight search of `cmd/demo-scrape-flights`. Both channels have no buffer, so
a send and its receive are one step of two goroutines: `FromFeeder`, `FromStray`
and `FromProcessor` are the senders `eventLoop` may take an event from, and
`dispatchAction` hands an action to `actionProcessor`. `processEvent` runs up to
the next send, so `handleHomeState` is `processEvent` and two times `HomeGoesOn`,
with a send after each; `epc` says at which send the event loop is. A complaint
is a goroutine of its own that waits to send an error (`strays`). `Check` reads
`c.done` without a lock and may see the old value. What the database answers
for each hash changes with every event of the stream (`found`).

### Labeler (with MCPrograms, LabelerProofs)

`Label` and `childLabels` of `cmd/demo-ai`, with the database of labels, the
goroutine that writes it, and the loop that labels every hash of the page. Calls
form a tree and are named by their place in it; `calls[p].at` is where a call
is, `left` how many results `childLabels` still waits for. A call that is
`"done"` or `"failed"` is at the send of its result: `Collect` when the parent
receives, `SendOnClosed` when the parent has left `childLabels`, whose deferred
close makes the send panic. `RecordLabel` hands the label to the writer over a
channel without buffer (`writer`); `db` has it one step later, unless the write fails,
which is only logged (`lost`). `BottomUp` has both halves of "children first": whom the
model is asked about (`AskedLast`), and what is written (`WrittenLast`). Neither says that
the children's labels are in the database: the code goes on after a failed write.

### WorkerPool (with MCPrograms, WorkerPoolProofs)

The queue has no buffer, so a goroutine of `Add` and the worker that takes its work
make one step (`Receive`); `Exec` and the deferred `wg.Done()` are two, for between
them the work is executed and still counted. Work adds work from `Exec`; once
`Wait` has been called nobody else adds any, as WaitGroup asks of its callers.

### Continuous (with MCPrograms)

The event loop of the test program from event to event: on a load it cancels the
workers' old context, drains the queue, makes a new context, clears `fetched` and
sends the root; on an update it locks `fetchedMutex` and sends the unknown nodes
with the lock held. A worker is sent a node, looks whether the context is still
good, asks Chrome and stores the children one by one, each under the lock; a new
child gets a goroutine that sends it (`senders`). The loop and the workers can wait for each other, the
loop with the lock in its send and every worker at the lock: `Embrace`. An
interrupt that takes the workers away leaves the loop in its send, which does not
look at `ctx.Done()`. `LoopServes` and `AllAsked` name these two as the only exceptions.

### MCPrograms (with ProgramsProofs)

`Controller`, `Labeler`, `Continuous` and `WorkerPool` share nothing. `MCPrograms`
chooses one of them at first (`which`), gives its actions and its fairness, and
leaves the variables of the others alone, so one run answers for the four.

### Inspector (with MCInspector, InspectorProofs)

Panel and program of `cmd/inspector`. The program's tree is `doc`. The panel makes
a new `TreeNode` for every node it is told of (`objs`), keeps the last one per id
(`map`, the code's `Tree.nodes`), and each has a container of other objects'
elements (`box`). `add`, `detach`, `update`, `mustResolve`'s exception (`Unknown`) and
the failing `removeChild` are operators on these three, and a handler runs to its end
or to the first exception, keeping what it has done. The two functions that the
program exposes answer in the order of their calls, each its own; an answer is computed
(`AnswerLevels`, `AnswerTo`) and handled (`AddLevels`, `ShowInfos`) in two steps, so an
update (`updateInspectorTree`) may come between. It sends the changed nodes and what is
`Beneath` them. `Added` and `Detached` are the handlers' loops; `add` and `detach` do
nothing once an exception has been thrown. The user clicks, hovers and presses
Alt+C (`Click`, `Hover`, `AltC`) as often as `MaxActions` says, the page changes
`MaxPatches` times.

Pages are taken to have nothing that repeats, and one document whose root stays: `DocsOK`
says that they are finite trees, no node a child twice, everything below the one root.
`cmd/inspector`, `cmd/demo-ai` and `cmd/demo-scrape-flights` are written for a
`structure.Persistent` that has `Root`, `InstanceForAXID`, `InstancesByStructHash` and
one driver, which the one of this commit no longer is; what they expect of it is
modelled from their own use and marked external.

## Runs

| run | question | bounds |
|---|---|---|
| `calls` | are two calls with overlapping subtrees safe and free of deadlock, do they leave nothing out together and ask twice for nothing, cancelled at any moment or not? Do they end, unless cancelled? Do they implement `SubtreeFetch`? | 4 nodes with a cycle and an id in two answers, a node that may fail, any part already stored; 2 dispatchers and 1, channels of 1 |
| `quiet` | does the consumer's copy converge to the page, over reloads? Yes, for insertions and metadata, when changes come one event at a time, until a request fails | 5 ids, 2 pages of three nodes in a row, 2 changes or failures, stream of 1 |
| `races` | with changes of every kind, failing requests and reloads at any time: nothing stale, no panic, the stream tells all, every node but those of failed requests is known and subscribed to in the end | 5 ids, 2 pages, 2 changes or failures |
| `lost_insert` | does `reconcile` update the children lists it is told of? No (see Findings) | 5 ids, 1 page, 2 insertions |
| `cycles` | are the stored lists without a cycle, as `getTreeInner` assumes? No | 5 ids, 1 page, 3 changes |
| `trees` | lists: is everything kept once and in order, do hashes tell contents, does each replacement replace two, is nothing repeated at the end? Trees: are the right nodes kept, do paths tell instances apart, are wrappers transparent, does a hash fix the shape? | every list of up to 8 nodes over 3 roles and the lists of `TestConstructFlat`; every AX tree of up to 5 nodes over 4 labels, and two lists of up to 5 leaves |
| `tail_lost` | is nothing lost? No | as the lists of `trees` |
| `push` | are the instances those of one whole tree, do the databases agree, whatever fails? | 5 kinds of events, 3 events, failures and crashes anywhere |
| `patch_keeps` | does a patch keep the rest of the tree? No | as `push` |
| `programs` | flight search: how far does it get, is the channel closed once and last, is every complaint reported? Labeler: children first, no panic in calm weather, does the loop end? Continuous: does the loop come back, is every node asked for? Pool: does `Wait` answer, and not too early? | 3 updates, every answer of the database, an interrupt at any moment; 3 structures, two of them also as lists, 2 calls, 1 change of the page; 2 pages of 3 and 2 nodes in a row, 1 update, 2 workers; 3 pieces of work |
| `inspector` | does the panel know what the program knows, and show the page's tree? | 3 pages of up to 4 nodes on 3 levels, 3 actions of the user, 1 change of the page |
| `show` | does Alt+C show the element? No | 2 actions, no change |

A channel of one slot and two dispatchers are the harshest case for the deadlock
the code's comment describes: with more room and more dispatchers fewer steps
block. Two nodes with a common child are enough for two dispatchers to race for
it, and a second call with a root below the first's for two calls. Every
property concerns at most two dispatchers, two nodes or one parent and child,
and one page change between two steps; for the properties that are proved (see
Proofs) the bounds do not matter. `OutCap` 1 makes the event worker wait for the
consumer. `MaxChanges` bounds the page's changes and the requests for its nodes that fail,
together: two suffice for a change during the handling of another, and for one below a
node whose request has failed. `races` takes the two ids that insertions give as
interchangeable (`Symmetry`), which they are: no page has them at first, nothing orders
them, and its properties are safety. Eight siblings are room for three instances of a
pair with something between them, for two of a triple, and for a wrapper that is
wrapped again; three roles make patterns that share a beginning. Five nodes are
room for an ignored node between two kept ones, with siblings. Three events are
a tree, one that replaces it or fails half-way, and one after the failure. A page
with a second one after it is what the drain and the clearing of `Continuous` are
for, and two workers what its embrace needs. Three actions open a node, close it
and open it again; one change of the page can overtake any answer to them. Two
moves and a new name are what a cycle of lists takes.

TLC's own deadlock check is off, because the modelled systems do stop: a
cancelled call may hang and a page with no changes left gives the listener
nothing to do; that calls do not block each other is `NeverStuck`. `Synthetics` ends with its
loop, `Structure` with the tree, `PushDB` after the last event, and the
programs when nothing happens on the page.

**Fairness.** `WF_vars` of all steps of goroutines together: the Go scheduler
does not stop a program that can run; Chrome answers requests, and reports
changes. No fairness is given to `Cancel`, to page changes, to later loads or to
`Stop`. Fairness of the whole is enough because no step can repeat for ever.
`quiet` needs `Load` once, since before the first page there is nothing to
converge to. `Converges` excepts a page that loaded before `Subscribe`, and one with a
node whose last request has failed. In each of
the four programs of `MCPrograms` too the fairness is that of its goroutines taken
together; an interrupt or cancellation, what the browser does, `Add`, `Start` and
`Wait` of the pool's user and the end of main's deferred calls have none. `Inspector` has
no fairness: its properties are safety. The database and the model are taken to answer,
if only with an error.

## Proofs

Eight modules hold proofs. Each states an inductive invariant, proves that it holds
at first and that each action keeps it, action by action, and derives the properties
of the runs from it, for every value of the constants.

| module | about | proved |
|---|---|---|
| `SubSubtreeProofs` | `SubSubtree` | `TypeOK`, `WaitGroupExact`, `CloseIsLast`, `NeverStuck`, `CompleteOnReturn`, `AskedOnce`, the refinement `Implements` |
| `ListenerProofs` | `Listener` | `TypeOK`, `NeverStale`, `NoPanic`, `Covered`, `StreamComplete` |
| `SyntheticsProofs` | `Synthetics`, `Structure` | `KeptInOrder`, `StopsAtNone`, `WrapsTwice`; `KeptNodes`, `PathsDiffer`, `ParentPath`, `HashIsShape` |
| `InspectorProofs` | `Inspector` | `TypeOK`, `MapFresh`, `ShowsThePage` |
| `PushDBProofs` | `PushDB` | `TypeOK`, `Mirrors`, `Described`, `FirstChildFixed` |
| `LabelerProofs` | `Labeler` | `TypeOK`, `BottomUp`, `CalmIsSafe` |
| `WorkerPoolProofs` | `WorkerPool` | `TypeOK`, `AllDone` |
| `ProgramsProofs` | `MCPrograms`, `Controller` | `FirstClickOnly`, `ChannelsSafe` of `Controller`; `TypesOK`, `BottomUp`, `CalmIsSafe`, `AllDone` of `MCPrograms` |

### SubSubtreeProofs

For any set of nodes and any graph over them, any number of calls and dispatchers (at
least one each per call) and any channel capacity of at least one.

None of the properties is inductive. The counter could be too small if an id
were a job twice, since counting jobs and counting a set of ids would differ;
so `IInv` says that an id is in one place only (`OnePlace`), that targets are
not jobs yet and belong to one dispatcher (`FreshTargets`), and, the reason for
both, that jobs and targets are stored nodes (`JobsKnown`): `Store` makes a
target only of a node that was not stored, so it is fresh. `Phases` ties the
places to the call's progress, and `Counts` is the counter. The
type invariant needs them: that the counter stays a natural number is that a
dispatcher that finishes a job holds one of the counted jobs.
`Accounted` and `Storing` extend it to completeness: a new node is a job, a
target, or settled, and a dispatcher in its loop has stored the children no
longer on its list. When every call has returned nothing is a job or a target,
which leaves settled. `Refinement` maps each step to a step of `SubtreeFetch` or to none.

`OnceCorrect` (`AskedOnce`) is about all calls together: what is due to a call (its jobs
not yet in hand, and its dispatchers' targets) has not been asked for by any call and is
due to no other (`OnceInv`), except the roots the calls were given.

### ListenerProofs

For any ids, metadata and first page that is a tree, any number of changes and
loads and any size of the channel.

Types, `NeverStale` and `NoPanic` need each other. That an update names stored nodes only is
not a fact of the listener alone: Chrome reports what it was asked to report, a node is
asked for after it has been stored, and stays stored until the next load is
received. So `AllStored` speaks of every place such an id can be in: subscribed,
in an update on the wire, in the handler, in a job. Receiving a load forgets the map,
which is sound because by then no update of the old page can follow: loads not
yet received are the last messages on the wire (`LoadsLast`), as many as `Unheard`,
and while there are any nothing is subscribed (`InOrder`), for which a subscription
must not be of an older page, which is `NeverStale`.

`Covered` speaks of the moment when nothing is left to do. `CInv` says why nothing is
missing then: once the load of the present page has been received, its root is stored; what
is stored reports its changes or is about to be asked for (`StoredAsked`); and a child
of a node that reports its changes is stored, in a report that has not been handled to
its end, or in an answer (`KidsCaught`). A node whose request has failed is excepted from
both, whether Chrome reports on it or not. When nothing is left to do these leave: root
stored, stored reports, reports means children stored, up to nodes of failed requests; so
what is stored and reports, with all that is below those nodes (`LeftOut`), is a
set that children do not lead out of, and the page is the least such set (`Reach`).

`StreamComplete` needs to know what a tree of the listener's map can be. As long as no node
is moved, no child is ever named by two parents, in the page, in the map and in all that is
on its way to it (`TInv`), so a node is below another on one path only and a write changes
what is shown below its own ancestors only. `SInv` then says, for every node below the root of
the listener's map: the consumer has been told what it is (`Right`), or it is below a node that
the event in preparation will tell of (`Telling`); and whatever a subscription may still store
is below such a node. When no event is in preparation the first is left. The consumer's copy
is `Told`, a recursion over the channel; `ToldEmit`, `ToldConsume` say what an event at its
end adds and that taking its first event changes nothing. `ZInv` is the time before the
first load.

### SyntheticsProofs

Of `Synthetics`, for any lists of any length. The invariant (`Inv`) says that the nodes of the list stand, one
after the other, for stretches of the input (`Fits`, `Cuts`, `Covers`), and that a node is nested less
deep than its stretch is long, so that `Unwrapped` opens all wrappers; that between the
two steps no neighbours are equal (`NoTwins`); and that nothing recurs when the
loop has ended. `DeleteAdjacentIs` and `SlideWindowIs` say that both steps keep the first, whatever
`Replace` drops at the end. `WrapsTwice` is where the two loops of `slideWindow` meet: a pattern counted
twice stands at two places that do not overlap (`CountedTwice`), and the scan that replaces
it finds two as well (`SlideWrapsTwo`). For `StopsAtNone` the other direction is
needed: a pattern that recurs is counted twice, or a shorter one is, when the scan has given up
the length at an overlap (`OverlapShorter`, `NothingRecurs`).

Of `Structure`, for AX trees of any size and any roles. None of the four properties is inductive: what
is seen through the wrappers in the end was decided when the tree was filtered. `TreeInv` says
what each step leaves for the next: each instance's children are the nodes that have it as the
nearest kept one above, in document order (`Families`); a hash is that of the role and the
children's hashes (`Hashed`), a path the parent's with one step more (`Pathed`), `up` the
path of the parent (`Upped`); and a list is what is linked, or what the rounds make of it
(`Linked`). That the filtered list has the right nodes is shown for stretches of the document:
what is found in two neighbouring ones is joined by the concatenation (`FoundJoin`), so what
is found below a node is what is found in its children's stretches, from the last node
of the document to the first (`FoundBelow`). That the recursive functions exist is shown the
same way (`FiltersIs`, `HashingExists`, `PathingExists`, `ShapingExists`). The properties follow:

- `KeptNodes` and `ParentPath`, since wrapping keeps the order and loses an end only
  (`SeenIs`, which rests on `DeleteAdjacentIs` and `SlideWindowIs`);
- `PathsDiffer` from the least instance that shares its path with another: its parent shares
  its path too;
- `HashIsShape` from the leaves up: equal hashes have equal roles and children with
  equal hashes, and the rounds see nothing of a child but its role and hash.

### InspectorProofs

For any pages, changes and users. `Doms` are the panels a handler may leave, at its end or at an
exception: each entry of `Tree.nodes` leads to an object of that id, made of a node
as the program knew it; `AddType` and `DetachType` say that no `add` and no `detach`
leaves them. The program's answers are lists of its nodes as they are (`Now`): the
recursions of `expandLevels` and `expandTo` are shown to be functions by running them
level by level (`LevelsType`, `ToType`).

`MapFresh` is about the moment after an update. Between, what is known of a node may be
old, but then the node is below one that the page has yet to be told of: `Fresh` says so of
the entries of `Tree.nodes` and of the answers on their way. That a change of the page keeps it is
`Unchanged`: a node that is not below any with other children was there before the
change, with the same children and the same parent, because from the one root down
to it nothing has changed. An answer computed before an update and handled after it is
what `overtaken` is for.

`ShowsThePage` is about a user who waits (`Waits`): then `pending` is empty, and either the first
answer is on its way to an empty panel, or nothing is, or the answer to a click on a
closed node is. The panel is `Showing`: each node's container has the first of the node's
children, as `Tree.nodes` has them now (`Partial`), and all of them or none (`Whole`).
An answer is added node by node, and in between a node has some of its children; `Places` says,
by induction over the levels of `expandLevels`, that adding what it
computes of a node puts it behind its elder siblings and changes nothing else outside what is
below it (`AddNode`, `AddKids`). It needs that no node is below itself (`Acyclic`). What is
in the page is reached from the root (`BelowIn`), hence through containers that are right.

### PushDBProofs

For any stream whose trees are as `Structure` makes them, any number of events, and
failures and crashes anywhere, in memory or on disk. The invariant follows the two open
transactions. In `stdb`: the committed rows are those of one tree with consecutive ids
(`Holds`), and while instances are pushed the transaction holds the first rows of the new
tree and nothing else, because the cascade of `DeleteInstance` on the one root deletes all
of the old one. That it does is an induction over the rows: each has its parent among the
rows before it, so a set with the root that takes in the children of its rows has them all
(`Least`, the least row that is missing). In `db`: every reference leads into the database
or to a row of the tree that is yet to be pushed (`Refers`), which at the commit are none
left. `FromLast` is what `FirstChildFixed` needs: a first child that is committed is that of
a row which nothing in its tree overwrites, and those agree by `HashesOK`.

### LabelerProofs, WorkerPoolProofs, ProgramsProofs

`LabelerProofs`, for any structures, each with an instance, and any number of calls: a call
that collects counts the children in progress (`Collecting`: `left` is their number, each child
is labelled or in progress); a call that is done has had its label received by the writer
(`Labelled`); paths
are not used twice (`Numbered`, `Fresh`). When `left` is zero the label of every child has
therefore been received, which is `AskedLast`; and as the writer receives one label at a time,
it is through with the children's when it receives the parent's: `WrittenLast`. `Calm` is the part that failures break: each call's parent is
there to take its result.

`WorkerPoolProofs`, for any work and any number of workers: a piece of work is in one place,
with a sender or with one worker; what has not been executed is on its way to it; the
counter is the number of pieces that are with a sender or a worker; and nothing is in
these places once the channel is closed.

`ProgramsProofs`, for any number of updates, complaints and answers of the database, proves of
the flight search:

- `FirstClick`: no click but the first is ever performed (`FirstClickOnly`),
  from `HomeInv`: while the event loop is between the clicks of
  `handleHomeState` the processor is performing the first one or waiting for the
  event loop to take its event, so the second click is never received;
- `Channels`: nothing is sent on the closed channel and it is not closed twice
  (`ChannelsSafe`), from `CleanupInv`: once `done` is set the event loop is in
  `cleanup`, before the close, or passes over events;

and the types of it and of the continuous test program. It then carries these and the
invariants of `LabelerProofs` and `WorkerPoolProofs` over to `ProgramsSpec`, the specification
that the run checks: the program that is chosen takes its own steps, the others stand still.

### Assumed, and not proved

Assumed: `ConstantsOK` of `SubSubtree` and of `Listener`, `FirstPageOK` of `Listener`,
`EventsOK` and `HashesOK` of `PushDB`, `InputsOK` of `Synthetics`, `TreesOK` of `Structure` (a tree
is numbered in document order, which `AXTrees` does for any tree without cycles), `DocsOK` and `BoundsOK` of
`Inspector`, `MaxUpdatesOK` of `Controller`, and `InstancesFit` of `MCPrograms` (`InstancesOK` of `Labeler`, `PagesOK` of `Continuous`). TLC evaluates all of
them in the runs.

Only model-checked:

- liveness, which is out of the prover's reach, as is ENABLED: `AllEnd`, `Converges`,
  `ComplaintHeard`, `LoopEnds`, `LoopServes`, `AllAsked`, `WaitAnswers`;
- `HashTells`, which takes recursion over hashes to state: it is about words of any
  hash, and a proof would be an induction over hashes.

Induction over data is not in the library in a form the provers can use; where the proofs
need one over numbers (the cascade, the least missing child, the events of the channel)
it is made from the well-founded order of finite sets.

## Findings

- `cycles`: `reconcile` stores nothing for a node whose children were only removed
  or moved away, against its own comment ("updates metadata and children list
  and reconciles children"). When a node and its parent have changed places
  and the new parent has a new name, each is stored as a child of the other, and
  `getTreeInner`, which "assume[s] no cycles exist in the tree", never comes back.
- `lost_insert`: `reconcile` drops an update whose node has no unknown child and the same
  metadata, although it "updates metadata and children list". Two nodes inserted one
  after the other are enough: the update with the first starts a subscription that
  stores the second as well, the update with the second is dropped, and the parent's
  stored list, which is what the consumer is shown, never has it.
- `tail_lost`: when the list ends with the beginning of the pattern behind a
  wrapper, `break curStart` leaves it unlinked (`ABABA` becomes two wrappers),
  though "ABABC -> R_1 R_1 C" keeps the C.
- `patch_keeps`: `pushInstances` replaces the root of the database (`GetRoot`),
  not the instance of the patched node, so a patch leaves only its subtree.
- `show`: closing a node takes its children's elements away and leaves their objects
  in `Tree.nodes`; `show` then detaches every object it knows, `removeChild` throws for
  the elements that are not there, and Alt+C ("Show element in tree.") shows nothing.

Each finding is one run, for one cause. Some consequences of them are seen in
the models without a run of their own: since lists are not updated, a moved node
can be in the lists of two parents, and `StreamComplete` does not hold once a
node has been moved (`moved`), for the list of the old parent names a subtree
that later events of the new one change.

Seen while modelling, and kept in the models as the code has it:

- `subDispatcher` returns on `ctx.Done()` without counting off what is queued, so
  after a cancellation `wg.Wait()` in `subSubtree` may block for ever, and with
  it the event worker, although `docs/patterns/facade.md:20` lists "Manage context
  cancellation across goroutines" as the listener's task. `AllEnd` names this
  as the only thing that keeps a call.
- A child inserted after its parent's snapshot was taken and before the parent is asked
  for is stored by that request, while the parent's stored list is the old one; Chrome was not
  to report the parent yet, so no update follows, and the consumer does not see the child
  until the parent changes again.
- A request that fails leaves its node's subtree out for good, unless an update of the
  node brings an unknown child ("we ignore errors, they do not affect the result",
  `listener_subscriber_worker.go:21`).
- The number in a path hash counts all earlier siblings, and goes with the parent's role
  (`structure.go:98`), where the comment has "the nth duplicate of this role".
- A page that has loaded before the goroutine of `Listen` calls `page.Event()` is
  never heard of, and `Listen` gives its caller no way to wait for that
  (`Subscribe`, `missed`).
- The event loop of the continuous test program sends with `fetchedMutex` held
  (`main.go:177`) and its workers take it for every child: all of them can wait for each
  other (`Embrace`).
- In the inspector: two clicks on a node before the answer to the first add its
  children twice; so does opening a node after `show` has put some of them there;
  an answer computed before an update and handled after it leaves old children
  in `Tree.nodes` (`overtaken`); `expandTo` of an id that the update has removed
  dereferences nil (`crashed`). `ShowsThePage` and `MapFresh` name these exceptions.
- `setAttr` returns at a text without going on to its siblings (`cmd/inspector/main.go:112`),
  so elements behind a text get no attribute (not modelled).
- The flight search stops at its first click: `handleHomeState` sends the click
  on the second element (`controller.go:298`) while `actionProcessor` sends the
  event of the first (`controller.go:79`), and each is the other's only receiver.
  `FirstClickOnly` states it, and `ComplaintHeard` has the exception it makes.
- `locationInput`'s action does not look at the error of `GetElementByBackendID`
  (`controller.go:252`) and panics on the element that is missing (`Act`).
- `anyNonCyclicStructure` falls back to the first instance (`labeler.go:53`). If
  that is a list of the structure itself and no other instance has children,
  `Label` calls itself without end; `MCPrograms` has a leaf first for this reason.
- `LookupLabel` scans into `title` and returns the empty `label` (`db.go:156`).
- The column `phash` gets the structure hash (`persistent.go:399`).

## Not modelled, and the plan

1. A theorem about `HashTells`, which must first be stated without RECURSIVE operators; and one
   that the rows `Rows` makes are as `EventsOK` and `HashesOK` of `PushDB` have them,
   which TLC evaluates for the trees of the run.
2. `Construct` over trees, which hashes after wrapping, against `initStructTree`,
   which hashes before; `Listener`'s stream composed with `PushDB`.
3. `setAttr` with its four workers, the one part of the inspector's program that is
   left out: it decides which elements can be hovered; in the model all can be.

`tree.DetectCycles` is left out because the models' trees have no cycles where they
are printed: the one place where a cycle can arise is `GetTree`, before any tree
exists that could be printed.

Left out for good: CDP encoding and transport (`cdp.go`, `dom.go`, `rod.go`),
logging, the generated queries for readers, the look of the panel and the highlights
it draws, generated protocol code, and the small demo programs, which print what the
libraries report. The repository's own specification (`proof/`) is of the idea behind
`axstream`; its correctness condition is `Covered`.
