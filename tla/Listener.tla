------------------------------ MODULE Listener ------------------------------
(***************************************************************************)
(* internal/chrome/axstream: the single event worker, the state it shares  *)
(* with the subscriptions, the stream to the consumer, and around them the *)
(* browser, whose page changes on its own.                                 *)
(*                                                                         *)
(* A call of subSubtree is kept at the level of module SubSubtree's jobs:  *)
(* every id to be asked for is a job any of the (unboundedly many)         *)
(* dispatchers may take; SubSubtree shows that channel, WaitGroup and      *)
(* dispatchers amount to that.  What is added is the data: the browser     *)
(* answers a job with snapshots of the node's children as they are then,   *)
(* and each snapshot is stored by a step of its own.                       *)
(*                                                                         *)
(* A node snapshot [id, kids, meta] stands for cdp.AXNode: meta is what    *)
(* MetaEqual compares (Ignored, Role, Name), kids is ChildIDs.             *)
(***************************************************************************)
EXTENDS Integers, Sequences, FiniteSets, Functions, SequencesExt

CONSTANTS
    Node,        \* ids of AX nodes
    Absent,      \* what a map without an entry gives: no snapshot
    Top,         \* the id of a page's root node
    Meta,        \* values of a node's metadata
    FirstKids,   \* the children of every node in a freshly loaded page
    FirstMeta,   \* and the metadata
    Kinds,       \* kinds of changes the page makes; may requests for its nodes fail?
    MaxChanges,  \* bound: how many changes it makes, and how many such requests fail
    MaxLoads,    \* bound: how many pages are loaded
    MayStop,     \* may the consumer cancel its context, or the page be closed?
    Concurrent,  \* may the page change while the listener is at work?
    OutCap       \* out_channel_buffer_size

ASSUME ConstantsOK ==
    /\ IsFiniteSet(Node)
    /\ Top \in Node
    /\ FirstKids \in [Node -> Seq(Node)]
    /\ FirstMeta \in Meta
    /\ Absent \notin [id : Node, kids : Seq(Node), meta : Meta]
    /\ Kinds \subseteq {"insert", "remove", "move", "relabel", "fail"}
    /\ MaxChanges \in Nat /\ MaxLoads \in Nat /\ OutCap \in Nat \ {0}
    /\ Concurrent \in BOOLEAN /\ MayStop \in BOOLEAN

VARIABLES
    \* the browser (external)
    kids, meta,  \* the page: children and metadata of every attached node
    retired,     \* ids that have been removed from the page: not given again
    subs,        \* nodes the browser reports changes of
    dirty,       \* those of them that have changed since the last report
    moved,       \* history: has a node been moved?
    failed,      \* history: nodes of the page whose last request has failed
    wire,        \* page.Event(): events sent and not yet received, in order
    missed,      \* pages that loaded before the listener asked for events
    changes, loads,
    \* the listener
    pageID,      \* treeState.pageID
    nodes,       \* treeState.nodes: a snapshot for each id, or Absent
    lpc,         \* where the event worker is
    left,        \* handleNodesUpdated: nodes of the event not yet reconciled
    cur,         \* reconcile: newNode
    look,        \* reconcile: children still to be looked up
    childUpd,    \* reconcile: hasChildUpdates
    updated,     \* updatedIDs
    evPage,      \* the pageID the handler works with
    spawned,     \* subSubtree goroutines that have not started: [no, root]
    jobs,        \* ids to be asked for or being stored, see Job
    panicked,
    \* the stream
    out,         \* l.events, a buffered channel
    view         \* the consumer's copy of the tree, put together from events

browser  == <<kids, meta, retired, moved, failed, subs, dirty, wire, missed, changes, loads>>
content  == <<kids, meta, retired, moved>>
page     == <<kids, meta, retired, moved, failed>>
recVars  == <<left, cur, look, childUpd>>
listener == <<pageID, nodes, lpc, recVars, updated, evPage, spawned, jobs,
              panicked, out, view>>
vars     == <<browser, listener>>
-----------------------------------------------------------------------------
(* Trees.  A forest maps ids to snapshots or Absent.                       *)

Empty == [n \in Node |-> Absent]

\* getTreeInner's loop: the children up to the first one not stored (break).
Shown(f, n) ==
    LET ks == f[n].kids
        missing == {i \in DOMAIN ks : f[ks[i]] = Absent}
    IN  IF missing = {} THEN ks
        ELSE SubSeq(ks, 1, Min(missing) - 1)

\* The nodes of the tree getTreeInner builds from n: those in every set that has
\* n and, with a node that is stored, its children.
Below(f, n) ==
    LET shown  == [m \in Node |-> IF f[m] = Absent THEN {} ELSE Range(Shown(f, m))]
        closed == {S \in SUBSET Node : n \in S /\ \A m \in S : shown[m] \subseteq S}
    IN  IF f[n] = Absent THEN {} ELSE {m \in Node : \A S \in closed : m \in S}

\* getTreeInner: the tree as a forest of its own.
GetTree(f, n) ==
    LET tree == Below(f, n)
    IN  [m \in Node |-> IF m \in tree THEN [f[m] EXCEPT !.kids = Shown(f, m)] ELSE Absent]

\* Is there a cycle for getTreeInner to follow for ever?
Cyclic(f, n) ==
    \E m \in Below(f, n) : \E k \in Range(Shown(f, m)) : m \in Below(f, k)

\* The page as it is loaded: a tree, in which the root leads to every child.
FirstPage  == [n \in Node |-> [id |-> n, kids |-> FirstKids[n], meta |-> FirstMeta]]

ASSUME FirstPageOK ==
    \A p, q \in Node : \A k \in Range(FirstKids[p]) :
        /\ k # Top /\ k \in Below(FirstPage, Top)
        /\ k \in Range(FirstKids[q]) => p = q

\* The page as a forest, and the nodes and the tree that its root leads to.
Snap(n)    == [id |-> n, kids |-> kids[n], meta |-> meta[n]]
Page       == [n \in Node |-> Snap(n)]
PageTree   == GetTree(Page, Top)
Attached   == Below(Page, Top)
Parent(n)  == CHOOSE m \in Attached : n \in Range(kids[m])
Snapshots  == [id : Node, kids : Seq(Node), meta : Meta]

\* What a consumer that keeps a copy does with an event.
Apply(f, ev) ==
    [n \in Node |->
        LET given == {t \in ev.trees : t[n] # Absent}
        IN  IF given # {} THEN (CHOOSE t \in given : TRUE)[n]
            ELSE IF ev.type = "reset" THEN Absent ELSE f[n]]
-----------------------------------------------------------------------------
Init ==
    /\ kids = FirstKids /\ meta = [n \in Node |-> FirstMeta]
    /\ retired = {} /\ moved = FALSE /\ failed = {} /\ subs = {} /\ dirty = {} /\ wire = <<>>
    /\ missed = 0 /\ changes = 0 /\ loads = 0
    /\ pageID = 0 /\ nodes = Empty /\ lpc = "start"
    /\ left = {} /\ cur = Absent /\ look = <<>> /\ childUpd = FALSE
    /\ updated = {} /\ evPage = 0 /\ spawned = {} /\ jobs = {}
    /\ panicked = FALSE
    /\ out = <<>> /\ view = Empty

Quiet ==
    /\ lpc = "idle" /\ wire = <<>> /\ out = <<>> /\ dirty = {}
    /\ loads > missed
-----------------------------------------------------------------------------
(* The browser.                                                            *)

MayChange == loads > 0 /\ (Concurrent \/ (lpc \in {"start", "idle"} /\ wire = <<>> /\ out = <<>>))

\* A page has finished loading: Accessibility.loadComplete, which nobody hears
\* before the worker has called page.Event().  None of its nodes is subscribed to.
Load ==
    /\ loads < MaxLoads
    /\ loads > 0 => MayChange
    /\ loads' = loads + 1
    /\ kids' = FirstKids /\ meta' = [n \in Node |-> FirstMeta]
    /\ retired' = {} /\ failed' = {}
    /\ subs' = {} /\ dirty' = {}
    /\ IF lpc = "start" THEN missed' = missed + 1 /\ UNCHANGED wire
       ELSE /\ wire' = Append(wire, [type |-> "load",
                                     root |-> [id |-> Top, kids |-> FirstKids[Top],
                                               meta |-> FirstMeta]])
            /\ UNCHANGED missed
    /\ UNCHANGED <<moved, changes, listener>>

Changed(ns) == dirty' = dirty \cup (ns \cap subs)

InsertNode == \E n \in Node \ (Attached \cup retired), p \in Attached :
    \E i \in 0..Len(kids[p]) :
          /\ "insert" \in Kinds
          /\ kids' = [kids EXCEPT ![p] = InsertAt(@, i + 1, n), ![n] = <<>>]
          /\ Changed({p})
          /\ UNCHANGED <<meta, retired, moved>>

RemoveNode == \E n \in Attached \ {Top} :
    LET up == Parent(n)
        gone == Below(Page, n)
    IN  \E i \in DOMAIN kids[up] :
          /\ "remove" \in Kinds /\ kids[up][i] = n
          /\ kids' = [m \in Node |-> IF m \in gone THEN <<>>
                                     ELSE IF m = up THEN RemoveAt(kids[up], i)
                                     ELSE kids[m]]
          /\ retired' = retired \cup gone
          /\ dirty' = (dirty \cup ({up} \cap subs)) \ gone
          /\ UNCHANGED <<meta, moved>>

MoveNode == \E n \in Attached \ {Top} :
    LET up == Parent(n)
    IN  \E q \in Attached \ Below(Page, n), i \in DOMAIN kids[up] :
          /\ "move" \in Kinds /\ kids[up][i] = n
          /\ LET rest == [kids EXCEPT ![up] = RemoveAt(@, i)]
             IN  kids' = [rest EXCEPT ![q] = Append(@, n)]
          /\ Changed({q, up})
          /\ moved' = TRUE
          /\ UNCHANGED <<meta, retired>>

RelabelNode == \E n \in Attached : \E v \in Meta \ {meta[n]} :
          /\ "relabel" \in Kinds
          /\ meta' = [meta EXCEPT ![n] = v]
          /\ Changed({n})
          /\ UNCHANGED <<kids, retired, moved>>

Change ==
    /\ MayChange
    /\ changes < MaxChanges
    /\ changes' = changes + 1
    /\ InsertNode \/ RemoveNode \/ MoveNode \/ RelabelNode
    /\ UNCHANGED <<failed, subs, wire, missed, loads, listener>>

\* Accessibility.nodesUpdated: every subscribed node that has changed, as it
\* is now.
Report ==
    /\ dirty # {}
    /\ wire' = Append(wire, [type |-> "update", nodes |-> {Snap(n) : n \in dirty}])
    /\ dirty' = {}
    /\ UNCHANGED <<page, subs, missed, changes, loads, listener>>

Browser == Load \/ Change \/ Report
-----------------------------------------------------------------------------
(* treeState (listener_state.go): every operation is one critical section. *)

\* PageReset: a new page, of which only the root is known.
PageReset(root) ==
    /\ pageID' = pageID + 1
    /\ nodes' = [Empty EXCEPT ![root.id] = root]

\* UpdateNode, for the caller to test Stale first.
Stale(pid)    == pid # pageID
UpdateNode(n) == nodes' = [nodes EXCEPT ![n.id] = n]
-----------------------------------------------------------------------------
(* The event worker.                                                       *)

listenerRest == <<browser, out, view>>

\* The goroutine that Listen has started gets to page.Event(), which may be long
\* after Listen has returned.
Subscribe ==
    /\ lpc = "start"
    /\ lpc' = "idle"
    /\ UNCHANGED <<listenerRest, pageID, nodes, recVars, updated, evPage, spawned,
                   jobs, panicked>>

\* eventSourceWorker receives loadComplete; handleAXLoadComplete resets the
\* state and calls subSubtree.
ReceiveLoad ==
    /\ lpc = "idle" /\ wire # <<>> /\ Head(wire).type = "load"
    /\ PageReset(Head(wire).root)
    /\ evPage' = pageID + 1
    /\ updated' = {Head(wire).root.id}
    /\ spawned' = spawned \cup {[by |-> Top, root |-> Head(wire).root]}
    /\ lpc' = "load"
    /\ wire' = Tail(wire)
    /\ UNCHANGED <<page, subs, dirty, missed, changes, loads, recVars, jobs, panicked,
                   out, view>>

\* eventSourceWorker receives nodesUpdated; handleNodesUpdated begins.
ReceiveUpdate ==
    /\ lpc = "idle" /\ wire # <<>> /\ Head(wire).type = "update"
    /\ evPage' = pageID
    /\ updated' = {}
    /\ left' = Head(wire).nodes
    /\ lpc' = "reconcile"
    /\ wire' = Tail(wire)
    /\ UNCHANGED <<page, subs, dirty, missed, changes, loads, pageID, nodes, cur, look,
                   childUpd, spawned, jobs, panicked, out, view>>

\* The loop of handleNodesUpdated calls reconcile.
Pick ==
    /\ lpc = "reconcile"
    /\ \E n \in left :
          /\ left' = left \ {n}
          /\ cur' = n
          /\ look' = n.kids
    /\ childUpd' = FALSE
    /\ lpc' = "look"
    /\ UNCHANGED <<listenerRest, pageID, nodes, updated, evPage, spawned, jobs,
                   panicked>>

\* Mutant: the loop ends at the first child.
LookUpFirst ==
    /\ lpc = "look" /\ look # <<>>
    /\ IF nodes[Head(look)] = Absent
       THEN /\ childUpd' = TRUE
            /\ spawned' = spawned \cup {[by |-> Head(look), root |-> cur]}
       ELSE UNCHANGED <<childUpd, spawned>>
    /\ look' = <<>>
    /\ UNCHANGED <<listenerRest, pageID, nodes, lpc, left, cur, updated, evPage,
                   jobs, panicked>>

\* One GetNode of reconcile's loop: an unknown child starts a subscription to
\* newNode (once for each such child).
LookUp ==
    /\ lpc = "look" /\ look # <<>>
    /\ IF nodes[Head(look)] = Absent
       THEN /\ childUpd' = TRUE
            /\ spawned' = spawned \cup {[by |-> Head(look), root |-> cur]}
       ELSE UNCHANGED <<childUpd, spawned>>
    /\ look' = Tail(look)
    /\ UNCHANGED <<listenerRest, pageID, nodes, lpc, left, cur, updated, evPage,
                   jobs, panicked>>

\* Mutant: only changed metadata count.
CompareMetaOnly ==
    /\ lpc = "look" /\ look = <<>>
    /\ lpc' = IF nodes[cur.id] = Absent \/ nodes[cur.id].meta # cur.meta
              THEN "overwrite" ELSE "reconcile"
    /\ UNCHANGED <<listenerRest, pageID, nodes, recVars, updated, evPage,
                   spawned, jobs, panicked>>

\* GetNode(newNode.NodeID): go on only if the metadata differ or a child is new.
Compare ==
    /\ lpc = "look" /\ look = <<>>
    /\ LET existing == nodes[cur.id]
           metaUpd  == (existing = Absent \/ existing.meta # cur.meta)
       IN  lpc' = IF metaUpd \/ childUpd THEN "overwrite" ELSE "reconcile"
    /\ UNCHANGED <<listenerRest, pageID, nodes, recVars, updated, evPage,
                   spawned, jobs, panicked>>

\* Mutant: a node with nothing but new children is not put on the list.
OverwriteUnlisted ==
    /\ lpc = "overwrite"
    /\ IF Stale(evPage)
       THEN lpc' = "reconcile" /\ UNCHANGED <<nodes, updated, panicked>>
       ELSE /\ UpdateNode(cur)
            /\ IF nodes[cur.id] = Absent
               THEN panicked' = TRUE /\ lpc' = "panicked" /\ UNCHANGED updated
               ELSE /\ lpc' = "reconcile"
                    /\ updated' = updated \cup (IF childUpd THEN {} ELSE {cur.id})
                    /\ UNCHANGED panicked
    /\ UNCHANGED <<listenerRest, pageID, recVars, evPage, spawned, jobs>>

\* UpdateNode(pageID, newNode): nothing on a stale page, a panic if the node
\* was not there.
Overwrite ==
    /\ lpc = "overwrite"
    /\ IF Stale(evPage)
       THEN lpc' = "reconcile" /\ UNCHANGED <<nodes, updated, panicked>>
       ELSE /\ UpdateNode(cur)
            /\ IF nodes[cur.id] = Absent
               THEN panicked' = TRUE /\ lpc' = "panicked" /\ UNCHANGED updated
               ELSE lpc' = "reconcile" /\ updated' = updated \cup {cur.id} /\ UNCHANGED panicked
    /\ UNCHANGED <<listenerRest, pageID, recVars, evPage, spawned, jobs>>

\* Mutant: handleNodesUpdated does not wait for its subscriptions.
NoWait == lpc = "load" \/ (lpc = "reconcile" /\ left = {})

\* wg.Wait(), of subSubtree or of handleNodesUpdated, no longer blocks.
WaitPassed ==
    /\ lpc = "load" \/ (lpc = "reconcile" /\ left = {})
    /\ spawned = {} /\ jobs = {}

\* Mutant: the channel has no bound.
EmitAlways ==
    /\ WaitPassed
    /\ lpc' = "idle"
    /\ out' = Append(out, [type  |-> IF lpc = "load" THEN "reset" ELSE "patch",
                           trees |-> {GetTree(nodes, id) : id \in updated}])
    /\ UNCHANGED <<browser, pageID, nodes, recVars, updated, evPage, spawned,
                   jobs, panicked, view>>

\* GetTree for every updated node, and the event is sent once the channel has
\* room.  The recursion of getTreeInner into a cycle ends when the stack
\* overflows, and with it the program.
Emit ==
    /\ WaitPassed
    /\ IF lpc = "reconcile" /\ Stale(evPage) /\ updated # {}
       THEN panicked' = TRUE /\ lpc' = "panicked" /\ UNCHANGED out
       ELSE /\ UNCHANGED panicked
            /\ IF \E id \in updated : Cyclic(nodes, id)
               THEN lpc' = "overflow" /\ UNCHANGED out
               ELSE /\ Len(out) < OutCap
                    /\ lpc' = "idle"
                    /\ out' = Append(out,
                          [type  |-> IF lpc = "load" THEN "reset" ELSE "patch",
                           trees |-> {GetTree(nodes, id) : id \in updated}])
    /\ UNCHANGED <<browser, pageID, nodes, recVars, updated, evPage, spawned,
                   jobs, view>>

\* case <-l.ctx.Done(), or rod has closed the channel of events.  (SubSubtree has
\* what a cancellation does to calls that are under way.)
Stop ==
    /\ MayStop
    /\ lpc = "idle"
    /\ lpc' = "stopped"
    /\ UNCHANGED <<listenerRest, pageID, nodes, recVars, updated, evPage,
                   spawned, jobs, panicked>>
-----------------------------------------------------------------------------
(* Subscriptions: subSubtree, subDispatcher and subscribe.  A job belongs  *)
(* to a call, carries the pageID the call started with, and is to be asked *)
(* for as long as it has no snapshots left to store.                       *)

NewJob(call, pid, id) ==
    [call |-> call, pid |-> pid, id |-> id, todo |-> {}, targets |-> {}]

\* subSubtree begins: PageID(), UpdateNode(root), and the root is the first job.
StartCall == \E c \in spawned :
    /\ spawned' = spawned \ {c}
    /\ UpdateNode(c.root)
    /\ jobs' = jobs \cup {NewJob(<<c.root.id, c.by>>, pageID, c.root.id)}
    /\ UNCHANGED <<listenerRest, pageID, lpc, recVars, updated, evPage, panicked>>

\* The job is over: its targets are new jobs of the call.
Done(j, targets) ==
    (jobs \ {j}) \cup {NewJob(j.call, j.pid, id) : id \in targets}

\* Is there still a node for the job to ask for?  (Ids are not used again on a
\* later page, and pageID counts the pages heard of.)
Askable(j) == j.pid + missed = loads /\ j.id \in Attached

\* The browser answers GetChildAXNodes(j.id) from the page as it is: from now
\* on it reports changes of the node.
Succeed(j) ==
    /\ Askable(j)
    /\ subs' = subs \cup {j.id} /\ failed' = failed \ {j.id}
    /\ jobs' = IF kids[j.id] = <<>> THEN Done(j, {})
               ELSE (jobs \ {j}) \cup
                    {[j EXCEPT !.todo = {Snap(n) : n \in Range(kids[j.id])}]}
    /\ UNCHANGED changes

\* The request fails: because the node or its page is gone, or for any other
\* reason, before or after it has reached the browser.  subscribe returns no
\* targets, and nobody asks again.
FailRequest(j) ==
    /\ jobs' = Done(j, {})
    /\ IF Askable(j)
       THEN /\ "fail" \in Kinds /\ changes < MaxChanges /\ changes' = changes + 1
            /\ failed' = failed \cup {j.id}
            /\ subs' \in {subs, subs \cup {j.id}}
       ELSE UNCHANGED <<changes, subs, failed>>

Answer == \E j \in jobs :
    /\ j.todo = {}
    /\ Succeed(j) \/ FailRequest(j)
    /\ UNCHANGED <<content, dirty, wire, missed, loads, pageID, nodes, lpc, recVars,
                   updated, evPage, spawned, panicked, out, view>>

\* Mutant: subscribe looks a child up and does not store it.
StoreNothing == \E j \in jobs :
    /\ j.todo # {}
    /\ \E n \in j.todo :
          LET targets == IF nodes[n.id] = Absent THEN j.targets \cup {n.id}
                         ELSE j.targets
          IN  jobs' = IF j.todo = {n} THEN Done(j, targets)
                      ELSE (jobs \ {j}) \cup
                           {[j EXCEPT !.todo = @ \ {n}, !.targets = targets]}
    /\ UNCHANGED <<listenerRest, pageID, nodes, lpc, recVars, updated, evPage,
                   spawned, panicked>>

\* One UpdateNode of subscribe's loop.  On a stale page the loop is left, and
\* the targets found so far are sent all the same.
Store == \E j \in jobs :
    /\ j.todo # {}
    /\ IF Stale(j.pid)
       THEN jobs' = Done(j, j.targets) /\ UNCHANGED nodes
       ELSE \E n \in j.todo :
               LET targets == IF nodes[n.id] = Absent THEN j.targets \cup {n.id}
                              ELSE j.targets
               IN  /\ UpdateNode(n)
                   /\ jobs' = IF j.todo = {n} THEN Done(j, targets)
                              ELSE (jobs \ {j}) \cup
                                   {[j EXCEPT !.todo = @ \ {n}, !.targets = targets]}
    /\ UNCHANGED <<listenerRest, pageID, lpc, recVars, updated, evPage, spawned,
                   panicked>>
-----------------------------------------------------------------------------
\* The consumer ranges over the stream.
Consume ==
    /\ out # <<>>
    /\ view' = Apply(view, Head(out))
    /\ out' = Tail(out)
    /\ UNCHANGED <<browser, pageID, nodes, lpc, recVars, updated, evPage, spawned,
                   jobs, panicked>>

Worker ==
    \/ Subscribe \/ ReceiveLoad \/ ReceiveUpdate
    \/ Pick \/ LookUp \/ Compare \/ Overwrite \/ Emit
Subscription == StartCall \/ Answer \/ Store
Next == Browser \/ Worker \/ Stop \/ Subscription \/ Consume

\* The goroutines run, the page loads, and the browser answers and reports;
\* the page need not change.  (Changes and loads being bounded, no step can be
\* repeated for ever and weak fairness of the whole is enough.)
Fairness == WF_vars(Worker \/ Subscription \/ Consume \/ Report \/ (loads = 0 /\ Load))
Spec == Init /\ [][Next]_vars /\ Fairness
-----------------------------------------------------------------------------
(* Properties.                                                             *)

TypeOK ==
    /\ kids \in [Node -> Seq(Node)] /\ meta \in [Node -> Meta]
    /\ retired \subseteq Node /\ moved \in BOOLEAN /\ failed \subseteq Node
    /\ subs \subseteq Node /\ dirty \subseteq Node
    /\ \A i \in DOMAIN wire : \/ wire[i].type = "load" /\ wire[i].root \in Snapshots
                              \/ wire[i].type = "update" /\ wire[i].nodes \subseteq Snapshots
    /\ pageID \in 0..MaxLoads /\ evPage \in 0..MaxLoads /\ missed \in 0..loads
    /\ \A n \in Node : nodes[n] # Absent => nodes[n] \in Snapshots /\ nodes[n].id = n
    /\ lpc \in {"start", "idle", "load", "reconcile", "look", "overwrite", "panicked", "stopped",
               "overflow"}
    /\ left \subseteq Snapshots
    /\ updated \subseteq Node
    /\ \A j \in jobs : j.id \in Node /\ j.todo \subseteq Snapshots
    /\ Len(out) <= OutCap

\* "page should never become stale within the single event loop goroutine":
\* whatever is in progress works for the current page, although the page ids
\* are read and compared in different critical sections.
NeverStale ==
    /\ \A j \in jobs : ~Stale(j.pid)
    /\ lpc \in {"load", "reconcile", "look", "overwrite"} => ~Stale(evPage)
    /\ lpc = "idle" => jobs = {} /\ spawned = {}

\* The assertions of the event worker hold: a node that the browser reports a
\* change of has been stored before.
NoPanic == ~panicked

\* The algorithm "is considered correct if eventually all inserted
\* (non-deleted) nodes will have been fetched" (proof/Event.tla): when nothing
\* is left to do, every node of the page is stored and reports its changes,
\* whatever changed while the listener was at work.  What a request that failed
\* ("we ignore errors, they do not affect the result") leaves out is at most its
\* node and what is below it, until a later request for it succeeds.
LeftOut == UNION {Below(Page, n) : n \in failed}
Covered == Quiet => \A n \in Attached \ LeftOut : nodes[n] # Absent /\ n \in subs

\* The stream tells all: a consumer that has applied every event sent so far
\* has the same tree as the listener, whenever no event is being handled and as
\* long as no node has been moved.
Told == LET apply[i \in 0..Len(out)] ==
                IF i = 0 THEN view ELSE Apply(apply[i - 1], out[i])
        IN  apply[Len(out)]
StreamComplete ==
    (lpc = "idle" /\ pageID > 0 /\ ~moved) => GetTree(Told, Top) = GetTree(nodes, Top)

\* reconcile "updates metadata and children list": when it lets an update of a
\* node go, the list stored for the node is the one the update brought.
UpdatesChildren ==
    [][lpc = "look" /\ lpc' = "reconcile" => nodes[cur.id].kids = cur.kids]_vars

\* The consumer's tree becomes and stays the page's once the page no longer
\* changes, unless a request has failed and was not made again, and not only of a
\* page that had loaded before the goroutine of Listen asked for events: the next
\* load makes up for either.
Converges ==
    <>[](loads > 0 /\ (loads > missed /\ failed = {} => GetTree(view, Top) = PageTree))

\* "we assume no cycles exist in the tree" (getTreeInner): there is none below a
\* node the handler is about to tell the consumer of.
NoCycles == WaitPassed => \A id \in updated : ~Cyclic(nodes, id)
=============================================================================
