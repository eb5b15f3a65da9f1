----------------------------- MODULE Inspector -----------------------------
(***************************************************************************)
(* cmd/inspector: the panel in the page (client.js, tree.js), its calls to *)
(* the program (rpc.js, js.go), and the program's updates (main.go).       *)
(*                                                                         *)
(* The program's tree of instances (doc) is given by the children of each  *)
(* node.  The panel keeps an object (TreeNode) per node in Tree.nodes, and *)
(* HTML elements: each object has a container of other objects' elements.  *)
(* A handler of the page runs to its end or to the first exception.        *)
(*                                                                         *)
(* Abstractions.  Pages on which nothing repeats, so that no node is a     *)
(* wrapper; one document, whose root stays; labels, the display and the    *)
(* highlights are left out.  External: Persistent.Root and InstanceForAXID *)
(* (js.go was written for a Persistent that keeps the tree in memory); rod,*)
(* which serves the calls of one exposed function one after the other.     *)
(***************************************************************************)
EXTENDS Integers, Sequences, FiniteSets, SequencesExt

CONSTANTS
    Docs,        \* trees the page may have: node -> its children
    MaxActions,  \* bound: what the user does
    MaxPatches   \* bound: changes of the page

\* The nodes of a tree that are nobody's children, and whether the children of a
\* set's nodes are in the set.
Tops(d)      == {i \in DOMAIN d : \A p \in DOMAIN d : i \notin Range(d[p])}
Closed(d, S) == \A p \in S : Range(d[p]) \subseteq S

\* They are trees, with one root.
ASSUME DocsOK ==
    \A d \in Docs :
        /\ IsFiniteSet(DOMAIN d) /\ d \in [DOMAIN d -> Seq(DOMAIN d)]
        /\ \A p, q \in DOMAIN d : \A i \in DOMAIN d[p], j \in DOMAIN d[q] :
              d[p][i] = d[q][j] => p = q /\ i = j
        /\ \E root \in DOMAIN d : \A e \in Docs : Tops(e) = {root}
        /\ \A S \in SUBSET DOMAIN d : Tops(d) \subseteq S /\ Closed(d, S) => S = DOMAIN d

ASSUME BoundsOK == MaxActions \in Nat /\ MaxPatches \in Nat

VARIABLES
    doc,       \* the program's tree
    pending,   \* updated nodes that the page has not been told of
    crashed,   \* has the program dereferenced nil?
    objs,      \* TreeNodes made so far: [id, parent, kids, box]
    map,       \* Tree.nodes: id -> (the number of) its object
    top,       \* the elements in Tree.root
    state,     \* the element hovered last (at most one)
    calls,     \* calls of expandLevels and of expandTo not yet answered, in order
    answer,    \* the answer to the first of each, once computed (at most one)
    actions,   \* what the user has done
    patches,   \* changes of the page
    calm,      \* history: only clicks so far, each when all calls were answered?
    overtaken  \* history: has an update overtaken an answer it contradicts?

panel  == <<objs, map, top>>
rpc    == <<calls, answer>>
server == <<doc, pending, crashed>>
vars   == <<server, panel, state, rpc, actions, patches, calm, overtaken>>

Init ==
    /\ doc \in Docs /\ pending = {} /\ crashed = FALSE
    /\ objs = <<>> /\ map = << >> /\ top = <<>> /\ state = {}
    /\ calls = [levels |-> <<{}>>, to |-> <<>>]   \* expandLevels(null, 10)
    /\ answer = [levels |-> {}, to |-> {}]
    /\ actions = 0 /\ patches = 0 /\ calm = TRUE /\ overtaken = FALSE
-----------------------------------------------------------------------------
(* js.go.                                                                  *)

Parent(id) == {p \in DOMAIN doc : id \in Range(doc[p])}
NewNodeInfo(id) == [id |-> id, parent |-> Parent(id), kids |-> doc[id]]

\* The node and what is below it, down to a level.
expandLevels(id, levels) ==
    LET of[l \in 0..levels] == [i \in DOMAIN doc |->
            IF l = 0 THEN <<>>
            ELSE <<NewNodeInfo(i)>> \o FlattenSeq([k \in DOMAIN doc[i] |-> of[l - 1][doc[i][k]]])]
    IN  of[levels][id]

\* The node with the siblings that follow.
Siblings(id) ==
    LET p  == CHOOSE q \in Parent(id) : TRUE
        at == CHOOSE i \in DOMAIN doc[p] : doc[p][i] = id
    IN  [i \in 1..(Len(doc[p]) - at + 1) |-> NewNodeInfo(doc[p][at + i - 1])]

\* From the root down to the node, on each level with the siblings that follow.
\* (No node has as many above it as there are nodes.)
expandTo(id) ==
    LET to[l \in 0..Cardinality(DOMAIN doc)] == [i \in DOMAIN doc |->
            IF l = 0 THEN <<>>
            ELSE IF Parent(i) = {} THEN <<NewNodeInfo(i)>>
            ELSE to[l - 1][CHOOSE p \in Parent(i) : TRUE] \o Siblings(i)]
    IN  to[Cardinality(DOMAIN doc)][id]

Root == CHOOSE id \in DOMAIN doc : Parent(id) = {}

\* The nodes and all that is below them.
Beneath(ids) ==
    {i \in DOMAIN doc : \A S \in SUBSET DOMAIN doc : ids \subseteq S /\ Closed(doc, S) => i \in S}
-----------------------------------------------------------------------------
(* tree.js.  Operators take and return what a handler has made of          *)
(* [objs, map, top] so far, and whether an exception has been thrown.      *)

Dom == [objs |-> objs, map |-> map, top |-> top, threw |-> FALSE]
Throw(d) == [d EXCEPT !.threw = TRUE]

\* Where an object's element belongs: the container of the object that is now
\* its parent's in Tree.nodes (mustResolve, which throws), or Tree.root.
NoParent(d, n) == d.objs[n].parent = {}
Unknown(d, n)  == d.objs[n].parent # {} /\ d.objs[n].parent \cap DOMAIN d.map = {}
Owner(d, n)    == d.map[CHOOSE p \in d.objs[n].parent : TRUE]

\* Tree.add(TreeNode.fromInfo(info)): Tree.nodes is set before attach can throw.
add(d, info) ==
    LET n == Len(d.objs) + 1
        made == [d EXCEPT !.objs = Append(@, [id |-> info.id, parent |-> info.parent,
                                              kids |-> info.kids, box |-> <<>>]),
                          !.map = [id \in DOMAIN @ \cup {info.id} |->
                                      IF id = info.id THEN n ELSE @[id]]]
    IN  IF d.threw THEN d
        ELSE CASE NoParent(made, n) -> [made EXCEPT !.top = Append(@, n)]
               [] Unknown(made, n)  -> Throw(made)
               [] OTHER             -> [made EXCEPT !.objs[Owner(made, n)].box = Append(@, n)]

\* TreeNode.detach of what Tree.nodes has for an id: removeChild throws if the
\* element is not in the container.
detach(d, id) ==
    LET n == d.map[id]
    IN  IF d.threw \/ id \notin DOMAIN d.map THEN d
        ELSE CASE NoParent(d, n) /\ n \in Range(d.top) -> [d EXCEPT !.top = RemoveFirst(@, n)]
               [] ~NoParent(d, n) /\ ~Unknown(d, n) /\ n \in Range(d.objs[Owner(d, n)].box) ->
                      [d EXCEPT !.objs[Owner(d, n)].box = RemoveFirst(@, n)]
               [] OTHER -> Throw(d)

\* A handler's loops.
Added(d, infos) ==
    LET after[i \in 0..Len(infos)] == IF i = 0 THEN d ELSE add(after[i - 1], infos[i])
    IN  after[Len(infos)]

Detached(d, ids) ==
    LET after[i \in 0..Len(ids)] == IF i = 0 THEN d ELSE detach(after[i - 1], ids[i])
    IN  after[Len(ids)]

\* Tree.update for each of some nodes: what Tree.nodes has is changed, and no
\* element is.  (All infos are of one tree, so their order does not matter.)
update(ids) ==
    [n \in DOMAIN objs |->
        LET id == objs[n].id
        IN  IF id \in ids \cap DOMAIN map /\ n = map[id]
            THEN [objs[n] EXCEPT !.parent = Parent(id), !.kids = doc[id]] ELSE objs[n]]

isExpanded(n) == Len(objs[n].box) >= Len(objs[n].kids)

Becomes(d) == objs' = d.objs /\ map' = d.map /\ top' = d.top

\* The objects whose elements are in the page: some, what is in their boxes, and
\* so on.
Below(os, ns) ==
    LET down[k \in 0..Len(os)] ==
            IF k = 0 THEN ns
            ELSE LET above == down[k - 1] IN above \cup UNION {Range(os[n].box) : n \in above}
    IN  down[Len(os)]
Visible == Below(objs, Range(top))
-----------------------------------------------------------------------------
(* client.js.                                                              *)

InFlight == calls.levels # <<>> \/ calls.to # <<>>

\* onExpandToggle: a click on the label of an object in the page.
Click(n) ==
    /\ actions < MaxActions /\ n \in Visible
    /\ actions' = actions + 1
    /\ IF isExpanded(n)
       THEN objs' = [objs EXCEPT ![n].box = <<>>] /\ UNCHANGED calls
       ELSE calls' = [calls EXCEPT !.levels = Append(@, {objs[n].id})] /\ UNCHANGED objs
    /\ calm' = (calm /\ ~InFlight)
    /\ UNCHANGED <<server, map, top, state, answer, patches, overtaken>>

\* getStructInfo of the element under the mouse is answered.
Hover(id) ==
    /\ id \in DOMAIN doc
    /\ state' = {id}
    /\ UNCHANGED <<server, panel, rpc, actions, patches, calm, overtaken>>

\* <Alt+C>: expandTo of the element hovered last.
AltC ==
    /\ actions < MaxActions /\ state # {}
    /\ actions' = actions + 1 /\ calm' = FALSE
    /\ calls' = [calls EXCEPT !.to = Append(@, state)]
    /\ UNCHANGED <<server, panel, state, answer, patches, overtaken>>

Answered(kind) ==
    /\ calls' = [calls EXCEPT ![kind] = Tail(@)] /\ answer' = [answer EXCEPT ![kind] = {}]
    /\ UNCHANGED <<server, state, actions, patches, calm, overtaken>>

\* Mutant: the expanded node itself is added again.
AddAll(infos) ==
    /\ Becomes(Added(Dom, infos))
    /\ Answered("levels")

\* The answer to expandLevels: of a click, the first is the node itself and is
\* dropped.  (For a node that is gone the answer is null, which throws.)
AddLevels(infos) ==
    /\ Becomes(Added(Dom, IF Head(calls.levels) = {} \/ infos = <<>> THEN infos
                          ELSE Tail(infos)))
    /\ Answered("levels")

\* The answer to expandTo: everything there is of it is detached, from the last
\* to the first, then all is added anew.
ShowInfos(infos) ==
    /\ LET ids == [i \in DOMAIN infos |-> infos[Len(infos) - i + 1].id]
       IN  Becomes(Added(Detached(Dom, ids), infos))
    /\ Answered("to")

Deliver ==
    \/ \E infos \in answer.levels : AddLevels(infos)
    \/ \E infos \in answer.to : ShowInfos(infos)
-----------------------------------------------------------------------------
(* The program: the exposed functions, each under persistLock, and the loop*)
(* over the stream.                                                        *)

AnswerLevels ==
    /\ calls.levels # <<>> /\ answer.levels = {}
    /\ LET asked == Head(calls.levels)
       IN  answer' = [answer EXCEPT !.levels =
               IF asked = {} THEN {expandLevels(Root, 10)}
               ELSE IF asked \subseteq DOMAIN doc THEN {expandLevels(id, 2) : id \in asked}
               ELSE {<<>>}]
    /\ UNCHANGED <<server, panel, state, calls, actions, patches, calm, overtaken>>

\* expandTo of a node that is gone: InstanceForAXID gives nil, st.Parent panics.
AnswerTo ==
    /\ calls.to # <<>> /\ answer.to = {}
    /\ IF Head(calls.to) \subseteq DOMAIN doc
       THEN /\ answer' = [answer EXCEPT !.to = {expandTo(id) : id \in Head(calls.to)}]
            /\ UNCHANGED crashed
       ELSE crashed' = TRUE /\ UNCHANGED answer
    /\ UNCHANGED <<doc, pending, panel, state, calls, actions, patches, calm, overtaken>>

\* Mutant: the event names the nodes that are gone, too.
PatchGone(d) ==
    /\ patches < MaxPatches /\ pending = {}
    /\ patches' = patches + 1 /\ calm' = FALSE
    /\ doc' = d
    /\ pending' = {id \in DOMAIN doc : id \notin DOMAIN d \/ doc[id] # d[id]}
    /\ UNCHANGED <<crashed, panel, state, rpc, actions, overtaken>>

\* persistHandleEvent of a patch.
Patch(d) ==
    /\ patches < MaxPatches /\ pending = {}
    /\ patches' = patches + 1 /\ calm' = FALSE
    /\ doc' = d
    /\ pending' = {id \in DOMAIN doc \cap DOMAIN d : doc[id] # d[id]}
    /\ UNCHANGED <<crashed, panel, state, rpc, actions, overtaken>>

Contradicted(infos) ==
    \E i \in DOMAIN infos : infos[i].id \notin DOMAIN doc \/ infos[i] # NewNodeInfo(infos[i].id)

\* Mutant: only the nodes of the event are sent, without what is below them.
UpdateNodes ==
    /\ pending # {}
    /\ objs' = update(pending) /\ UNCHANGED <<map, top>>
    /\ pending' = {}
    /\ overtaken' = (overtaken \/ \E infos \in answer.levels \cup answer.to : Contradicted(infos))
    /\ UNCHANGED <<doc, crashed, state, rpc, actions, patches, calm>>

\* updateInspectorTree: the updated nodes with all that is below them.  The lock
\* is held until the page has evaluated it; answers computed before may still be
\* on their way.
updateInspectorTree ==
    /\ pending # {}
    /\ objs' = update(Beneath(pending)) /\ UNCHANGED <<map, top>>
    /\ pending' = {}
    /\ overtaken' = (overtaken \/ \E infos \in answer.levels \cup answer.to : Contradicted(infos))
    /\ UNCHANGED <<doc, crashed, state, rpc, actions, patches, calm>>

Next ==
    /\ ~crashed
    /\ \/ \E n \in DOMAIN objs : Click(n)
       \/ \E id \in DOMAIN doc : Hover(id)
       \/ AltC \/ AnswerLevels \/ AnswerTo \/ Deliver
       \/ \E d \in Docs \ {doc} : Patch(d)
       \/ updateInspectorTree

Spec == Init /\ [][Next]_vars
-----------------------------------------------------------------------------
(* Properties.                                                             *)

TypeOK ==
    LET ids == UNION {DOMAIN d : d \in Docs}
    IN  /\ doc \in Docs /\ pending \subseteq DOMAIN doc /\ state \subseteq ids
        /\ \A n \in DOMAIN objs :
              /\ objs[n].id \in ids /\ objs[n].parent \subseteq ids
              /\ objs[n].kids \in Seq(ids) /\ objs[n].box \in Seq(DOMAIN objs)
        /\ DOMAIN map \subseteq ids /\ \A id \in DOMAIN map : objs[map[id]].id = id
        /\ top \in Seq(DOMAIN objs)
        /\ Cardinality(answer.levels) <= 1 /\ Cardinality(answer.to) <= 1
        /\ actions \in 0..MaxActions /\ patches \in 0..MaxPatches

\* What the panel knows of the nodes of the page is what the program knows, after
\* every update: an update brings along what has been moved below an updated
\* node, and answers computed before it are corrected by it.  The one exception
\* is an answer that an update overtakes.
MapFresh ==
    pending = {} /\ ~overtaken =>
        \A id \in DOMAIN map \cap DOMAIN doc :
            LET o == objs[map[id]] IN [id |-> id, parent |-> o.parent, kids |-> o.kids] = NewNodeInfo(id)

\* Opening and closing nodes shows the page's tree: on a page that does not
\* change every node in the panel is closed or has its children, in their order
\* and once each, as long as the user waits for the answers and only clicks.
ShowsThePage ==
    calm /\ ~InFlight =>
        \A n \in Visible : LET box == objs[n].box IN
            box = <<>> \/ [i \in DOMAIN box |-> objs[box[i]].id] = doc[objs[n].id]

\* "<Alt+C>: Show element in tree." (Display): when the answer to it has been
\* handled, the element is in the panel.
ShowShows ==
    [][calls.to # <<>> /\ calls'.to = Tail(calls.to) /\ patches = 0 =>
          \A id \in Head(calls.to) : \E n \in Below(objs', Range(top')) : objs'[n].id = id]_vars
=============================================================================
