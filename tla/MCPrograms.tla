----------------------------- MODULE MCPrograms -----------------------------
(***************************************************************************)
(* The programs around the listener and the library of workers, for TLC.   *)
(* They share nothing: a behavior is that of one of them (which), and the  *)
(* variables of the others keep their first values.                        *)
(***************************************************************************)
EXTENDS Controller, Sequences

CONSTANTS MaxCalls, MaxChanges, MaxNodesUpdated, Work, Workers

VARIABLES
    which,  \* "controller", "labeler", "continuous", "pool"
    \* Labeler
    present, changes, todo, count, calls, db, writer, lost, open,
    lcancelled, erred, lcrashed,
    \* Continuous
    browser, browserUpdates, events, listener, nodes, sends, page, alive, mutex,
    fetched, senders, at, target, toStore, asked, ccancelled,
    \* WorkerPool
    added, sending, wat, whand, executed, wg, wait, wcancelled

lvars == <<present, changes, todo, count, calls, db, writer, lost, open,
           lcancelled, erred, lcrashed>>
cvars == <<browser, browserUpdates, events, listener, nodes, sends, page, alive, mutex,
           fetched, senders, at, target, toStore, asked, ccancelled>>
wvars == <<added, sending, wat, whand, executed, wg, wait, wcancelled>>
all   == <<which, vars, lvars, cvars, wvars>>
-----------------------------------------------------------------------------
\* A leaf a that also occurs as a list of itself, a box b of two of them that
\* occurs first as a list, and a c with a box in it.
Structures == [a |-> << <<>>, <<"a", "a">> >>, b |-> << <<"b", "b">>, <<"a", "a">> >>,
               c |-> << <<"b">> >>]
Hashes     == DOMAIN Structures

L == INSTANCE Labeler WITH Instances <- Structures,
         cancelled <- lcancelled, crashed <- lcrashed

\* Two pages, the first with three nodes in a row and the second with two.
Tree  == [r1 |-> {"a1"}, a1 |-> {"b1"}, b1 |-> {}, r2 |-> {"a2"}, a2 |-> {}]
Ids   == DOMAIN Tree
Pages == [i \in Ids |-> IF i \in {"r2", "a2"} THEN 2 ELSE 1]
Roots == <<"r1", "r2">>

C == INSTANCE Continuous WITH PageOf <- Pages, Root <- Roots,
         Kids <- Tree, MaxUpdates <- MaxNodesUpdated, updates <- browserUpdates,
         loop <- listener, todo <- toStore, cancelled <- ccancelled

W == INSTANCE WorkerPool WITH at <- wat, hand <- whand, cancelled <- wcancelled
-----------------------------------------------------------------------------
ASSUME InstancesFit == L!InstancesOK /\ C!PagesOK

LabelerIdle == present = {} /\ db = {}

ProgramsInit ==
    /\ which \in {"controller", "labeler", "continuous", "pool"}
    /\ Init /\ C!Init /\ W!Init
    /\ L!Init /\ (which = "labeler" \/ LabelerIdle)

Alone(program, step) ==
    /\ which = program /\ step
    /\ UNCHANGED which
    /\ program # "controller" => UNCHANGED vars
    /\ program # "labeler"    => UNCHANGED lvars
    /\ program # "continuous" => UNCHANGED cvars
    /\ program # "pool"       => UNCHANGED wvars

ProgramsNext ==
    \/ Alone("controller", Next)
    \/ Alone("labeler", L!Next)
    \/ Alone("continuous", C!Next)
    \/ Alone("pool", W!Next)

\* Each program has the fairness of its own specification.
ProgramsFairness ==
    /\ WF_vars(which = "controller" /\ Running /\ (eventLoop \/ actionProcessor))
    /\ WF_lvars(which = "labeler" /\ ~lcrashed /\ L!Step)
    /\ WF_cvars(which = "continuous" /\ C!Step)
    /\ WF_wvars(which = "pool" /\ W!Step)

ProgramsSpec == ProgramsInit /\ [][ProgramsNext]_all /\ ProgramsFairness
-----------------------------------------------------------------------------
(* The properties of the four, each in its module with what it is about.   *)

\* The types of all programs' variables.
TypesOK == TypeOK /\ L!TypeOK /\ C!TypeOK /\ W!TypeOK

\* A structure is labelled, and its label written, after its children's (Labeler.Label,
\* recordWriteWorker), except for what a failed write loses.
BottomUp == L!BottomUp

\* Nothing panics in calm weather (childLabels, RecordLabel).
CalmIsSafe == L!CalmIsSafe

\* The loop of demo-ai ends and leaves no goroutine (main.go, Label).
LoopEnds == which = "labeler" => L!LoopEnds

\* The event loop comes back unless it and the workers embrace (main.go of the
\* continuous test program).
LoopServes == C!LoopServes

\* No node of the page is left out by the workers (main.go of the continuous
\* test program).
AllAsked == C!AllAsked

\* The channel of Wait is closed only when all work is executed (worker_pool.go).
AllDone == W!AllDone

\* The channel of Wait is closed in the end (worker_pool.go).
WaitAnswers == W!WaitAnswers
=============================================================================
