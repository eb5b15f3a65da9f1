------------------------------ MODULE Labeler ------------------------------
(***************************************************************************)
(* Labelling structures with a language model (cmd/demo-ai): Labeler.Label *)
(* and childLabels (labeler.go), LookupLabel, RecordLabel and the worker   *)
(* that writes (db.go), and the loop of main.go that labels every hash of  *)
(* the page.                                                               *)
(*                                                                         *)
(* A call of Label is named by its path: the number of the loop's call,    *)
(* then a position among the children for each call below it.              *)
(*                                                                         *)
(* Abstractions.  Of an instance only the hashes of its children are kept; *)
(* of a label, whether there is one.  The writer has started before the    *)
(* first label is recorded (the loop waits for a timer and for the page).  *)
(***************************************************************************)
EXTENDS Naturals, Sequences, FiniteSets, SequencesExt

CONSTANTS
    Hashes,      \* structure hashes
    Instances,   \* Instances[h]: per instance with hash h, its children's hashes
    MaxCalls,    \* bound: calls of Label by the loop
    MaxChanges   \* bound: changes of the page

\* What an instance has to assume of the constants.
InstancesOK ==
    /\ Instances \in [Hashes -> Seq(Seq(Hashes))]
    /\ \A h \in Hashes : Instances[h] # <<>>
    /\ MaxCalls \in Nat /\ MaxChanges \in Nat

VARIABLES
    present,    \* the hashes that have instances on the page
    changes,    \* changes of the page so far
    todo,       \* the hashes the loop has yet to label
    count,      \* calls of Label the loop has made
    calls,      \* path -> where each call in progress is
    db,         \* the hashes that have a label in the database
    writer,     \* what recordWriteWorker is writing: a set of at most one hash
    lost,       \* history: the hashes whose write has failed, and that have no label
    open,       \* is the channel recordWrites open?
    cancelled,
    erred,      \* history: has any request or write failed?
    crashed     \* has a goroutine panicked?

page    == <<present, changes>>
storage == <<db, writer, lost, open>>
vars    == <<page, todo, count, calls, storage, cancelled, erred, crashed>>

\* With a structure its children are on the page too.
Pages == {S \in SUBSET Hashes :
             \A h \in S : \A i \in DOMAIN Instances[h] : Range(Instances[h][i]) \subseteq S}

Init ==
    /\ present \in Pages /\ changes = 0
    /\ todo = present /\ count = 0 /\ calls = << >>
    /\ db \in SUBSET Hashes /\ writer = {} /\ lost = {} /\ open = TRUE
    /\ cancelled = FALSE /\ erred = FALSE /\ crashed = FALSE
-----------------------------------------------------------------------------
(* Label.                                                                  *)

\* The first instance with children of another hash, or else the first.
anyNonCyclicStructure(h) ==
    LET fits(i) == Instances[h][i] # <<>> /\ Instances[h][i][1] # h
        first   == {i \in DOMAIN Instances[h] : fits(i) /\ \A k \in 1..(i - 1) : ~fits(k)}
    IN  Instances[h][IF first = {} THEN 1 ELSE CHOOSE i \in first : TRUE]

Kids(p)   == anyNonCyclicStructure(calls[p].hash)
Below(p)  == {Append(p, i) : i \in DOMAIN Kids(p)}
Call(h)   == [hash |-> h, at |-> "lookup", left |-> 0]
Go(p, pc) == calls' = [calls EXCEPT ![p].at = pc]
Drop(p)   == [q \in DOMAIN calls \ {p} |-> calls[q]]

\* The loop of main: one call after the other.
Idle == \A p \in DOMAIN calls : Len(p) > 1

Begin(h) ==
    /\ Idle /\ h \in todo /\ count < MaxCalls
    /\ todo' = todo \ {h} /\ count' = count + 1
    /\ calls' = [q \in DOMAIN calls \cup {<<count + 1>>} |->
                    IF Len(q) = 1 THEN Call(h) ELSE calls[q]]
    /\ UNCHANGED <<page, storage, cancelled, erred, crashed>>

\* The loop ends with the first call that fails because of a cancellation.
Finish(p) ==
    /\ Len(p) = 1 /\ calls[p].at \in {"done", "failed"}
    /\ calls' = Drop(p)
    /\ todo' = IF cancelled /\ calls[p].at = "failed" THEN {} ELSE todo
    /\ UNCHANGED <<page, count, storage, cancelled, erred, crashed>>
-----------------------------------------------------------------------------
(* Label.                                                                  *)

\* LookupLabel: there is a label, or a goroutine starts for every child.
\* Without an instance anyNonCyclicStructure panics; the instances are those of
\* the page now, not when the loop listed the hashes.
Lookup(p) ==
    /\ calls[p].at = "lookup" /\ ~cancelled
    /\ \/ calls[p].hash \in db /\ Go(p, "done") /\ UNCHANGED crashed
       \/ /\ calls[p].hash \notin db \cup present
          /\ crashed' = TRUE /\ UNCHANGED calls
       \/ /\ calls[p].hash \in present \ db
          /\ calls' = [q \in DOMAIN calls \cup Below(p) |->
                          IF q = p THEN [calls[p] EXCEPT !.at = "collect", !.left = Len(Kids(p))]
                          ELSE IF q \in Below(p) THEN Call(Kids(p)[Last(q)])
                          ELSE calls[q]]
          /\ UNCHANGED crashed
    /\ UNCHANGED <<page, todo, count, storage, cancelled, erred>>

\* Mutant: a goroutine whose call fails returns without a result.
FailSilently(p) ==
    /\ calls[p].at \in {"lookup", "ask"}
    /\ calls' = IF Len(p) = 1 THEN [calls EXCEPT ![p].at = "failed"] ELSE Drop(p)
    /\ erred' = TRUE
    /\ UNCHANGED <<page, todo, count, storage, cancelled, crashed>>

\* The query or the request to the model fails, as they do when cancelled.
Fail(p) ==
    /\ calls[p].at \in {"lookup", "ask"}
    /\ Go(p, "failed")
    /\ erred' = TRUE
    /\ UNCHANGED <<page, todo, count, storage, cancelled, crashed>>

\* Mutant: a child that fails is counted like one that has its label.
CollectAll(p, q) ==
    /\ p = Front(q) /\ calls[q].at \in {"done", "failed"} /\ calls[p].at = "collect"
    /\ calls' = [Drop(q) EXCEPT ![p].left = @ - 1]
    /\ UNCHANGED <<page, todo, count, storage, cancelled, erred, crashed>>

\* childLabels takes a result, in any order; an error ends it at once.
Collect(p, q) ==
    /\ p = Front(q) /\ calls[q].at \in {"done", "failed"} /\ calls[p].at = "collect"
    /\ calls' = IF calls[q].at = "failed" THEN [Drop(q) EXCEPT ![p].at = "failed"]
                ELSE [Drop(q) EXCEPT ![p].left = @ - 1]
    /\ UNCHANGED <<page, todo, count, storage, cancelled, erred, crashed>>

\* Mutant: one result too few is awaited.
AllButOne(p) ==
    /\ calls[p].at = "collect" /\ calls[p].left <= 1
    /\ Go(p, "ask")
    /\ UNCHANGED <<page, todo, count, storage, cancelled, erred, crashed>>

AllCollected(p) ==
    /\ calls[p].at = "collect" /\ calls[p].left = 0
    /\ Go(p, "ask")
    /\ UNCHANGED <<page, todo, count, storage, cancelled, erred, crashed>>

\* childLabels has returned and closed its channel: whoever still sends panics.
\* (The parent can have returned too.)
SendOnClosed(q) ==
    /\ Len(q) > 1 /\ calls[q].at \in {"done", "failed"}
    /\ Front(q) \in DOMAIN calls => calls[Front(q)].at # "collect"
    /\ crashed' = TRUE
    /\ UNCHANGED <<page, todo, count, calls, storage, cancelled, erred>>

Ask(p) ==
    /\ calls[p].at = "ask"
    /\ Go(p, "record")
    /\ UNCHANGED <<page, todo, count, storage, cancelled, erred, crashed>>

\* Mutant: the channel has room, so nobody waits for the writer.
RecordAhead(p) ==
    /\ calls[p].at = "record"
    /\ writer' = writer \cup {calls[p].hash}
    /\ Go(p, "done")
    /\ UNCHANGED <<page, todo, count, db, lost, open, cancelled, erred, crashed>>

\* RecordLabel: the writer takes the label, the context is done, or the writer
\* has closed the channel (then sending, if select chooses it, panics).
Record(p) ==
    /\ calls[p].at = "record"
    /\ \/ /\ open /\ writer = {}
          /\ writer' = {calls[p].hash}
          /\ Go(p, "done")
          /\ UNCHANGED <<erred, crashed>>
       \/ /\ cancelled
          /\ Go(p, "failed") /\ erred' = TRUE
          /\ UNCHANGED <<writer, crashed>>
       \/ /\ ~open
          /\ crashed' = TRUE
          /\ UNCHANGED <<calls, writer, erred>>
    /\ UNCHANGED <<page, todo, count, db, lost, open, cancelled>>
-----------------------------------------------------------------------------
(* recordWriteWorker.                                                      *)

\* recordWrite: an insertion or an update; an error is only logged.
Write ==
    /\ writer # {}
    /\ \/ db' = db \cup writer /\ lost' = lost \ writer /\ UNCHANGED erred
       \/ lost' = lost \cup (writer \ db) /\ erred' = TRUE /\ UNCHANGED db
    /\ writer' = {}
    /\ UNCHANGED <<page, todo, count, calls, open, cancelled, crashed>>

WriterExit ==
    /\ cancelled /\ writer = {} /\ open
    /\ open' = FALSE
    /\ UNCHANGED <<page, todo, count, calls, db, writer, lost, cancelled, erred, crashed>>
-----------------------------------------------------------------------------
\* An event of the stream changes what is on the page.
PageChange ==
    /\ changes < MaxChanges
    /\ present' \in Pages \ {present} /\ changes' = changes + 1
    /\ UNCHANGED <<todo, count, calls, storage, cancelled, erred, crashed>>

Interrupt ==
    /\ ~cancelled
    /\ cancelled' = TRUE
    /\ UNCHANGED <<page, todo, count, calls, storage, erred, crashed>>

Step ==
    \/ \E h \in todo : Begin(h)
    \/ \E p \in DOMAIN calls :
          \/ Finish(p) \/ Lookup(p) \/ Fail(p) \/ AllCollected(p) \/ SendOnClosed(p)
          \/ Ask(p) \/ Record(p)
          \/ \E q \in DOMAIN calls : Collect(p, q)
    \/ Write \/ WriterExit

Next == ~crashed /\ (Step \/ PageChange \/ Interrupt)

\* The Go scheduler runs the goroutines; the database and the model answer.
\* (Weak fairness of the whole is enough: no step can be repeated for ever.)
Spec == Init /\ [][Next]_vars /\ WF_vars(~crashed /\ Step)
-----------------------------------------------------------------------------
(* Properties.                                                             *)

TypeOK ==
    /\ present \subseteq Hashes /\ todo \subseteq Hashes
    /\ changes \in 0..MaxChanges /\ count \in 0..MaxCalls
    /\ \A p \in DOMAIN calls :
          calls[p] \in [hash : Hashes, left : Nat,
                        at : {"lookup", "collect", "ask", "record", "done", "failed"}]
    /\ db \subseteq Hashes /\ lost \subseteq Hashes \ db
    /\ writer \subseteq Hashes /\ Cardinality(writer) <= 1
    /\ open \in BOOLEAN /\ cancelled \in BOOLEAN /\ erred \in BOOLEAN /\ crashed \in BOOLEAN

\* The hashes whose labels the writer has received, or an earlier run.
Received == db \cup writer \cup lost

\* When the model is asked about a structure, the label of each of its children is
\* in the database, being written, or has been lost (its write has failed, which
\* recordWriteWorker only logs).
AskedLast ==
    \A p \in DOMAIN calls :
        calls[p].at \in {"ask", "record"} => Range(Kids(p)) \subseteq Received

\* When a label is being written, the writes of its children are over.
WrittenLast == \A h \in writer : Range(anyNonCyclicStructure(h)) \subseteq db \cup lost

\* Children come before their parents, also when calls for one hash run side by
\* side, fail, or find what an earlier run has stored.  Whatever then happens to
\* the program, it has stored a parent without a child only where the child's own
\* write has failed.
BottomUp == AskedLast /\ WrittenLast

\* Nothing panics as long as nothing fails, the page stays as it is and the
\* user does not interrupt: only then can a channel be closed too early.
CalmIsSafe == crashed => erred \/ changes > 0 \/ cancelled

\* The loop gets through the hashes of the page, and no goroutine is left.
LoopEnds ==
    <>[](crashed \/ ((todo = {} \/ count = MaxCalls) /\ DOMAIN calls = {}))
=============================================================================
