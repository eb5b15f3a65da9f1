----------------------------- MODULE WorkerPool -----------------------------
(***************************************************************************)
(* syncx.WorkerPool (worker_pool.go): work is added to an unbuffered queue *)
(* by a goroutine of its own, a fixed number of workers executes it, and   *)
(* Wait tells when a WaitGroup of what was added is empty.                 *)
(*                                                                         *)
(* Work may add more work from its Exec.  Once Wait is called nobody else  *)
(* adds any, as sync.WaitGroup asks of its callers.                        *)
(***************************************************************************)
EXTENDS Naturals

CONSTANTS Work, Workers

VARIABLES
    added,     \* history: the work that has been added
    sending,   \* work whose goroutine of Add has not sent it yet
    at,        \* where each worker is: "off", "select", "exec", "done", "exited"
    hand,      \* the work each worker has received last (a set, empty at first)
    executed,  \* history: the work whose Exec has returned
    wg,        \* the WaitGroup's counter
    wait,      \* the goroutine of Wait: "none", "waits", "closed" (its channel)
    cancelled  \* is the workers' context cancelled?

vars == <<added, sending, at, hand, executed, wg, wait, cancelled>>

Init ==
    /\ added = {} /\ sending = {} /\ executed = {} /\ wg = 0
    /\ at = [v \in Workers |-> "off"] /\ hand = [v \in Workers |-> {}]
    /\ wait = "none" /\ cancelled = FALSE
-----------------------------------------------------------------------------
MayAdd == wait = "none" \/ \E v \in Workers : at[v] = "exec"

\* Mutant: wg.Add(1) is left to the goroutine that sends, which comes late.
AddUncounted(w) ==
    /\ MayAdd /\ w \notin added
    /\ added' = added \cup {w} /\ sending' = sending \cup {w}
    /\ UNCHANGED <<at, hand, executed, wg, wait, cancelled>>

Add(w) ==
    /\ MayAdd /\ w \notin added
    /\ wg' = wg + 1
    /\ added' = added \cup {w} /\ sending' = sending \cup {w}
    /\ UNCHANGED <<at, hand, executed, wait, cancelled>>

Start ==
    /\ \A v \in Workers : at[v] = "off"
    /\ at' = [v \in Workers |-> "select"]
    /\ UNCHANGED <<added, sending, hand, executed, wg, wait, cancelled>>

\* The goroutine of Add sends what a worker receives.
Receive(v, w) ==
    /\ at[v] = "select" /\ w \in sending
    /\ at' = [at EXCEPT ![v] = "exec"] /\ hand' = [hand EXCEPT ![v] = {w}]
    /\ sending' = sending \ {w}
    /\ UNCHANGED <<added, executed, wg, wait, cancelled>>

\* doWork: Exec, then the deferred wg.Done().
Exec(v) ==
    /\ at[v] = "exec"
    /\ at' = [at EXCEPT ![v] = "done"] /\ executed' = executed \cup hand[v]
    /\ UNCHANGED <<added, sending, hand, wg, wait, cancelled>>

\* Mutant: the worker returns after it has done its work.
DoneOnce(v) ==
    /\ at[v] = "done"
    /\ at' = [at EXCEPT ![v] = "exited"] /\ wg' = wg - 1
    /\ UNCHANGED <<added, sending, hand, executed, wait, cancelled>>

Done(v) ==
    /\ at[v] = "done"
    /\ at' = [at EXCEPT ![v] = "select"] /\ wg' = wg - 1
    /\ UNCHANGED <<added, sending, hand, executed, wait, cancelled>>

Exit(v) ==
    /\ at[v] = "select" /\ cancelled
    /\ at' = [at EXCEPT ![v] = "exited"]
    /\ UNCHANGED <<added, sending, hand, executed, wg, wait, cancelled>>

Wait ==
    /\ wait = "none"
    /\ wait' = "waits"
    /\ UNCHANGED <<added, sending, at, hand, executed, wg, cancelled>>

Close ==
    /\ wait = "waits" /\ wg = 0
    /\ wait' = "closed"
    /\ UNCHANGED <<added, sending, at, hand, executed, wg, cancelled>>

Cancel ==
    /\ ~cancelled
    /\ cancelled' = TRUE
    /\ UNCHANGED <<added, sending, at, hand, executed, wg, wait>>

Step ==
    \/ \E v \in Workers : Exec(v) \/ Done(v) \/ Exit(v) \/ \E w \in Work : Receive(v, w)
    \/ Close

Next == Step \/ Start \/ Wait \/ Cancel \/ \E w \in Work : Add(w)

Spec == Init /\ [][Next]_vars /\ WF_vars(Step)
-----------------------------------------------------------------------------
(* Properties.                                                             *)

TypeOK ==
    /\ added \subseteq Work /\ sending \subseteq added /\ executed \subseteq added
    /\ at \in [Workers -> {"off", "select", "exec", "done", "exited"}]
    /\ hand \in [Workers -> SUBSET added]
    /\ wg \in Nat /\ wait \in {"none", "waits", "closed"} /\ cancelled \in BOOLEAN

\* "Wait returns a channel which is closed when the wait group is empty": it is
\* closed only when all work has been executed, also what other work added while
\* Wait was waiting.
AllDone == wait = "closed" => executed = added

\* The channel is closed in the end, once the workers have been started and
\* unless they are told to stop with work still to be received.
WaitAnswers ==
    (wait = "waits" /\ \E v \in Workers : at[v] # "off")
        ~> (wait = "closed" \/ cancelled)
=============================================================================
