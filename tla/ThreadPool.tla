----------------------------- MODULE ThreadPool -----------------------------
(***************************************************************************)
(* What the thread pool of src/src/executor.rs promises to its callers,    *)
(* with no mention of threads, counters or a condition variable: tasks are *)
(* started in the order in which they were submitted, each at most once,   *)
(* and never more than MaxWorkers of them are running at a time.           *)
(***************************************************************************)
EXTENDS Naturals, Sequences, FiniteSets

CONSTANTS Task,        \* the futures that may be handed to the pool
          MaxWorkers   \* how many tasks may be running at the same time

VARIABLES pending,     \* submitted and not yet started, oldest first
          running,     \* started and not yet over
          finished     \* over: completed, or ended by a panic

vars == <<pending, running, finished>>

Pending == {pending[i] : i \in DOMAIN pending}

Init == /\ pending = <<>>
        /\ running = {}
        /\ finished = {}

Submit(t) == /\ t \notin Pending \cup running \cup finished
             /\ pending' = Append(pending, t)
             /\ UNCHANGED <<running, finished>>

Start == /\ pending # <<>>
         /\ Cardinality(running) < MaxWorkers
         /\ pending' = Tail(pending)
         /\ running' = running \cup {Head(pending)}
         /\ UNCHANGED finished

Finish(t) == /\ t \in running
             /\ running' = running \ {t}
             /\ finished' = finished \cup {t}
             /\ UNCHANGED pending

Next == \/ \E t \in Task : Submit(t)
        \/ Start
        \/ \E t \in Task : Finish(t)

\* Safety: the order, the at-most-once guarantee and the limit.
Safe == Init /\ [][Next]_vars

\* Safety, and a pool that takes work whenever it has the capacity for it.
Spec == /\ Safe
        /\ WF_vars(Start)
        /\ \A t \in Task : WF_vars(Finish(t))
=============================================================================
