------------------------------ MODULE Executor ------------------------------
(***************************************************************************)
(* The thread pool of src/src/executor.rs: Executor::execute, the worker   *)
(* loop Inner::run, and the mutex-protected counters they share.           *)
(*                                                                         *)
(* One action is one critical section of the mutex `shared`: everything    *)
(* between taking the lock and giving it up, by dropping the guard or by   *)
(* waiting on the condition variable.  Nothing reads or writes the shared  *)
(* fields without the lock, so no finer interleaving can be observed.      *)
(*                                                                         *)
(* The condition variable is its wait set: the threads whose pc is         *)
(* "waiting".  A thread leaves it because it was notified or woke          *)
(* spuriously ("woken") or because the keep-alive ran out ("timedout"),    *)
(* and only then competes for the mutex again; wait_timeout returns, and   *)
(* the worker decides what to do, when it has got it.                      *)
(***************************************************************************)
EXTENDS Integers, Sequences, FiniteSets

CONSTANTS Worker,        \* identities for worker threads, reused after a thread is gone
          Task,          \* the futures handed to execute, each of them once
          NoTask,        \* what a thread runs that runs no task
          MaxWorkers,    \* Inner::max_workers
          SpawnMayFail,  \* may thread::Builder::spawn return an error?
          Panicking      \* the tasks whose future may panic while it is polled

\* The pool accepts any limit, 0 included.  There are as many thread identities
\* as threads the pool may have, so that running out of them never is what
\* keeps the model from spawning.
ASSUME PoolAssumption ==
  /\ IsFiniteSet(Worker)
  /\ NoTask \notin Task
  /\ MaxWorkers \in Nat
  /\ MaxWorkers <= Cardinality(Worker)
  /\ SpawnMayFail \in BOOLEAN
  /\ Panicking \subseteq Task

VARIABLES queue,       \* Shared::queue, oldest task first
          workers,     \* Shared::workers
          idle,        \* Shared::idle
          notified,    \* Shared::notified
          pc,          \* where each worker thread is
          task,        \* the task each worker thread is running
          submitted,   \* the tasks handed to execute so far
          finished     \* the tasks that completed or panicked

vars == <<queue, workers, idle, notified, pc, task, submitted, finished>>

\* "none"     there is no such thread
\* "ready"    about to lock `shared` at the head of the 'alive loop
\* "running"  in block_on of a task, without the lock
\* "waiting"  asleep in the wait set of the condition variable
\* "woken"    out of the wait set, not by timeout, and about to lock
\* "timedout" out of the wait set by timeout, and about to lock
State == {"none", "ready", "running", "waiting", "woken", "timedout"}

-----------------------------------------------------------------------------
(* Sets of threads the properties count. *)

In(S) == {w \in Worker : pc[w] \in S}

Live   == In(State \ {"none"})                  \* the threads there are
Idlers == In({"waiting", "woken", "timedout"})  \* inside the waiting loop
Awake  == In({"woken", "timedout"})             \* ... and out of the wait set
Ready  == In({"ready"})
Active == In({"running"})

Running == {task[w] : w \in Active}

\* Sequences of tasks, as sets and as sequences without repetition.
Elems(q)    == {q[i] : i \in DOMAIN q}
Distinct(q) == \A i, j \in DOMAIN q : q[i] = q[j] => i = j

-----------------------------------------------------------------------------
Init == /\ queue = <<>>
        /\ workers = 0
        /\ idle = 0
        /\ notified = 0
        /\ pc = [w \in Worker |-> "none"]
        /\ task = [w \in Worker |-> NoTask]
        /\ submitted = {}
        /\ finished = {}

MoveTo(w, state) == pc' = [pc EXCEPT ![w] = state]

-----------------------------------------------------------------------------
(* Executor::execute. *)

\* Nobody is idle and the pool may grow; the thread may be spawned, or not.
Spawn ==
  /\ idle = 0
  /\ workers # MaxWorkers
  /\ \/ \E w \in Worker : pc[w] = "none" /\ MoveTo(w, "ready")
     \/ SpawnMayFail /\ UNCHANGED pc
  /\ UNCHANGED <<idle, notified>>

\* SpawnWorker with a bug: the thread is not counted.
SpawnUncounted == Spawn /\ UNCHANGED workers

\* When the thread cannot be spawned the error leaves the closure through `?` and is
\* logged: the counter stays.
SpawnWorker == Spawn /\ workers' = workers + 1

\* NotifyOne with a bug: the call is missing.
NotifyNobody == UNCHANGED pc

\* Condvar::notify_one: some thread of the wait set, if there is one.
NotifyOne ==
  \/ \E w \in In({"waiting"}) : MoveTo(w, "woken")
  \/ In({"waiting"}) = {} /\ UNCHANGED pc

WakeIdle ==
  /\ idle > 0
  /\ idle' = idle - 1
  /\ notified' = notified + 1
  /\ NotifyOne
  /\ UNCHANGED workers

\* Neither branch of the `if`: the task waits for a busy worker.
Saturated ==
  /\ idle = 0
  /\ workers = MaxWorkers
  /\ UNCHANGED <<workers, idle, notified, pc>>

Execute(t) ==
  /\ t \notin submitted
  /\ submitted' = submitted \cup {t}
  /\ queue' = Append(queue, t)
  /\ SpawnWorker \/ WakeIdle \/ Saturated
  /\ UNCHANGED <<task, finished>>

-----------------------------------------------------------------------------
(* Inner::run. *)

Wait(w) ==
  /\ idle' = idle + 1
  /\ MoveTo(w, "waiting")
  /\ UNCHANGED <<queue, task>>

Take(w, t, rest) ==
  /\ queue # <<>>
  /\ queue' = rest
  /\ task' = [task EXCEPT ![w] = t]
  /\ MoveTo(w, "running")
  /\ UNCHANGED idle

\* LoopHead with a bug: the worker waits before it looks at the queue.
SleepFirst(w) == Wait(w)

\* LoopHead with a bug: the newest task is taken (pop_back).
TakeNewest(w) == \/ Take(w, queue[Len(queue)], SubSeq(queue, 1, Len(queue) - 1))
                 \/ queue = <<>> /\ Wait(w)

\* LoopHead with a bug: the task is looked at but left in the queue (front).
TakeWithoutPop(w) == Take(w, Head(queue), queue) \/ (queue = <<>> /\ Wait(w))

\* The head of the 'alive loop, with the lock held: take the oldest task, or
\* count as idle and wait.
LoopHead(w) == Take(w, Head(queue), Tail(queue)) \/ (queue = <<>> /\ Wait(w))

\* A new thread, or one that has just finished a task, gets the lock.
Lock(w) == /\ pc[w] = "ready"
           /\ LoopHead(w)
           /\ UNCHANGED <<workers, notified, submitted, finished>>

\* The task is over, without the lock.
EndTask(w, state) == /\ pc[w] = "running"
                     /\ finished' = finished \cup {task[w]}
                     /\ task' = [task EXCEPT ![w] = NoTask]
                     /\ MoveTo(w, state)
                     /\ UNCHANGED <<queue, workers, idle, notified, submitted>>

\* parker.block_on returns.
Complete(w) == EndTask(w, "ready")

\* The future panics.  Nothing catches it: the thread unwinds out of run and is
\* gone, without giving back its place in `workers`.
Panic(w) == task[w] \in Panicking /\ EndTask(w, "none")

\* A thread moves between the wait set and the way out of it.
Shift(w, from, to) == /\ pc[w] = from
                      /\ MoveTo(w, to)
                      /\ UNCHANGED <<queue, workers, idle, notified, task, submitted, finished>>

\* It leaves the wait set: the keep-alive has passed, or no reason at all.
Timeout(w)        == Shift(w, "waiting", "timedout")
SpuriousWakeup(w) == Shift(w, "waiting", "woken")

\* wait_timeout returns with the lock, and a notification is used up.
UseNotification(w) == /\ pc[w] \in {"woken", "timedout"}
                      /\ notified' = notified - 1
                      /\ LoopHead(w)
                      /\ UNCHANGED <<workers, submitted, finished>>

\* Claim with a bug: a wake-up is taken for a notification without looking.
ClaimUnchecked(w) == UseNotification(w)

\* There is one, the thread's own or that of another: the loop goes on, timed out
\* or not.
Claim(w) == notified # 0 /\ UseNotification(w)

\* wait_timeout returns, timed out, and there is no notification: the thread ends.
EndThread(w) == /\ pc[w] = "timedout"
                /\ notified = 0
                /\ MoveTo(w, "none")
                /\ UNCHANGED <<queue, notified, task, submitted, finished>>

\* Retire with a bug: the thread goes on being counted as idle.
RetireStillIdle(w) == EndThread(w) /\ workers' = workers - 1 /\ UNCHANGED idle

\* Retire with a bug: its place is not given back.
RetireKeepsSlot(w) == EndThread(w) /\ idle' = idle - 1 /\ UNCHANGED workers

\* Retire with a bug: the last thread never ends.
RetireButOne(w) == EndThread(w) /\ workers > 1 /\ workers' = workers - 1 /\ idle' = idle - 1

Retire(w) == EndThread(w) /\ workers' = workers - 1 /\ idle' = idle - 1

\* It returns for no reason: wait again, for a whole keep-alive.
WaitAgain(w) == notified = 0 /\ Shift(w, "woken", "waiting")

\* The steps a thread takes that is not asleep.
Proceed(w) == Lock(w) \/ Complete(w) \/ Panic(w) \/ Claim(w) \/ Retire(w) \/ WaitAgain(w)

Next == \/ \E t \in Task : Execute(t)
        \/ \E w \in Worker : Proceed(w) \/ Timeout(w) \/ SpuriousWakeup(w)

-----------------------------------------------------------------------------
Spec == Init /\ [][Next]_vars

\* The operating system runs every thread that can run, the mutex is handed to
\* everyone who asks for it, and every task comes to an end.  Nothing is said of
\* the keep-alive: it may be as long as you like.
FairSpec == Spec /\ \A w \in Worker : WF_vars(Proceed(w))

\* The keep-alive does run out in the end, even for a thread that wakes up
\* spuriously now and then and starts to wait afresh.
KeepAliveEnds == \A w \in Worker : SF_vars(Timeout(w))

-----------------------------------------------------------------------------
(* Properties. *)

\* The counters are counters: in particular the two decrements at the end of
\* run and the one in execute never take a usize below zero (which would panic
\* with the mutex held, and poison it for good).
TypeOK ==
  /\ queue \in Seq(Task)
  /\ workers \in Nat
  /\ idle \in Nat
  /\ notified \in Nat
  /\ pc \in [Worker -> State]
  /\ task \in [Worker -> Task \cup {NoTask}]
  /\ \A w \in Worker : task[w] # NoTask <=> pc[w] = "running"
  /\ submitted \subseteq Task
  /\ finished \subseteq Task

\* `idle` and `notified` together count the threads in the waiting loop: execute
\* moves one unit from `idle` to `notified` on behalf of a thread it cannot name,
\* and whichever thread comes first takes that unit, so the sum must match at any
\* moment between the two (executor.rs:161-163, 202, 212-213, 223-224).
IdleAccounting == idle + notified = Cardinality(Idlers)

\* No notification is lost: for every one outstanding there is a thread out of
\* the wait set that will look at `notified` before it can wait or retire, even
\* when timeouts and spurious wakeups race with notify_one (executor.rs:161-164).
WakeupsCovered == notified <= Cardinality(Awake)

\* There are never more threads than places taken, nor places than allowed,
\* whatever fails (executor.rs:157-160, 223).
SlotBound == Cardinality(Live) <= workers /\ workers <= MaxWorkers

\* A place is taken exactly by the threads there are: "Current number of worker
\* threads" (executor.rs:94).
SlotsMatchThreads == workers = Cardinality(Live)

\* "This will either wake up an idle worker or spawn a new one if needed"
\* (executor.rs:147): tasks are left in the queue without a thread on its way to
\* them only when every place is taken and nobody is idle.
WorkConserving ==
  Len(queue) > notified + Cardinality(Ready) => idle = 0 /\ workers = MaxWorkers

\* No task is lost and none is run twice: each one submitted is in the queue, or
\* with one thread, or over, whatever fails (executor.rs:155, 194-195).
OnePlacePerTask ==
  /\ submitted = Elems(queue) \cup Running \cup finished
  /\ Elems(queue) \cap (Running \cup finished) = {} /\ Running \cap finished = {}
  /\ Distinct(queue)
  /\ \A v, w \in Active : task[v] = task[w] => v = w

\* Every task submitted is started, without any help from the keep-alive: no
\* order of notifications, timeouts and completions strands it in the queue.
EveryTaskStarts == \A t \in Task : t \in submitted ~> t \in Running \cup finished

\* A pool with nothing to do gives all of its threads back, if the keep-alive ever
\* ends (executor.rs:70, 181).
IdleWorkersRetire ==
  KeepAliveEnds => (Task \subseteq submitted) ~> [](Live = {} /\ workers = 0)

\* The pool is a ThreadPool: tasks start in submission order, once, and at most
\* MaxWorkers of them at a time.
Pool == INSTANCE ThreadPool WITH pending <- queue, running <- Running
PoolSafe == Pool!Safe
PoolSpec == Pool!Spec
=============================================================================
