--------------------------- MODULE ExecutorProofs ---------------------------
(***************************************************************************)
(* Proofs about Executor, for any number of threads and tasks, any limit,  *)
(* and with failing spawns and panicking tasks where a theorem does not    *)
(* exclude them.                                                           *)
(***************************************************************************)
EXTENDS Executor, FiniteSetTheorems, SequenceTheorems, TLAPS

\* The counters cannot be shown to be counters without what they count: that
\* Retire does not take `idle` below zero rests on IdleAccounting, and that it
\* does not take `workers` below zero on SlotBound.
IInv == TypeOK /\ IdleAccounting /\ WakeupsCovered /\ SlotBound

-----------------------------------------------------------------------------
(* Counting threads. *)

\* Any set of threads picked by where they are can be counted.
LEMMA InFinite ==
  ASSUME NEW S
  PROVE  IsFiniteSet(In(S)) /\ Cardinality(In(S)) \in Nat
<1>1. In(S) \in SUBSET Worker
  BY DEF In
<1>2. IsFiniteSet(In(S))
  BY <1>1, FS_Subset, PoolAssumption DEF PoolAssumption
<1> QED
  BY <1>2, FS_CardinalityType

\* The number of threads in the states S, in the next state, and what it should
\* be after a step that does nothing but move w to `state`.
NextCount(S) == Cardinality({x \in Worker : pc'[x] \in S})

Recount(S, w, state) ==
  Cardinality(In(S)) + (IF state \in S THEN 1 ELSE 0) - (IF pc[w] \in S THEN 1 ELSE 0)

LEMMA MoveCounts ==
  ASSUME pc \in [Worker -> State], NEW w \in Worker, NEW state \in State,
         MoveTo(w, state), NEW S
  PROVE  NextCount(S) = Recount(S, w, state)
<1> DEFINE After == {x \in Worker : pc'[x] \in S}
<1>1. pc'[w] = state /\ \A x \in Worker : x # w => pc'[x] = pc[x]
  BY DEF MoveTo
<1>2. w \in In(S) <=> pc[w] \in S
  BY DEF In
<1> HIDE DEF After
<1>. IsFiniteSet(In(S)) /\ Cardinality(In(S)) \in Nat
  BY InFinite
<1>3. CASE state \in S
  <2>1. After = In(S) \cup {w}
    BY <1>1, <1>3 DEF In, After
  <2>2. Cardinality(After) = IF w \in In(S) THEN Cardinality(In(S)) ELSE Cardinality(In(S)) + 1
    BY <2>1, FS_AddElement
  <2> QED
    BY <1>2, <1>3, <2>2 DEF NextCount, Recount, After
<1>4. CASE state \notin S
  <2>1. After = In(S) \ {w}
    BY <1>1, <1>4 DEF In, After
  <2>2. Cardinality(After) = IF w \in In(S) THEN Cardinality(In(S)) - 1 ELSE Cardinality(In(S))
    BY <2>1, FS_RemoveElement
  <2> QED
    BY <1>2, <1>4, <2>2 DEF NextCount, Recount, After
<1> QED
  BY <1>3, <1>4

\* The same for the sets that Executor has a name for.
LEMMA StepCounts ==
  ASSUME pc \in [Worker -> State], NEW w \in Worker, NEW state \in State,
         MoveTo(w, state)
  PROVE  /\ Cardinality(Live)'   = Recount(State \ {"none"}, w, state)
         /\ Cardinality(Idlers)' = Recount({"waiting", "woken", "timedout"}, w, state)
         /\ Cardinality(Awake)'  = Recount({"woken", "timedout"}, w, state)
         /\ Cardinality(Ready)'  = Recount({"ready"}, w, state)
<1>1. /\ Cardinality(Live)'   = NextCount(State \ {"none"})
      /\ Cardinality(Idlers)' = NextCount({"waiting", "woken", "timedout"})
      /\ Cardinality(Awake)'  = NextCount({"woken", "timedout"})
      /\ Cardinality(Ready)'  = NextCount({"ready"})
  BY DEF Live, Idlers, Awake, Ready, In, NextCount
<1> QED
  BY <1>1, MoveCounts

\* And from a step that moves no thread at all.
LEMMA NoStepCounts ==
  ASSUME UNCHANGED pc
  PROVE  /\ Cardinality(Live)' = Cardinality(Live)
         /\ Cardinality(Idlers)' = Cardinality(Idlers)
         /\ Cardinality(Awake)' = Cardinality(Awake)
         /\ Cardinality(Ready)' = Cardinality(Ready)
BY DEF Live, Idlers, Awake, Ready, In

\* The counts are numbers, and a thread that is in a set is counted in it.
LEMMA CountsAreNats ==
  /\ Cardinality(Live) \in Nat /\ Cardinality(Idlers) \in Nat
  /\ Cardinality(Awake) \in Nat /\ Cardinality(Ready) \in Nat
BY InFinite DEF Live, Idlers, Awake, Ready

LEMMA Counted ==
  ASSUME NEW S, NEW w \in Worker, pc[w] \in S
  PROVE  Cardinality(In(S)) >= 1
<1>1. w \in In(S)
  BY DEF In
<1> QED
  BY <1>1, InFinite, FS_EmptySet

-----------------------------------------------------------------------------
(* The inductive invariant. *)

LEMMA InitEstablishes == Init => IInv
<1> SUFFICES ASSUME Init PROVE IInv
  OBVIOUS
<1>1. Live = {} /\ Idlers = {} /\ Awake = {}
  BY DEF Init, Live, Idlers, Awake, In, State
<1>2. TypeOK
  BY EmptySeq DEF Init, TypeOK, State
<1> QED
  BY <1>1, <1>2, FS_EmptySet, PoolAssumption
  DEF Init, IInv, IdleAccounting, WakeupsCovered, SlotBound, PoolAssumption

\* execute: whichever branch it takes, and whether or not the spawn succeeds.
LEMMA ExecutePreserves ==
  ASSUME IInv, NEW t \in Task, Execute(t)
  PROVE  IInv'
<1> USE CountsAreNats, PoolAssumption DEF PoolAssumption, IInv
<1>1. queue' \in Seq(Task) /\ submitted' \subseteq Task
  BY AppendProperties DEF Execute, TypeOK
<1>2. CASE SpawnWorker /\ UNCHANGED pc
  BY <1>1, <1>2, NoStepCounts
  DEF Execute, SpawnWorker, Spawn, TypeOK, IdleAccounting, WakeupsCovered, SlotBound
<1>3. ASSUME SpawnWorker, NEW w \in Worker, pc[w] = "none", MoveTo(w, "ready")
      PROVE  IInv'
  <2>1. TypeOK'
    BY <1>1, <1>3 DEF Execute, SpawnWorker, Spawn, TypeOK, MoveTo, State
  <2>2. /\ Cardinality(Live)' = Cardinality(Live) + 1
        /\ Cardinality(Idlers)' = Cardinality(Idlers)
        /\ Cardinality(Awake)' = Cardinality(Awake)
    BY <1>3, StepCounts DEF TypeOK, Recount, Live, Idlers, Awake, State
  <2> QED
    BY <1>3, <2>1, <2>2 DEF SpawnWorker, Spawn, TypeOK, IdleAccounting, WakeupsCovered,
                            SlotBound
<1>4. ASSUME WakeIdle, NEW w \in Worker, pc[w] = "waiting", MoveTo(w, "woken")
      PROVE  IInv'
  <2>1. TypeOK'
    BY <1>1, <1>4 DEF Execute, WakeIdle, TypeOK, MoveTo, State
  <2>2. /\ Cardinality(Live)' = Cardinality(Live)
        /\ Cardinality(Idlers)' = Cardinality(Idlers)
        /\ Cardinality(Awake)' = Cardinality(Awake) + 1
    BY <1>4, StepCounts DEF TypeOK, Recount, Live, Idlers, Awake, State
  <2> QED
    BY <1>4, <2>1, <2>2 DEF WakeIdle, TypeOK, IdleAccounting, WakeupsCovered, SlotBound
<1>5. CASE WakeIdle /\ In({"waiting"}) = {} /\ UNCHANGED pc
  \* Nobody is asleep, so everybody who is counted is awake already.
  <2>1. Idlers = Awake
    BY <1>5 DEF Idlers, Awake, In
  <2>2. TypeOK'
    BY <1>1, <1>5 DEF Execute, WakeIdle, TypeOK
  <2> QED
    BY <1>5, <2>1, <2>2, NoStepCounts
    DEF WakeIdle, TypeOK, IdleAccounting, WakeupsCovered, SlotBound
<1>6. CASE Saturated
  BY <1>1, <1>6, NoStepCounts
  DEF Execute, Saturated, TypeOK, IdleAccounting, WakeupsCovered, SlotBound
<1> QED
  BY <1>2, <1>3, <1>4, <1>5, <1>6 DEF Execute, SpawnWorker, Spawn, WakeIdle, NotifyOne, In

\* The head of the 'alive loop, as far as the types go.
LEMMA LoopHeadTypes ==
  ASSUME TypeOK, NEW w \in Worker, LoopHead(w)
  PROVE  /\ queue' \in Seq(Task)
         /\ pc' \in [Worker -> State]
         /\ task' \in [Worker -> Task \cup {NoTask}]
         /\ pc[w] # "running" =>
              \A x \in Worker : task'[x] # NoTask <=> pc'[x] = "running"
<1>1. CASE queue # <<>> /\ queue' = Tail(queue)
  <2>1. Head(queue) \in Task /\ Tail(queue) \in Seq(Task)
    BY <1>1, HeadTailProperties DEF TypeOK
  <2> QED
    BY <1>1, <2>1, PoolAssumption DEF LoopHead, Take, Wait, TypeOK, MoveTo, State,
                                      PoolAssumption
<1>2. CASE queue = <<>>
  BY <1>2 DEF LoopHead, Take, Wait, TypeOK, MoveTo, State
<1> QED
  BY <1>1, <1>2 DEF LoopHead, Take, Wait

\* What a worker thread does, asleep or not.
LEMMA WorkerPreserves ==
  ASSUME IInv, NEW w \in Worker, Proceed(w) \/ Timeout(w) \/ SpuriousWakeup(w)
  PROVE  IInv'
<1> USE CountsAreNats, PoolAssumption DEF PoolAssumption, IInv
<1> USE DEF TypeOK, State, Recount, Live, Idlers, Awake
<1>1. ASSUME Lock(w) PROVE IInv'
  <2>1. TypeOK'
    BY <1>1, LoopHeadTypes DEF Lock, LoopHead, Take, Wait
  <2>2. CASE MoveTo(w, "running") /\ UNCHANGED idle
    <3>1. /\ Cardinality(Live)' = Cardinality(Live)
          /\ Cardinality(Idlers)' = Cardinality(Idlers)
          /\ Cardinality(Awake)' = Cardinality(Awake)
      BY <1>1, <2>2, StepCounts DEF Lock
    <3> QED
      BY <1>1, <2>1, <2>2, <3>1 DEF Lock, IdleAccounting, WakeupsCovered, SlotBound
  <2>3. CASE MoveTo(w, "waiting") /\ idle' = idle + 1
    <3>1. /\ Cardinality(Live)' = Cardinality(Live)
          /\ Cardinality(Idlers)' = Cardinality(Idlers) + 1
          /\ Cardinality(Awake)' = Cardinality(Awake)
      BY <1>1, <2>3, StepCounts DEF Lock
    <3> QED
      BY <1>1, <2>1, <2>3, <3>1 DEF Lock, IdleAccounting, WakeupsCovered, SlotBound
  <2> QED
    BY <1>1, <2>2, <2>3 DEF Lock, LoopHead, Take, Wait
<1>2. CASE Complete(w)
  <2>1. TypeOK'
    BY <1>2 DEF Complete, EndTask, MoveTo
  <2> QED
    BY <1>2, <2>1, StepCounts DEF Complete, EndTask, IdleAccounting, WakeupsCovered, SlotBound
<1>3. CASE Panic(w)
  <2>1. TypeOK'
    BY <1>3 DEF Panic, EndTask, MoveTo
  <2> QED
    BY <1>3, <2>1, StepCounts DEF Panic, EndTask, IdleAccounting, WakeupsCovered, SlotBound
<1>4. CASE Timeout(w)
  <2>1. TypeOK'
    BY <1>4 DEF Timeout, Shift, MoveTo
  <2> QED
    BY <1>4, <2>1, StepCounts DEF Timeout, Shift, IdleAccounting, WakeupsCovered, SlotBound
<1>5. CASE SpuriousWakeup(w)
  <2>1. TypeOK'
    BY <1>5 DEF SpuriousWakeup, Shift, MoveTo
  <2> QED
    BY <1>5, <2>1, StepCounts DEF SpuriousWakeup, Shift, IdleAccounting, WakeupsCovered,
                                  SlotBound
<1>6. CASE Claim(w)
  <2>1. TypeOK'
    BY <1>6, LoopHeadTypes DEF Claim, UseNotification, LoopHead, Take, Wait
  <2>2. CASE MoveTo(w, "running") /\ UNCHANGED idle
    <3>1. /\ Cardinality(Live)' = Cardinality(Live)
          /\ Cardinality(Idlers)' = Cardinality(Idlers) - 1
          /\ Cardinality(Awake)' = Cardinality(Awake) - 1
      BY <1>6, <2>2, StepCounts DEF Claim, UseNotification
    <3> QED
      BY <1>6, <2>1, <2>2, <3>1 DEF Claim, UseNotification, IdleAccounting, WakeupsCovered,
                                    SlotBound
  <2>3. CASE MoveTo(w, "waiting") /\ idle' = idle + 1
    <3>1. /\ Cardinality(Live)' = Cardinality(Live)
          /\ Cardinality(Idlers)' = Cardinality(Idlers)
          /\ Cardinality(Awake)' = Cardinality(Awake) - 1
      BY <1>6, <2>3, StepCounts DEF Claim, UseNotification
    <3> QED
      BY <1>6, <2>1, <2>3, <3>1 DEF Claim, UseNotification, IdleAccounting, WakeupsCovered,
                                    SlotBound
  <2> QED
    BY <1>6, <2>2, <2>3 DEF Claim, UseNotification, LoopHead, Take, Wait
<1>7. CASE Retire(w)
  \* No notification is outstanding, so the thread is itself one of `idle`.
  <2>1. Cardinality(Live) >= 1 /\ Cardinality(Idlers) >= 1
    BY <1>7, Counted DEF Retire, EndThread
  <2>2. idle >= 1 /\ workers >= 1
    BY <1>7, <2>1 DEF Retire, EndThread, IdleAccounting, SlotBound
  <2>3. TypeOK'
    BY <1>7, <2>2 DEF Retire, EndThread, MoveTo
  <2>4. /\ Cardinality(Live)' = Cardinality(Live) - 1
        /\ Cardinality(Idlers)' = Cardinality(Idlers) - 1
        /\ Cardinality(Awake)' = Cardinality(Awake) - 1
    BY <1>7, StepCounts DEF Retire, EndThread
  <2>5. Cardinality(Awake) >= 1
    BY <1>7, Counted DEF Retire, EndThread
  <2> QED
    BY <1>7, <2>2, <2>3, <2>4, <2>5 DEF Retire, EndThread, IdleAccounting, WakeupsCovered,
                                        SlotBound
<1>8. CASE WaitAgain(w)
  <2>1. TypeOK'
    BY <1>8 DEF WaitAgain, Shift, MoveTo
  <2>2. /\ Cardinality(Live)' = Cardinality(Live)
        /\ Cardinality(Idlers)' = Cardinality(Idlers)
        /\ Cardinality(Awake)' = Cardinality(Awake) - 1
    BY <1>8, StepCounts DEF WaitAgain, Shift
  <2>3. Cardinality(Awake) >= 1
    BY <1>8, Counted DEF WaitAgain, Shift
  <2> QED
    BY <1>8, <2>1, <2>2, <2>3 DEF WaitAgain, Shift, IdleAccounting, WakeupsCovered, SlotBound
<1> QED
  BY <1>1, <1>2, <1>3, <1>4, <1>5, <1>6, <1>7, <1>8 DEF Proceed

LEMMA NextPreserves == IInv /\ [Next]_vars => IInv'
<1> SUFFICES ASSUME IInv, [Next]_vars PROVE IInv'
  OBVIOUS
<1>1. ASSUME NEW t \in Task, Execute(t) PROVE IInv'
  BY <1>1, ExecutePreserves
<1>2. ASSUME NEW w \in Worker, Proceed(w) \/ Timeout(w) \/ SpuriousWakeup(w) PROVE IInv'
  BY <1>2, WorkerPreserves
<1>3. CASE UNCHANGED vars
  BY <1>3, NoStepCounts DEF vars, IInv, TypeOK, IdleAccounting, WakeupsCovered, SlotBound
<1> QED
  BY <1>1, <1>2, <1>3 DEF Next

\* Whatever fails: the counters are counters (no decrement of a usize goes below
\* zero, with the mutex held), they account for every idle thread, no wake-up is
\* lost, and the pool never outgrows its limit.
THEOREM Invariance == Spec => []IInv
BY InitEstablishes, NextPreserves, PTL DEF Spec

THEOREM TypeCorrect == Spec => []TypeOK
BY Invariance, PTL DEF IInv

\* executor.rs:161-163, 202, 212-213, 223-224.
THEOREM IdleThreadsAccounted == Spec => []IdleAccounting
BY Invariance, PTL DEF IInv

\* executor.rs:161-164.
THEOREM NoNotificationLost == Spec => []WakeupsCovered
BY Invariance, PTL DEF IInv

\* executor.rs:157-160, 223.
THEOREM PoolBounded == Spec => []SlotBound
BY Invariance, PTL DEF IInv

-----------------------------------------------------------------------------
(* What holds when threads can be spawned. *)

\* The head of the 'alive loop uses up a task or finds none.
LEMMA LoopHeadQueue ==
  ASSUME TypeOK, NEW w \in Worker, LoopHead(w)
  PROVE  \/ /\ MoveTo(w, "running")
            /\ Len(queue') = Len(queue) - 1
            /\ UNCHANGED idle
         \/ /\ MoveTo(w, "waiting")
            /\ queue' = <<>> /\ Len(queue') = 0
BY HeadTailProperties, EmptySeq DEF LoopHead, Take, Wait, TypeOK

LEMMA WorkConservingPreserved ==
  ASSUME ~SpawnMayFail, IInv, IInv', WorkConserving, [Next]_vars
  PROVE  WorkConserving'
<1> USE CountsAreNats, PoolAssumption DEF PoolAssumption, IInv
<1> USE DEF TypeOK, State, WorkConserving, Recount, Ready
<1>a. Len(queue) \in Nat /\ Len(queue') \in Nat
  BY LenProperties
<1>b. Cardinality(Ready)' \in Nat
  <2>1. Ready' \in SUBSET Worker
    BY DEF In
  <2> QED
    BY <2>1, FS_Subset, FS_CardinalityType
<1> USE <1>a, <1>b
<1>1. ASSUME NEW t \in Task, Execute(t) PROVE WorkConserving'
  <2>1. Len(queue') = Len(queue) + 1
    BY <1>1, AppendProperties DEF Execute
  <2>2. ASSUME SpawnWorker, NEW w \in Worker, pc[w] = "none", MoveTo(w, "ready")
        PROVE  WorkConserving'
    <3>1. Cardinality(Ready)' = Cardinality(Ready) + 1
      BY <2>2, StepCounts
    <3> QED
      BY <2>1, <2>2, <3>1 DEF SpawnWorker, Spawn
  <2>3. CASE WakeIdle
    <3>1. ASSUME NEW w \in Worker, pc[w] = "waiting", MoveTo(w, "woken")
          PROVE  Cardinality(Ready)' = Cardinality(Ready)
      <4>1. Cardinality(Ready)' = Recount({"ready"}, w, "woken")
        BY <3>1, StepCounts
      <4> QED
        BY <3>1, <4>1
    <3>2. Cardinality(Ready)' = Cardinality(Ready)
      BY <2>3, <3>1, NoStepCounts DEF WakeIdle, NotifyOne, In
    <3> QED
      BY <2>1, <2>3, <3>2 DEF WakeIdle
  <2>4. CASE Saturated
    BY <2>4 DEF Saturated
  <2> QED
    BY <1>1, <2>2, <2>3, <2>4 DEF Execute, SpawnWorker, Spawn
<1>2. ASSUME NEW w \in Worker, Proceed(w) \/ Timeout(w) \/ SpuriousWakeup(w)
      PROVE  WorkConserving'
  <2>1. CASE Lock(w)
    <3>1. CASE MoveTo(w, "running")
      <4>1. Cardinality(Ready)' = Cardinality(Ready) - 1
        BY <2>1, <3>1, StepCounts DEF Lock
      <4>2. pc'[w] = "running"
        BY <3>1 DEF MoveTo
      <4>3. Len(queue') = Len(queue) - 1 /\ UNCHANGED idle
        BY <2>1, <4>2, LoopHeadQueue DEF Lock, MoveTo
      <4>4. UNCHANGED <<notified, workers>>
        BY <2>1 DEF Lock
      <4> QED
        BY <4>1, <4>3, <4>4
    <3>2. CASE Len(queue') = 0
      BY <3>2
    <3> QED
      BY <2>1, <3>1, <3>2, LoopHeadQueue DEF Lock
  <2>2. CASE Claim(w)
    <3>1. CASE MoveTo(w, "running")
      <4>1. Cardinality(Ready)' = Cardinality(Ready)
        <5>1. pc[w] # "ready"
          BY <2>2 DEF Claim, UseNotification
        <5> QED
          BY <3>1, <5>1, StepCounts
      <4>2. pc'[w] = "running"
        BY <3>1 DEF MoveTo
      <4>3. Len(queue') = Len(queue) - 1 /\ UNCHANGED idle
        BY <2>2, <4>2, LoopHeadQueue DEF Claim, UseNotification, MoveTo
      <4> QED
        BY <2>2, <4>1, <4>3 DEF Claim, UseNotification
    <3>2. CASE Len(queue') = 0
      BY <3>2
    <3> QED
      BY <2>2, <3>1, <3>2, LoopHeadQueue DEF Claim, UseNotification
  <2>3. CASE Complete(w)
    <3>1. Cardinality(Ready)' = Cardinality(Ready) + 1
      BY <2>3, StepCounts DEF Complete, EndTask
    <3> QED
      BY <2>3, <3>1 DEF Complete, EndTask
  <2>4. CASE Retire(w)
    <3>1. Cardinality(Ready)' = Cardinality(Ready)
      BY <2>4, StepCounts DEF Retire, EndThread
    <3>2. Cardinality(Idlers) >= 1
      BY <2>4, Counted DEF Retire, EndThread, Idlers
    <3>3. idle >= 1
      BY <2>4, <3>2 DEF Retire, EndThread, IdleAccounting
    <3>4. Len(queue) <= notified + Cardinality(Ready)
      BY <3>3
    <3> QED
      BY <2>4, <3>1, <3>4 DEF Retire, EndThread
  <2>5. CASE Panic(w) \/ WaitAgain(w) \/ Timeout(w) \/ SpuriousWakeup(w)
    <3>1. Cardinality(Ready)' = Cardinality(Ready)
      BY <2>5, StepCounts DEF Panic, EndTask, WaitAgain, Shift, Timeout, SpuriousWakeup
    <3> QED
      BY <2>5, <3>1 DEF Panic, EndTask, WaitAgain, Shift, Timeout, SpuriousWakeup
  <2> QED
    BY <1>2, <2>1, <2>2, <2>3, <2>4, <2>5 DEF Proceed
<1>3. CASE UNCHANGED vars
  BY <1>3, NoStepCounts DEF vars
<1> QED
  BY <1>1, <1>2, <1>3 DEF Next

\* "This will either wake up an idle worker or spawn a new one if needed"
\* (executor.rs:147): as long as threads can be spawned, a task is left in the queue
\* without a thread on its way to it only in a pool with nobody idle and no place free.
THEOREM TasksAreServed ==
  ASSUME ~SpawnMayFail
  PROVE  Spec => []WorkConserving
<1>1. Init => WorkConserving
  BY InFinite, EmptySeq, PoolAssumption DEF Init, WorkConserving, Ready, PoolAssumption
<1>2. IInv /\ IInv' /\ WorkConserving /\ [Next]_vars => WorkConserving'
  BY WorkConservingPreserved
<1> QED
  BY <1>1, <1>2, Invariance, PTL DEF Spec

\* "Current number of worker threads" (executor.rs:94): `workers` is that, unless a
\* spawn fails or a task panics.
THEOREM WorkersAreCounted ==
  ASSUME ~SpawnMayFail, Panicking = {}
  PROVE  Spec => []SlotsMatchThreads
<1> USE CountsAreNats DEF SlotsMatchThreads
<1>1. Init => SlotsMatchThreads
  <2> SUFFICES ASSUME Init PROVE SlotsMatchThreads
    OBVIOUS
  <2>1. Live = {}
    BY DEF Init, Live, In, State
  <2> QED
    BY <2>1, FS_EmptySet DEF Init
<1>2. ASSUME IInv, SlotsMatchThreads, [Next]_vars
      PROVE  SlotsMatchThreads'
  <2> USE <1>2 DEF IInv, TypeOK, State, Recount, Live
  <2>1. CASE UNCHANGED workers /\ UNCHANGED pc
    BY <2>1, NoStepCounts
  <2>2. ASSUME NEW w \in Worker, NEW state \in State \ {"none"}, pc[w] # "none",
               MoveTo(w, state), UNCHANGED workers
        PROVE  SlotsMatchThreads'
    <3>1. Cardinality(Live)' = Recount(State \ {"none"}, w, state)
      BY <2>2, StepCounts
    <3> QED
      BY <2>2, <3>1
  <2>3. ASSUME NEW w \in Worker, pc[w] = "none", MoveTo(w, "ready"), workers' = workers + 1
        PROVE  SlotsMatchThreads'
    <3>1. Cardinality(Live)' = Recount(State \ {"none"}, w, "ready")
      BY <2>3, StepCounts
    <3> QED
      BY <2>3, <3>1
  <2>4. ASSUME NEW w \in Worker, Retire(w)
        PROVE  SlotsMatchThreads'
    <3>1. Cardinality(Live)' = Recount(State \ {"none"}, w, "none")
      BY <2>4, StepCounts DEF Retire, EndThread
    <3> QED
      BY <2>4, <3>1 DEF Retire, EndThread
  <2>5. ASSUME NEW t \in Task, Execute(t)
        PROVE  SlotsMatchThreads'
    BY <2>1, <2>2, <2>3, <2>5
    DEF Execute, SpawnWorker, Spawn, WakeIdle, NotifyOne, Saturated, In
  <2>6. ASSUME NEW w \in Worker,
               Lock(w) \/ Claim(w) \/ Complete(w) \/ WaitAgain(w)
                 \/ Timeout(w) \/ SpuriousWakeup(w)
        PROVE  SlotsMatchThreads'
    BY <2>2, <2>6
    DEF Lock, Claim, UseNotification, LoopHead, Take, Wait, Complete, EndTask, WaitAgain,
        Shift, Timeout, SpuriousWakeup
  <2> QED
    BY <2>1, <2>4, <2>5, <2>6 DEF Next, Proceed, Panic, EndTask, vars
<1> QED
  BY <1>1, <1>2, Invariance, PTL DEF Spec
=============================================================================
