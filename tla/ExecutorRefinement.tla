------------------------- MODULE ExecutorRefinement -------------------------
(***************************************************************************)
(* Proof that the thread pool of Executor implements ThreadPool: whatever  *)
(* fails, tasks are started in the order of their submission, each of them *)
(* once, and at most MaxWorkers of them run at a time.                     *)
(***************************************************************************)
EXTENDS ExecutorProofs

-----------------------------------------------------------------------------
(* The queue as a set. *)

LEMMA AppendElems ==
  ASSUME NEW q \in Seq(Task), NEW t \in Task
  PROVE  /\ Elems(Append(q, t)) = Elems(q) \cup {t}
         /\ Distinct(q) /\ t \notin Elems(q) => Distinct(Append(q, t))
<1>1. /\ Append(q, t) \in Seq(Task)
      /\ Len(Append(q, t)) = Len(q) + 1
      /\ \A i \in 1..Len(q) : Append(q, t)[i] = q[i]
      /\ Append(q, t)[Len(q) + 1] = t
  BY AppendProperties
<1>2. /\ DOMAIN q = 1..Len(q) /\ Len(q) \in Nat
      /\ DOMAIN Append(q, t) = 1..(Len(q) + 1)
  BY <1>1, LenProperties
<1>3. \A i \in 1..(Len(q) + 1) : i \in 1..Len(q) \/ i = Len(q) + 1
  BY <1>2
<1>4. Elems(Append(q, t)) = Elems(q) \cup {t}
  BY <1>1, <1>2, <1>3 DEF Elems
<1>5. Distinct(q) /\ t \notin Elems(q) => Distinct(Append(q, t))
  BY <1>1, <1>2, <1>3 DEF Elems, Distinct
<1> QED
  BY <1>4, <1>5

LEMMA TailElems ==
  ASSUME NEW q \in Seq(Task), q # <<>>, Distinct(q)
  PROVE  /\ Head(q) \in Elems(q)
         /\ Elems(Tail(q)) = Elems(q) \ {Head(q)}
         /\ Distinct(Tail(q))
<1>1. /\ Tail(q) \in Seq(Task)
      /\ Len(Tail(q)) = Len(q) - 1
      /\ \A i \in 1..Len(Tail(q)) : Tail(q)[i] = q[i + 1]
  BY HeadTailProperties
<1>2. /\ DOMAIN q = 1..Len(q) /\ Len(q) \in Nat \ {0}
      /\ DOMAIN Tail(q) = 1..(Len(q) - 1)
  BY <1>1, LenProperties, EmptySeq
<1>3. Head(q) = q[1] /\ 1 \in DOMAIN q
  BY <1>2
<1>4. \A i \in 1..(Len(q) - 1) : i + 1 \in DOMAIN q /\ i + 1 # 1 /\ Tail(q)[i] = q[i + 1]
  BY <1>1, <1>2
<1>5. \A i \in DOMAIN q : i = 1 \/ (i - 1 \in 1..(Len(q) - 1) /\ Tail(q)[i - 1] = q[i])
  BY <1>1, <1>2
<1>6. Elems(Tail(q)) \subseteq Elems(q) \ {Head(q)}
  BY <1>2, <1>3, <1>4 DEF Elems, Distinct
<1>7. Elems(q) \ {Head(q)} \subseteq Elems(Tail(q))
  BY <1>2, <1>3, <1>5 DEF Elems
<1>8. Distinct(Tail(q))
  BY <1>2, <1>4 DEF Distinct
<1> QED
  BY <1>3, <1>6, <1>7, <1>8 DEF Elems

-----------------------------------------------------------------------------
(* The running tasks. *)

\* A thread that neither starts nor ends a task changes nothing.
LEMMA RunningKept ==
  ASSUME TypeOK, UNCHANGED task,
         UNCHANGED pc \/ \E w \in Worker, state \in State \ {"running"} :
                           pc[w] # "running" /\ MoveTo(w, state)
  PROVE  Running' = Running /\ Active' = Active
<1>1. Active' = Active
  BY DEF Active, In, MoveTo, TypeOK
<1> QED
  BY <1>1 DEF Running

LEMMA RunningGains ==
  ASSUME TypeOK, NEW w \in Worker, NEW t, pc[w] # "running", MoveTo(w, "running"),
         task' = [task EXCEPT ![w] = t]
  PROVE  Running' = Running \cup {t} /\ Active' = Active \cup {w} /\ w \notin Active
<1>1. Active' = Active \cup {w} /\ w \notin Active
  BY DEF Active, In, MoveTo, TypeOK
<1>2. task'[w] = t /\ \A x \in Active : task'[x] = task[x]
  BY <1>1 DEF TypeOK, Active, In
<1> QED
  BY <1>1, <1>2 DEF Running

LEMMA RunningLoses ==
  ASSUME TypeOK, NEW w \in Worker, NEW state \in State \ {"running"},
         pc[w] = "running", MoveTo(w, state), task' = [task EXCEPT ![w] = NoTask],
         \A v, x \in Active : task[v] = task[x] => v = x
  PROVE  /\ Running' = Running \ {task[w]} /\ task[w] \in Running
         /\ Active' = Active \ {w}
         /\ \A x \in Active' : task'[x] = task[x]
<1>1. Active' = Active \ {w} /\ w \in Active
  BY DEF Active, In, MoveTo, TypeOK
<1>2. \A x \in Active' : task'[x] = task[x]
  BY <1>1 DEF TypeOK, Active, In
<1> QED
  BY <1>1, <1>2 DEF Running

\* A thread that is about to start a task is not running one: there is room.
LEMMA RoomToStart ==
  ASSUME IInv, NEW w \in Worker, pc[w] \notin {"none", "running"}
  PROVE  Cardinality(Running) \in Nat /\ Cardinality(Running) < MaxWorkers
<1> USE PoolAssumption DEF PoolAssumption
<1>1. w \in Live /\ w \notin Active /\ Active \subseteq Live
  BY DEF Live, Active, In, State, IInv, TypeOK
<1>2. IsFiniteSet(Live) /\ Cardinality(Live) \in Nat
  BY InFinite DEF Live
<1>3. IsFiniteSet(Active) /\ Cardinality(Active) \in Nat
  BY InFinite DEF Active
<1>4. Cardinality(Active) < Cardinality(Live)
  BY <1>1, <1>2, <1>3, FS_Subset
<1>5. IsFiniteSet(Running) /\ Cardinality(Running) <= Cardinality(Active)
  <2>1. [x \in Active |-> task[x]] \in Surjection(Active, Running)
    BY DEF Surjection, Running
  <2> QED
    BY <1>3, <2>1, FS_Surjection
<1>6. Cardinality(Running) \in Nat
  BY <1>5, FS_CardinalityType
<1> QED
  BY <1>2, <1>3, <1>4, <1>5, <1>6 DEF IInv, TypeOK, SlotBound

-----------------------------------------------------------------------------
(* Every step is a step of ThreadPool or none. *)

RInv == IInv /\ OnePlacePerTask

LEMMA ExecuteRefines ==
  ASSUME RInv, IInv', NEW t \in Task, Execute(t)
  PROVE  OnePlacePerTask' /\ Pool!Submit(t)
<1> USE DEF RInv, IInv, OnePlacePerTask
<1>1. UNCHANGED pc \/ \E w \in Worker, state \in State \ {"running"} :
                        pc[w] # "running" /\ MoveTo(w, state)
  BY DEF Execute, SpawnWorker, Spawn, WakeIdle, NotifyOne, Saturated, In, State
<1>2. UNCHANGED <<task, finished>> /\ queue' = Append(queue, t)
      /\ submitted' = submitted \cup {t} /\ t \notin submitted
  BY DEF Execute
<1>3. Running' = Running /\ Active' = Active
  BY <1>1, <1>2, RunningKept
<1>4. Elems(queue') = Elems(queue) \cup {t} /\ Distinct(queue')
  BY <1>2, AppendElems DEF TypeOK
<1>5. OnePlacePerTask'
  BY <1>2, <1>3, <1>4
<1>6. Pool!Submit(t)
  BY <1>2, <1>3 DEF Pool!Submit, Pool!Pending, Elems
<1> QED
  BY <1>5, <1>6

LEMMA LoopHeadRefines ==
  ASSUME RInv, NEW w \in Worker, pc[w] \notin {"none", "running"}, LoopHead(w),
         UNCHANGED <<submitted, finished>>
  PROVE  OnePlacePerTask' /\ (Pool!Start \/ UNCHANGED Pool!vars)
<1> USE DEF RInv, IInv, OnePlacePerTask
<1>1. CASE /\ queue # <<>> /\ queue' = Tail(queue)
           /\ task' = [task EXCEPT ![w] = Head(queue)]
           /\ MoveTo(w, "running")
  <2>1. /\ Head(queue) \in Elems(queue)
        /\ Elems(queue') = Elems(queue) \ {Head(queue)}
        /\ Distinct(queue')
    BY <1>1, TailElems DEF TypeOK
  <2>2. /\ Running' = Running \cup {Head(queue)}
        /\ Active' = Active \cup {w} /\ w \notin Active
    BY <1>1, RunningGains
  <2>3. \A x \in Active : task'[x] = task[x] /\ task[x] \in Running
    BY <1>1, <2>2 DEF TypeOK, Active, In, Running
  <2>4. task'[w] = Head(queue) /\ Head(queue) \notin Running
    BY <1>1, <2>1 DEF TypeOK
  <2>5. OnePlacePerTask'
    BY <2>1, <2>2, <2>3, <2>4
  <2>6. Pool!Cardinality(Running) < MaxWorkers
    <3>1. Pool!Cardinality(Running) = Cardinality(Running)
      BY DEF Pool!Cardinality, Cardinality
    <3> QED
      BY <3>1, RoomToStart
  <2>7. Pool!Start
    BY <1>1, <2>2, <2>6 DEF Pool!Start
  <2> QED
    BY <2>5, <2>7
<1>2. CASE queue = <<>> /\ UNCHANGED <<queue, task>> /\ MoveTo(w, "waiting")
  <2>1. Running' = Running /\ Active' = Active
    BY <1>2, RunningKept DEF State
  <2> QED
    BY <1>2, <2>1 DEF Pool!vars
<1> QED
  BY <1>1, <1>2 DEF LoopHead, Take, Wait

LEMMA EndRefines ==
  ASSUME RInv, NEW w \in Worker, Complete(w) \/ Panic(w)
  PROVE  OnePlacePerTask' /\ \E t \in Task : Pool!Finish(t)
<1> USE DEF RInv, IInv, OnePlacePerTask
<1>1. /\ pc[w] = "running" /\ finished' = finished \cup {task[w]}
      /\ task' = [task EXCEPT ![w] = NoTask] /\ UNCHANGED <<queue, submitted>>
      /\ \E state \in State \ {"running"} : MoveTo(w, state)
  BY DEF Complete, EndTask, Panic, State
<1>2. /\ Running' = Running \ {task[w]} /\ task[w] \in Running
      /\ Active' = Active \ {w}
      /\ \A x \in Active' : task'[x] = task[x]
  BY <1>1, RunningLoses
<1>3. OnePlacePerTask'
  BY <1>1, <1>2
<1>4. task[w] \in Task
  BY <1>1 DEF TypeOK
<1>5. Pool!Finish(task[w])
  BY <1>1, <1>2 DEF Pool!Finish
<1> QED
  BY <1>3, <1>4, <1>5

LEMMA NextRefines ==
  ASSUME RInv, IInv', [Next]_vars
  PROVE  OnePlacePerTask' /\ [Pool!Next]_(Pool!vars)
<1>1. ASSUME NEW t \in Task, Execute(t) PROVE OnePlacePerTask' /\ Pool!Next
  BY <1>1, ExecuteRefines DEF Pool!Next
<1>2. ASSUME NEW w \in Worker, Lock(w) \/ Claim(w)
      PROVE  OnePlacePerTask' /\ [Pool!Next]_(Pool!vars)
  BY <1>2, LoopHeadRefines DEF Lock, Claim, UseNotification, Pool!Next
<1>3. ASSUME NEW w \in Worker, Complete(w) \/ Panic(w) PROVE OnePlacePerTask' /\ Pool!Next
  BY <1>3, EndRefines DEF Pool!Next
<1>4. ASSUME NEW w \in Worker,
             Retire(w) \/ WaitAgain(w) \/ Timeout(w) \/ SpuriousWakeup(w)
      PROVE  OnePlacePerTask' /\ UNCHANGED Pool!vars
  <2>1. UNCHANGED <<queue, task, submitted, finished>>
    BY <1>4 DEF Retire, EndThread, WaitAgain, Shift, Timeout, SpuriousWakeup
  <2>2. Running' = Running /\ Active' = Active
    BY <1>4, <2>1, RunningKept DEF Retire, EndThread, WaitAgain, Shift, Timeout,
                                   SpuriousWakeup, State, RInv, IInv
  <2> QED
    BY <2>1, <2>2 DEF OnePlacePerTask, RInv, Pool!vars
<1>5. CASE UNCHANGED vars
  BY <1>5, RunningKept DEF vars, OnePlacePerTask, RInv, IInv, Pool!vars, Active, In
<1> QED
  BY <1>1, <1>2, <1>3, <1>4, <1>5 DEF Next, Proceed

-----------------------------------------------------------------------------
\* No task is lost and none is run twice, whatever fails (executor.rs:155, 194-195).
THEOREM TasksAreUnique == Spec => []OnePlacePerTask
<1>1. Init => OnePlacePerTask
  BY DEF Init, OnePlacePerTask, Elems, Distinct, Running, Active, In
<1>2. RInv /\ IInv' /\ [Next]_vars => OnePlacePerTask'
  BY NextRefines
<1> QED
  BY <1>1, <1>2, Invariance, PTL DEF Spec, RInv

\* The thread pool implements the abstract pool: first come, first started, each
\* task once, and at most MaxWorkers at a time (executor.rs:149-226).
THEOREM PoolImplemented == Spec => PoolSafe
<1>1. Init => Pool!Init
  BY DEF Init, Pool!Init, Running, Active, In
<1>2. RInv /\ IInv' /\ [Next]_vars => [Pool!Next]_(Pool!vars)
  BY NextRefines
<1> QED
  BY <1>1, <1>2, Invariance, TasksAreUnique, PTL DEF Spec, RInv, PoolSafe, Pool!Safe
=============================================================================
