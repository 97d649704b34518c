-------------------------- MODULE ThreadPoolProofs --------------------------
(***************************************************************************)
(* ThreadPool for any number of workers, tasks and any count of the latch: *)
(* no worker sleeps while tasks outnumber the ones that were woken, and    *)
(* tasks are taken in the order in which they were handed over.            *)
(***************************************************************************)
EXTENDS ThreadPool, FiniteSetTheorems, SequenceTheorems, TLAPS

Tasks == [id : Nat, op : Ops \cup {"none"}]

Points == {"unborn", "test", "take", "waiting", "woken", "run", "done"}

TypeOK ==
    /\ running \in BOOLEAN
    /\ numThreads \in 0..MaxThreads /\ threads \in 0..numThreads
    /\ queue \in Seq(Tasks) /\ submitted \in Seq(Tasks) /\ taken \in Seq(Tasks)
    /\ pc \in [Workers -> Points]
    /\ task \in [Workers -> Tasks]
    /\ count \in Int
    /\ passed \in BOOLEAN

\* start() has not come to the threads beyond threads_
UnbornBeyond == \A w \in Workers : w > threads => pc[w] = "unborn"

IInv == TypeOK /\ UnbornBeyond /\ NoSleeperWhileQueued /\ TasksInOrder
-----------------------------------------------------------------------------
(* The workers that were woken, as a function of the control points.       *)
WokenAt(p) == {w \in Workers : p[w] = "woken"}

(* The woken workers can be counted.                                       *)
LEMMA WokenFinite ==
    ASSUME NEW p
    PROVE  IsFiniteSet(WokenAt(p)) /\ Cardinality(WokenAt(p)) \in Nat
<1>1. IsFiniteSet(Workers)
  BY PoolAssumption, FS_Interval DEF Workers
<1>. QED
  BY <1>1, FS_Subset, FS_CardinalityType DEF WokenAt

(* A worker that was not woken before is woken.                            *)
LEMMA OneMoreWoken ==
    ASSUME NEW p \in [Workers -> Points], NEW w \in Workers, p[w] # "woken"
    PROVE  LET q == [p EXCEPT ![w] = "woken"]
           IN  q \in [Workers -> Points] /\ Cardinality(WokenAt(q)) = Cardinality(WokenAt(p)) + 1
<1> DEFINE q == [p EXCEPT ![w] = "woken"]
<1>1. q \in [Workers -> Points]
  BY DEF Points
<1>2. WokenAt(q) = WokenAt(p) \cup {w} /\ w \notin WokenAt(p)
  BY DEF WokenAt
<1>. QED  BY <1>1, <1>2, WokenFinite, FS_AddElement

(* notify() wakes exactly one of the workers that wait, if there are any.  *)
LEMMA NotifyWakesOne ==
    ASSUME NEW p \in [Workers -> Points], NEW q \in Notify(p)
    PROVE  /\ q \in [Workers -> Points]
           /\ Waiting(p) = {} => q = p
           /\ Waiting(p) # {} => Cardinality(WokenAt(q)) = Cardinality(WokenAt(p)) + 1
           /\ \A w \in Workers : p[w] # "waiting" => q[w] = p[w]
<1>1. CASE Waiting(p) = {}
  BY <1>1 DEF Notify
<1>2. CASE Waiting(p) # {}
  <2>1. PICK w \in Waiting(p) : q = [p EXCEPT ![w] = "woken"]
    BY <1>2 DEF Notify
  <2>2. w \in Workers /\ p[w] = "waiting"
    BY <2>1 DEF Waiting
  <2>. QED  BY <1>2, <2>1, <2>2, OneMoreWoken
<1>. QED  BY <1>1, <1>2
-----------------------------------------------------------------------------
(* run() with the workers at p, which differ from pc at most in a worker   *)
(* that runs: the task is queued behind the others and somebody is woken   *)
(* for it.                                                                 *)
LEMMA SubmitStep ==
    ASSUME IInv, NEW op \in Ops, NEW p \in [Workers -> Points], Submit(Task(op), p),
           WokenAt(p) = WokenAt(pc), Waiting(p) = Waiting(pc), UNCHANGED <<taken, threads>>,
           \A w \in Workers : w > threads => p[w] = "unborn"
    PROVE  /\ queue' \in Seq(Tasks) /\ submitted' \in Seq(Tasks) /\ pc' \in [Workers -> Points]
           /\ UnbornBeyond' /\ NoSleeperWhileQueued'
           /\ taken' \o queue' = submitted'
<1> DEFINE t == Task(op)
<1>1. t \in Tasks
  BY LenProperties DEF IInv, TypeOK, Task, Tasks
<1>2. queue' = Append(queue, t) /\ submitted' = Append(submitted, t) /\ pc' \in Notify(p)
  BY DEF Submit, WokenByRun
<1>3. /\ queue' \in Seq(Tasks) /\ Len(queue') = Len(queue) + 1 /\ Len(queue) \in Nat
      /\ submitted' \in Seq(Tasks)
  BY <1>1, <1>2, AppendProperties, LenProperties DEF IInv, TypeOK
<1>4. taken' \o queue' = submitted'
  <2>1. taken \o queue = submitted
    BY DEF IInv, TasksInOrder
  <2>2. taken \o Append(queue, t) = Append(taken \o queue, t)
    BY <1>1 DEF IInv, TypeOK
  <2>. QED  BY <1>2, <2>1, <2>2
<1>5. /\ pc' \in [Workers -> Points]
      /\ Waiting(p) = {} => pc' = p
      /\ Waiting(p) # {} => Cardinality(WokenAt(pc')) = Cardinality(WokenAt(pc)) + 1
      /\ \A w \in Workers : p[w] # "waiting" => pc'[w] = p[w]
  BY <1>2, NotifyWakesOne
<1>6. UnbornBeyond'
  BY <1>5 DEF UnbornBeyond
<1>7. NoSleeperWhileQueued'
  <2>1. CASE Waiting(pc) = {}
    BY <1>5, <2>1 DEF NoSleeperWhileQueued
  <2>2. CASE Waiting(pc) # {}
    <3>1. Cardinality(WokenAt(pc)) >= Len(queue)
      BY <2>2 DEF IInv, NoSleeperWhileQueued, Woken, WokenAt
    <3>2. Cardinality(WokenAt(pc')) >= Len(queue')
      BY <1>3, <1>5, <2>2, <3>1, WokenFinite
    <3>. QED  BY <3>2 DEF NoSleeperWhileQueued, Woken, WokenAt
  <2>. QED  BY <2>1, <2>2
<1>. QED  BY <1>3, <1>4, <1>5, <1>6, <1>7

(* A worker moves on its own and the queue stays as it is: it may not      *)
(* begin to sleep over a task, and is not woken before.                    *)
LEMMA MoveStep ==
    ASSUME IInv, NEW w \in Workers, NEW x \in Points, pc' = [pc EXCEPT ![w] = x],
           UNCHANGED queue,
           x = "waiting" \/ pc[w] = "woken" => queue = <<>> \/ x = "woken"
    PROVE  pc' \in [Workers -> Points] /\ NoSleeperWhileQueued'
<1>1. pc \in [Workers -> Points] /\ pc' \in [Workers -> Points]
  BY DEF IInv, TypeOK
<1>2. NoSleeperWhileQueued'
  <2> SUFFICES ASSUME Waiting(pc') # {} PROVE Cardinality(WokenAt(pc')) >= Len(queue)
    BY DEF NoSleeperWhileQueued, Woken, WokenAt
  <2>1. Len(queue) \in Nat /\ (queue = <<>> => Len(queue) = 0)
    BY LenProperties DEF IInv, TypeOK
  <2>2. CASE queue = <<>>
    BY <2>1, <2>2, WokenFinite
  <2>3. CASE queue # <<>>
    <3>1. x # "waiting" /\ (pc[w] = "woken" => x = "woken")
      BY <2>3
    <3>2. Waiting(pc) # {}
      BY <1>1, <3>1 DEF Waiting
    <3>3. Cardinality(WokenAt(pc)) >= Len(queue)
      BY <3>2 DEF IInv, NoSleeperWhileQueued, Woken, WokenAt
    <3>4. CASE pc[w] = "woken" \/ x # "woken"
      <4>1. WokenAt(pc') = WokenAt(pc)
        BY <1>1, <3>1, <3>4 DEF WokenAt
      <4>. QED  BY <3>3, <4>1
    <3>5. CASE pc[w] # "woken" /\ x = "woken"
      <4>1. Cardinality(WokenAt(pc')) = Cardinality(WokenAt(pc)) + 1
        BY <1>1, <3>5, OneMoreWoken
      <4>2. Cardinality(WokenAt(pc)) \in Nat
        BY WokenFinite
      <4>. QED  BY <2>1, <3>3, <4>1, <4>2
    <3>. QED  BY <3>4, <3>5
  <2>. QED  BY <2>2, <2>3
<1>. QED  BY <1>1, <1>2

(* The threads that move have been started.                                *)
LEMMA StartedOnly ==
    ASSUME IInv, NEW w \in Workers, NEW x, pc' = [pc EXCEPT ![w] = x],
           pc[w] # "unborn", UNCHANGED threads
    PROVE  UnbornBeyond'
BY DEF IInv, TypeOK, UnbornBeyond

(* take(): the worker that takes the first task is one that was woken, or  *)
(* one for which nobody was.                                               *)
LEMMA TakeStep ==
    ASSUME IInv, NEW w \in Workers, Take(w)
    PROVE  IInv'
<1> USE DEF Take, NextTask
<1>1. /\ pc \in [Workers -> Points] /\ queue \in Seq(Tasks) /\ queue # <<>>
      /\ taken \in Seq(Tasks) /\ submitted \in Seq(Tasks) /\ task \in [Workers -> Tasks]
      /\ pc' = [pc EXCEPT ![w] = "run"] /\ "run" \in Points
  BY DEF IInv, TypeOK, Points
<1>2. /\ Head(queue) \in Tasks /\ Tail(queue) \in Seq(Tasks)
      /\ Len(queue) \in Nat /\ Len(Tail(queue)) = Len(queue) - 1
  BY <1>1, HeadTailProperties, LenProperties
<1>3. taken' = Append(taken, Head(queue)) /\ queue' = Tail(queue)
  BY <1>1
<1>4. TypeOK'
  <2>1. taken' \in Seq(Tasks) /\ task' \in [Workers -> Tasks] /\ pc' \in [Workers -> Points]
    BY <1>1, <1>2, <1>3, AppendProperties
  <2>. QED  BY <1>2, <1>3, <2>1 DEF IInv, TypeOK, latch
<1>5. UnbornBeyond'
  BY <1>1, StartedOnly
<1>6. TasksInOrder'
  <2>1. taken \o queue = submitted
    BY DEF IInv, TasksInOrder
  <2>2. Append(taken, Head(queue)) \o Tail(queue) = taken \o queue
    BY <1>1, <1>2
  <2>. QED  BY <1>3, <2>1, <2>2 DEF IInv, TasksInOrder, latch
<1>7. NoSleeperWhileQueued'
  <2> SUFFICES ASSUME Waiting(pc') # {} PROVE Cardinality(WokenAt(pc')) >= Len(queue')
    BY DEF NoSleeperWhileQueued, Woken, WokenAt
  <2>1. Waiting(pc) # {}
    BY <1>1 DEF Waiting
  <2>2. Cardinality(WokenAt(pc)) >= Len(queue)
    BY <2>1 DEF IInv, NoSleeperWhileQueued, Woken, WokenAt
  <2>3. \/ WokenAt(pc') = WokenAt(pc)
        \/ Cardinality(WokenAt(pc')) = Cardinality(WokenAt(pc)) - 1
    <3>1. CASE pc[w] = "woken"
      <4>1. WokenAt(pc') = WokenAt(pc) \ {w} /\ w \in WokenAt(pc)
        BY <1>1, <3>1 DEF WokenAt
      <4>2. Cardinality(WokenAt(pc) \ {w}) = Cardinality(WokenAt(pc)) - 1
        BY <4>1, WokenFinite, FS_RemoveElement
      <4>. QED  BY <4>1, <4>2
    <3>2. CASE pc[w] # "woken"
      BY <1>1, <3>2 DEF WokenAt
    <3>. QED  BY <3>1, <3>2
  <2>4. Cardinality(WokenAt(pc)) \in Nat
    BY WokenFinite
  <2>. QED  BY <1>2, <1>3, <2>2, <2>3, <2>4
<1>. QED  BY <1>4, <1>5, <1>6, <1>7 DEF IInv

(* The task a worker ran ends, and may have handed over another.           *)
LEMMA FinishStep ==
    ASSUME IInv, NEW w \in Workers, Finish(w)
    PROVE  IInv'
<1> DEFINE p == [pc EXCEPT ![w] = "test"]
<1> USE DEF Finish
<1>1. /\ p \in [Workers -> Points] /\ pc \in [Workers -> Points] /\ "test" \in Points
      /\ WokenAt(p) = WokenAt(pc) /\ Waiting(p) = Waiting(pc)
  BY DEF IInv, TypeOK, Points, WokenAt, Waiting
<1>2. \A v \in Workers : v > threads => p[v] = "unborn"
  BY <1>1 DEF IInv, UnbornBeyond
<1>3. task' \in [Workers -> Tasks] /\ count' \in Int /\ count' <= count
  BY DEF IInv, TypeOK, Tasks, Ops, NoTask, CountDown
<1>4. /\ queue' \in Seq(Tasks) /\ submitted' \in Seq(Tasks) /\ pc' \in [Workers -> Points]
      /\ UnbornBeyond' /\ NoSleeperWhileQueued'
      /\ taken' \o queue' = submitted'
  <2>1. CASE task[w].op = "spawn" /\ Len(submitted) < MaxTasks
    <3>1. Submit(Task("plain"), p) /\ UNCHANGED <<taken, threads>>
      BY <2>1
    <3>2. "plain" \in Ops
      BY DEF Ops
    <3>. QED  BY <1>1, <1>2, <3>1, <3>2, SubmitStep
  <2>2. CASE ~(task[w].op = "spawn" /\ Len(submitted) < MaxTasks)
    <3>1. pc' = p /\ UNCHANGED <<queue, submitted, taken, threads>> /\ pc[w] = "run"
      BY <2>2
    <3>2. UnbornBeyond'
      BY <1>2, <3>1 DEF UnbornBeyond
    <3>. QED  BY <1>1, <3>1, <3>2, MoveStep DEF IInv, TypeOK, TasksInOrder
  <2>. QED  BY <2>1, <2>2
<1>5. passed' => count' <= 0
  BY <1>3 DEF IInv, TypeOK, TasksInOrder
<1>. QED  BY <1>3, <1>4, <1>5 DEF IInv, TypeOK, TasksInOrder

(* The steps of a worker.                                                  *)
LEMMA WorkerKeeps ==
    ASSUME IInv, NEW w \in Workers, WorkerStep(w) \/ SpuriousWakeup(w)
    PROVE  IInv'
<1> DEFINE Same == UNCHANGED <<running, numThreads, threads, queue, task, latch, history>>
<1> HIDE DEF Same
<1>1. ASSUME NEW x \in Points, pc' = [pc EXCEPT ![w] = x], pc[w] # "unborn", Same,
             x = "waiting" \/ pc[w] = "woken" => queue = <<>> \/ x = "woken"
      PROVE  IInv'
  <2>1. UnbornBeyond'
    BY <1>1, StartedOnly DEF Same
  <2>2. pc' \in [Workers -> Points] /\ NoSleeperWhileQueued'
    BY <1>1, MoveStep DEF Same
  <2>. QED  BY <1>1, <2>1, <2>2 DEF IInv, TypeOK, TasksInOrder, Same, latch, history
<1>2. CASE Test(w)
  BY <1>1, <1>2 DEF Test, Same, Points
<1>3. CASE Wait(w)
  BY <1>1, <1>3 DEF Wait, Same, Points
<1>4. CASE Take(w)
  BY <1>4, TakeStep
<1>5. CASE TakeNothing(w)
  BY <1>1, <1>5 DEF TakeNothing, Same, Points
<1>6. CASE Finish(w)
  BY <1>6, FinishStep
<1>7. CASE SpuriousWakeup(w)
  BY <1>1, <1>7 DEF SpuriousWakeup, Same, Points
<1>. QED  BY <1>2, <1>3, <1>4, <1>5, <1>6, <1>7 DEF WorkerStep
-----------------------------------------------------------------------------
(* start(): a thread that is started does not sleep.                       *)
LEMMA StartThreadStep ==
    ASSUME IInv, StartThread
    PROVE  IInv'
<1> USE DEF StartThread
<1>1. threads + 1 \in Workers /\ pc[threads + 1] = "unborn" /\ threads' \in 0..numThreads
  BY PoolAssumption DEF IInv, TypeOK, UnbornBeyond, Workers
<1>2. pc' = [pc EXCEPT ![threads + 1] = "test"] /\ "test" \in Points /\ UNCHANGED queue
  BY DEF Points
<1>3. pc' \in [Workers -> Points] /\ NoSleeperWhileQueued'
  BY <1>1, <1>2, MoveStep
<1>4. UnbornBeyond'
  BY <1>1, <1>2, PoolAssumption DEF IInv, TypeOK, UnbornBeyond, Workers
<1>. QED  BY <1>1, <1>3, <1>4 DEF IInv, TypeOK, TasksInOrder, latch, history

(* stop() leaves nobody asleep.                                            *)
LEMMA StopStep ==
    ASSUME IInv, Stop
    PROVE  IInv'
<1> USE DEF Stop, WokenByStop
<1>1. pc' = [v \in Workers |-> IF pc[v] = "waiting" THEN "woken" ELSE pc[v]]
  BY DEF NotifyAll, IInv, TypeOK
<1>2. pc' \in [Workers -> Points] /\ Waiting(pc') = {} /\ UnbornBeyond'
  BY <1>1 DEF IInv, TypeOK, UnbornBeyond, Points, Waiting
<1>. QED  BY <1>2 DEF IInv, TypeOK, TasksInOrder, NoSleeperWhileQueued, history

(* The steps that touch neither the workers nor the queue.                 *)
LEMMA AsideStep ==
    ASSUME IInv, UNCHANGED <<numThreads, threads, queue, pc, task, submitted, taken>>,
           running' \in BOOLEAN, passed' \in BOOLEAN, count' \in Int, passed' => count' <= 0
    PROVE  IInv'
BY DEF IInv, TypeOK, UnbornBeyond, NoSleeperWhileQueued, Woken, TasksInOrder

(* Every step of the pool keeps the inductive invariant.                   *)
LEMMA StepKeeps ==
    ASSUME IInv, [Next]_vars
    PROVE  IInv'
<1> USE DEF work, latch, history
<1> DEFINE Aside == UNCHANGED <<numThreads, threads, queue, pc, task, submitted, taken>>
<1>0. running \in BOOLEAN /\ passed \in BOOLEAN /\ count \in Int /\ (passed => count <= 0)
  BY DEF IInv, TypeOK, TasksInOrder
<1>1. ASSUME NEW w \in Workers, WorkerStep(w) \/ SpuriousWakeup(w) PROVE IInv'
  BY <1>1, WorkerKeeps
<1>2. CASE StartThread
  BY <1>2, StartThreadStep
<1>3. CASE Started \/ Join \/ LatchWait \/ SpuriousLatchWakeup \/ BeginWait
  <2>1. Aside /\ UNCHANGED <<running, passed, count>>
    BY <1>3 DEF Started, Join, LatchWait, SpuriousLatchWakeup, BeginWait
  <2>. QED  BY <1>0, <2>1, AsideStep
<1>4. CASE LatchReturns
  <2>1. Aside /\ UNCHANGED <<running, count>> /\ passed' = TRUE /\ ~(count > 0)
    BY <1>4 DEF LatchReturns, LatchHolds
  <2>. QED  BY <1>0, <2>1, AsideStep
<1>5. CASE Start
  <2>1. Aside /\ UNCHANGED <<passed, count>> /\ running' = TRUE
    BY <1>5 DEF Start
  <2>. QED  BY <1>0, <2>1, AsideStep
<1>6. CASE Stop
  BY <1>6, StopStep
<1>7. ASSUME NEW op \in Ops, Run(op) PROVE IInv'
  <2>1. /\ Submit(Task(op), pc) /\ UNCHANGED <<taken, threads>>
        /\ UNCHANGED <<running, numThreads, task, count, passed>>
    BY <1>7 DEF Run
  <2>2. /\ queue' \in Seq(Tasks) /\ submitted' \in Seq(Tasks) /\ pc' \in [Workers -> Points]
        /\ UnbornBeyond' /\ NoSleeperWhileQueued'
        /\ taken' \o queue' = submitted'
    BY <2>1, SubmitStep DEF IInv, TypeOK, UnbornBeyond
  <2>. QED  BY <2>1, <2>2 DEF IInv, TypeOK, TasksInOrder
<1>8. ASSUME NEW op \in Ops, RunInPlace(op) PROVE IInv'
  <2>1. Aside /\ UNCHANGED <<running, passed>> /\ count' = CountDown(op)
    BY <1>8 DEF RunInPlace
  <2>2. count' \in Int /\ count' <= count
    BY <1>0, <2>1 DEF CountDown
  <2>. QED  BY <1>0, <2>1, <2>2, AsideStep
<1>9. CASE UNCHANGED vars
  <2>1. Aside /\ UNCHANGED <<running, passed, count>>
    BY <1>9 DEF vars
  <2>. QED  BY <1>0, <2>1, AsideStep
<1>. QED  BY <1>1, <1>2, <1>3, <1>4, <1>5, <1>6, <1>7, <1>8, <1>9 DEF Next, OwnerStep

(* The pool before start().                                                *)
LEMMA InitHolds ==
    ASSUME Init
    PROVE  IInv
<1>1. TypeOK
  <2>1. "unborn" \in Points /\ NoTask \in Tasks
    BY DEF Points, Tasks, NoTask, Ops
  <2>2. pc \in [Workers -> Points] /\ task \in [Workers -> Tasks]
    BY <2>1 DEF Init
  <2>3. queue \in Seq(Tasks) /\ submitted \in Seq(Tasks) /\ taken \in Seq(Tasks)
    BY DEF Init
  <2>. QED  BY <2>2, <2>3, PoolAssumption DEF Init, TypeOK
<1>4. UnbornBeyond
  BY DEF Init, UnbornBeyond
<1>2. NoSleeperWhileQueued
  BY DEF Init, NoSleeperWhileQueued, Waiting
<1>3. TasksInOrder
  BY DEF Init, TasksInOrder
<1>. QED  BY <1>1, <1>2, <1>3, <1>4 DEF IInv

(* IInv holds in every state the pool reaches.                             *)
THEOREM Invariance == Spec => []IInv
BY InitHolds, StepKeeps, PTL DEF Spec

(* For any number of workers and tasks: while a worker sleeps in take(),   *)
(* at least as many workers are on their way out of wait() as tasks are    *)
(* queued, so that one notify() for each run() is enough.                  *)
THEOREM NoTaskIsSleptOver == Spec => []NoSleeperWhileQueued
BY Invariance, PTL DEF IInv

(* For any number of workers and tasks: every task handed to run() is      *)
(* queued or was taken, once and in the order of the calls, and the latch  *)
(* lets the owner pass only when it has been counted down.                 *)
THEOREM TakenInOrder == Spec => []TasksInOrder
BY Invariance, PTL DEF IInv
=============================================================================
