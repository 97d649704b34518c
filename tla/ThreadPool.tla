----------------------------- MODULE ThreadPool -----------------------------
(***************************************************************************)
(* muduo::ThreadPool with a CountDownLatch: the owner starts the pool,     *)
(* hands it tasks, may wait for the latch and stops the pool; another      *)
(* thread and the tasks themselves hand it tasks too.                      *)
(*                                                                         *)
(* A critical section of mutex_ is one step; wait() gives the mutex up and *)
(* is left through "woken".  running_ is also read without the mutex.      *)
(* Tasks that throw, which abort the program, are left out.                *)
(***************************************************************************)
EXTENDS Integers, Sequences, FiniteSets, SequencesExt, Condition

CONSTANTS MaxThreads,   \* the largest numThreads of start()
          MaxTasks,     \* bound: tasks that are handed over
          LatchCount    \* the count the latch is constructed with

ASSUME PoolAssumption ==
    MaxThreads \in Nat /\ MaxTasks \in Nat /\ LatchCount \in Nat \ {0}

Workers == 1..MaxThreads

\* what a task does: nothing that matters here, count the latch down, or hand
\* one more task to the pool
Ops == {"plain", "countDown", "spawn"}

VARIABLES running,     \* running_
          numThreads,  \* the argument of start()
          threads,     \* the size of threads_
          queue,       \* queue_
          pc,          \* of each worker: unborn, test, take, waiting, woken, run, done
          task,        \* the task it runs
          opc,         \* of the owner, as a function for Condition: idle, starting,
                       \*   ready, latch, waiting, woken, joining, stopped
          count,       \* the latch's count_
          submitted,   \* history: tasks handed to the workers, in order
          taken,       \* history: tasks they took, in order
          passed       \* history: wait() of the latch has returned

work == <<queue, pc, task>>
latch == <<opc, count>>
history == <<submitted, taken, passed>>
vars == <<running, numThreads, threads, work, latch, history>>

owner == opc[0]

NoTask == [id |-> 0, op |-> "none"]

Init ==
    /\ running = FALSE /\ threads = 0 /\ queue = <<>>
    /\ numThreads \in 0..MaxThreads
    /\ pc = [w \in Workers |-> "unborn"]
    /\ task = [w \in Workers |-> NoTask]
    /\ opc = [o \in {0} |-> "idle"]
    /\ count = LatchCount
    /\ submitted = <<>> /\ taken = <<>> /\ passed = FALSE

OwnerGoes(from, to) == owner = from /\ opc' = [opc EXCEPT ![0] = to]
-----------------------------------------------------------------------------
(* start() and stop().                                                     *)

Start ==
    /\ OwnerGoes("idle", "starting")
    /\ running' = TRUE
    /\ UNCHANGED <<numThreads, threads, work, count, history>>

StartThread ==
    /\ owner = "starting" /\ threads < numThreads
    /\ threads' = threads + 1
    /\ pc' = [pc EXCEPT ![threads + 1] = "test"]
    /\ UNCHANGED <<running, numThreads, queue, task, latch, history>>

Started ==
    /\ threads = numThreads
    /\ OwnerGoes("starting", "ready")
    /\ UNCHANGED <<running, numThreads, threads, work, count, history>>

\* defect: stop() wakes one worker
WokenByStop_one == CHOOSE p \in Notify(pc) : TRUE

\* notifyAll() in stop()
WokenByStop == NotifyAll(pc)

\* stop(), also called by the destructor
Stop ==
    /\ OwnerGoes("ready", "joining")
    /\ running' = FALSE
    /\ pc' = WokenByStop
    /\ UNCHANGED <<numThreads, threads, queue, task, count, history>>

\* Thread::join of all of them
Join ==
    /\ OwnerGoes("joining", "stopped")
    /\ \A w \in 1..threads : pc[w] = "done"
    /\ UNCHANGED <<running, numThreads, threads, work, count, history>>
-----------------------------------------------------------------------------
(* run().                                                                  *)

\* defect: only the first task of a queue is announced
WokenByRun_first(q, p) == IF q = <<>> THEN Notify(p) ELSE {p}

\* notify() in run(), with the queue q before the task is added
WokenByRun(q, p) == Notify(p)

\* run() puts t into the queue q, while the workers are at p
Submit(t, p) ==
    /\ queue' = Append(queue, t)
    /\ pc' \in WokenByRun(queue, p)
    /\ submitted' = Append(submitted, t)

\* a task the user makes; no more than MaxTasks of them
Task(op) == [id |-> Len(submitted) + 1, op |-> op]

\* what running a task in place or in a worker does to the latch
CountDown(op) == IF op = "countDown" THEN count - 1 ELSE count

\* the owner, or another thread once start() has returned
Run(op) ==
    /\ owner \notin {"idle", "starting"} /\ threads > 0
    /\ Len(submitted) < MaxTasks
    /\ Submit(Task(op), pc)
    /\ UNCHANGED <<running, numThreads, threads, task, latch, taken, passed>>

\* without threads the task runs in place
RunInPlace(op) ==
    /\ owner \in {"idle", "ready"} /\ threads = 0
    /\ count > 0
    /\ count' = CountDown(op)
    /\ UNCHANGED <<running, numThreads, threads, work, opc, history>>
-----------------------------------------------------------------------------
(* The workers.                                                            *)

\* while (running_)
Test(w) ==
    /\ pc[w] = "test"
    /\ pc' = [pc EXCEPT ![w] = IF running THEN "take" ELSE "done"]
    /\ UNCHANGED <<running, numThreads, threads, queue, task, latch, history>>

\* take() sleeps
Wait(w) ==
    /\ pc[w] \in {"take", "woken"} /\ queue = <<>> /\ running
    /\ pc' = [pc EXCEPT ![w] = "waiting"]
    /\ UNCHANGED <<running, numThreads, threads, queue, task, latch, history>>

\* defect: the newest task comes first
NextTask_last(q) == Last(q)

\* the task take() returns
NextTask(q) == Head(q)

\* take() returns a task
Take(w) ==
    /\ pc[w] \in {"take", "woken"} /\ queue # <<>>
    /\ task' = [task EXCEPT ![w] = NextTask(queue)]
    /\ queue' = Tail(queue)
    /\ pc' = [pc EXCEPT ![w] = "run"]
    /\ taken' = Append(taken, task'[w])
    /\ UNCHANGED <<running, numThreads, threads, latch, submitted, passed>>

\* take() returns an empty task, because the pool stops
TakeNothing(w) ==
    /\ pc[w] \in {"take", "woken"} /\ queue = <<>> /\ ~running
    /\ pc' = [pc EXCEPT ![w] = "test"]
    /\ UNCHANGED <<running, numThreads, threads, queue, task, latch, history>>

\* countDown() has left n: notifyAll() when it is 0
WokenByLatch(n, p) == IF n = 0 THEN NotifyAll(p) ELSE p

\* the task ends
Finish(w) ==
    /\ pc[w] = "run"
    /\ task' = [task EXCEPT ![w] = NoTask]
    /\ count' = CountDown(task[w].op)
    /\ opc' = IF task[w].op = "countDown" THEN WokenByLatch(count', opc) ELSE opc
    /\ LET p == [pc EXCEPT ![w] = "test"]
       IN  IF task[w].op = "spawn" /\ Len(submitted) < MaxTasks
           THEN Submit(Task("plain"), p)
           ELSE pc' = p /\ UNCHANGED <<queue, submitted>>
    /\ UNCHANGED <<running, numThreads, threads, taken, passed>>

SpuriousWakeup(w) ==
    /\ pc[w] = "waiting"
    /\ pc' = [pc EXCEPT ![w] = "woken"]
    /\ UNCHANGED <<running, numThreads, threads, queue, task, latch, history>>
-----------------------------------------------------------------------------
(* CountDownLatch::wait, called by the owner when enough tasks that count  *)
(* down have been handed over.                                             *)

Counting == Len(SelectSeq(submitted, LAMBDA t : t.op = "countDown"))

BeginWait ==
    /\ OwnerGoes("ready", "latch")
    /\ ~passed
    /\ count <= 0 \/ Counting >= LatchCount
    /\ UNCHANGED <<running, numThreads, threads, work, count, history>>

\* while (count_ > 0)
LatchHolds == count > 0

LatchWait ==
    /\ owner \in {"latch", "woken"} /\ LatchHolds
    /\ opc' = [opc EXCEPT ![0] = "waiting"]
    /\ UNCHANGED <<running, numThreads, threads, work, count, history>>

LatchReturns ==
    /\ owner \in {"latch", "woken"} /\ ~LatchHolds
    /\ opc' = [opc EXCEPT ![0] = "ready"]
    /\ passed' = TRUE
    /\ UNCHANGED <<running, numThreads, threads, work, count, submitted, taken>>

SpuriousLatchWakeup ==
    /\ OwnerGoes("waiting", "woken")
    /\ UNCHANGED <<running, numThreads, threads, work, count, history>>
-----------------------------------------------------------------------------
WorkerStep(w) == Test(w) \/ Wait(w) \/ Take(w) \/ TakeNothing(w) \/ Finish(w)

OwnerStep == StartThread \/ Started \/ Join \/ LatchWait \/ LatchReturns

Next ==
    \/ \E w \in Workers : WorkerStep(w) \/ SpuriousWakeup(w)
    \/ OwnerStep \/ SpuriousLatchWakeup
    \/ Start \/ Stop \/ BeginWait
    \/ \E op \in Ops : Run(op) \/ RunInPlace(op)

Spec == Init /\ [][Next]_vars

\* every thread runs and gets the mutex in the end, and tasks end; nothing is
\* assumed of the calls the owner and the other thread make
FairSpec ==
    /\ Spec
    /\ \A w \in Workers : WF_vars(WorkerStep(w))
    /\ WF_vars(OwnerStep)
-----------------------------------------------------------------------------
Woken == {w \in Workers : pc[w] = "woken"}

\* No task waits for a busy worker while another one sleeps: as long as a
\* worker is left in wait(), at least as many workers have been woken as
\* tasks are queued, although notify() wakes one worker only, workers that
\* come by take tasks others were woken for, and wakeups may be spurious.
NoSleeperWhileQueued == Waiting(pc) # {} => Cardinality(Woken) >= Len(queue)

\* The tasks are taken in the order in which run() was called, each once, and
\* the latch lets the owner pass only when the tasks that count it down have
\* run: stop() then drops none of the tasks handed over before them.
TasksInOrder ==
    /\ taken \o queue = submitted
    /\ passed => count <= 0

\* The owner's calls return: stop(), because every worker sees running_, also
\* one that was about to wait when stop() was called; and wait() of the latch,
\* because the tasks that count it down are taken and run.
CallsReturn ==
    /\ owner = "joining" ~> owner = "stopped"
    /\ owner = "latch" ~> owner = "ready"
=============================================================================
