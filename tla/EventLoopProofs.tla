-------------------------- MODULE EventLoopProofs --------------------------
(***************************************************************************)
(* EventLoop for any number of threads and functors: its types, the wakeup *)
(* that is never lost, and its refinement of the FIFO mailbox; then        *)
(* EventLoopThread: startLoop returns a loop that exists, the destructor   *)
(* finds it, unless the loop quit by itself, and the loop in the thread    *)
(* keeps the promises of EventLoop.                                        *)
(***************************************************************************)
EXTENDS EventLoopThread, SequenceTheorems, TLAPS

\* callingPendingFunctors_ tells where the loop thread is
FlagTellsPhase == callingPendingFunctors <=> pc \in {"run", "functor"}

\* doPendingFunctors' vector is empty outside doPendingFunctors
VectorIsLocal == pc \notin {"run", "functor"} => functors = <<>>

\* NoLostWakeup, at every point from which the loop reaches poll() without
\* passing the swap of pendingFunctors_
WakeupCovers == pc \notin {"events", "handler"} /\ WorkWaits => WakeupComing

IInv == TypeOK /\ FlagTellsPhase /\ VectorIsLocal /\ WakeupCovers

(* A write to the eventfd leaves it readable and within its range.         *)
LEMMA SignalledType ==
    ASSUME NEW n \in 0..EventfdMax
    PROVE  Signalled(n) \in 0..EventfdMax /\ Signalled(n) > 0
BY EventfdMaxAssumption DEF Signalled

(* Every step keeps the types of the state of EventLoop.                   *)
LEMMA TypeStep == TypeOK /\ [Next]_vars => TypeOK'
<1> SUFFICES ASSUME TypeOK, [Next]_vars PROVE TypeOK'
  OBVIOUS
<1> USE DEF TypeOK
<1>1. CASE StartLoop
  BY <1>1 DEF StartLoop, QuitOnEntry, history
<1>2. CASE TestQuit \/ Poll \/ PollNothing
  BY <1>2 DEF TestQuit, Poll, PollNothing, history, ReadyChannels
<1>3. CASE HandleRead
  BY <1>3, EventfdMaxAssumption DEF HandleRead, history
<1>4. CASE HandleUserEvent
  BY <1>4 DEF HandleUserEvent, history
<1>5. CASE DoPendingFunctors
  BY <1>5 DEF DoPendingFunctors, LeftBySwap, history
<1>6. CASE RunFunctor
  <2>1. Head(functors) \in Functors /\ Tail(functors) \in Seq(Functors)
    BY <1>6, HeadTailProperties DEF RunFunctor
  <2>. QED  BY <1>6, <2>1 DEF RunFunctor
<1>7. CASE Return
  BY <1>7 DEF Return, history
<1>8. CASE EndIteration
  BY <1>8 DEF EndIteration, history
<1>9. ASSUME NEW f \in Functors, QueueInLoop(f) PROVE TypeOK'
  BY <1>9, SignalledType DEF QueueInLoop
<1>10. ASSUME NEW f \in Functors, RunInLoop(f) PROVE TypeOK'
  BY <1>10 DEF RunInLoop, loopVars
<1>11. CASE QuitInLoop
  BY <1>11 DEF QuitInLoop, history
<1>12. ASSUME NEW t \in Threads, NEW f \in Functors, QueueFrom(t, f) PROVE TypeOK'
  BY <1>12 DEF QueueFrom, history
<1>13. ASSUME NEW t \in Threads, QuitFrom(t) PROVE TypeOK'
  BY <1>13 DEF QuitFrom, history
<1>14. ASSUME NEW t \in Threads, Wakeup(t) PROVE TypeOK'
  BY <1>14, SignalledType DEF Wakeup, history
<1>15. CASE UserEvent
  BY <1>15 DEF UserEvent, history
<1>16. CASE UNCHANGED vars
  BY <1>16 DEF vars, loopVars, history
<1>. QED
  BY <1>1, <1>2, <1>3, <1>4, <1>5, <1>6, <1>7, <1>8, <1>9, <1>10, <1>11, <1>12,
     <1>13, <1>14, <1>15, <1>16
  DEF Next, LoopStep, LoopThreadCall, OtherThread

(* The initial state is well typed.                                        *)
LEMMA TypeInit == Init => TypeOK
<1>1. 0 \in 0..EventfdMax
  BY EventfdMaxAssumption
<1>2. <<>> \in Seq(Functors)
  OBVIOUS
<1>3. [t \in Threads |-> "idle"] \in [Threads -> {"idle", "wakeup"}]
  OBVIOUS
<1>. QED
  BY <1>1, <1>2, <1>3, Zenon DEF Init, TypeOK

(* The variables of an EventLoop always have their types; in particular    *)
(* the eventfd counter stays within its limit however often wakeup() is    *)
(* called.                                                                 *)
THEOREM TypeCorrect == Spec => []TypeOK
BY TypeInit, TypeStep, PTL DEF Spec
-----------------------------------------------------------------------------
(* A step that leaves the queue, its history, the eventfd and the other    *)
(* threads alone, and reaches no new control point that WakeupCovers       *)
(* speaks of, keeps WakeupCovers.                                          *)
LEMMA WakeupFrame ==
    ASSUME WakeupCovers,
           pendingFunctors' = pendingFunctors, early' = early,
           wakeupFd' = wakeupFd, tpc' = tpc,
           pc' \in {"events", "handler"} \/ pc \notin {"events", "handler"}
    PROVE  WakeupCovers'
BY DEF WakeupCovers, WorkWaits, WakeupComing

(* Every step keeps the invariant.                                         *)
LEMMA InductiveStep == IInv /\ [Next]_vars => IInv'
<1> SUFFICES ASSUME IInv, [Next]_vars PROVE IInv'
  OBVIOUS
<1>0. TypeOK' /\ TypeOK
  BY TypeStep DEF IInv
<1> USE DEF IInv
<1>1. CASE StartLoop \/ TestQuit \/ Poll \/ PollNothing \/ Return
  <2>1. FlagTellsPhase' /\ VectorIsLocal'
    BY <1>1 DEF StartLoop, TestQuit, Poll, PollNothing, Return, FlagTellsPhase, VectorIsLocal
  <2>2. WakeupCovers'
    BY <1>1, WakeupFrame DEF StartLoop, TestQuit, Poll, PollNothing, Return, history
  <2>. QED  BY <1>0, <2>1, <2>2
<1>2. CASE HandleRead \/ HandleUserEvent
  <2>1. FlagTellsPhase' /\ VectorIsLocal'
    BY <1>2 DEF HandleRead, HandleUserEvent, FlagTellsPhase, VectorIsLocal
  <2>2. WakeupCovers'
    BY <1>2 DEF HandleRead, HandleUserEvent, WakeupCovers
  <2>. QED  BY <1>0, <2>1, <2>2
<1>3. CASE DoPendingFunctors
  <2>1. FlagTellsPhase' /\ VectorIsLocal'
    BY <1>3 DEF DoPendingFunctors, FlagTellsPhase, VectorIsLocal
  <2>2. ~ WorkWaits'
    BY <1>3 DEF DoPendingFunctors, LeftBySwap, WorkWaits
  <2>. QED  BY <1>0, <2>1, <2>2 DEF WakeupCovers
<1>4. CASE RunFunctor \/ EndIteration
  <2>1. FlagTellsPhase' /\ VectorIsLocal'
    BY <1>4 DEF RunFunctor, EndIteration, FlagTellsPhase, VectorIsLocal
  <2>2. WakeupCovers'
    BY <1>4, WakeupFrame DEF RunFunctor, EndIteration, history
  <2>. QED  BY <1>0, <2>1, <2>2
<1>5. ASSUME NEW f \in Functors, QueueInLoop(f) PROVE IInv'
  <2>1. FlagTellsPhase' /\ VectorIsLocal'
    BY <1>5 DEF QueueInLoop, FlagTellsPhase, VectorIsLocal
  <2>2. CASE pc = "handler"
    BY <1>0, <1>5, <2>1, <2>2 DEF QueueInLoop, WakeupCovers
  <2>3. CASE pc = "functor"
    <3>1. wakeupFd' > 0
      BY <1>0, <1>5, <2>3, SignalledType DEF QueueInLoop, WakesItself, FlagTellsPhase, TypeOK
    <3>. QED  BY <1>0, <2>1, <3>1 DEF WakeupCovers, WakeupComing
  <2>4. CASE pc = "out"
    <3>1. /\ wakeupFd' = wakeupFd /\ tpc' = tpc /\ pc' = pc
          /\ early' = early \cup {f}
          /\ pendingFunctors' = Append(pendingFunctors, f)
      BY <1>5, <2>4 DEF QueueInLoop, WakesItself, FlagTellsPhase, looping
    <3>2. ASSUME WorkWaits' PROVE WorkWaits
      <4>1. PICK i \in DOMAIN pendingFunctors' : pendingFunctors'[i] \notin early'
        BY <3>2 DEF WorkWaits
      <4>2. i \in DOMAIN pendingFunctors /\ pendingFunctors'[i] = pendingFunctors[i]
        BY <1>0, <3>1, <4>1, AppendProperties DEF TypeOK
      <4>. QED  BY <3>1, <4>1, <4>2 DEF WorkWaits
    <3>. QED  BY <1>0, <2>1, <3>1, <3>2 DEF WakeupCovers, WakeupComing
  <2>. QED  BY <1>5, <2>2, <2>3, <2>4 DEF QueueInLoop, InUserCode
<1>6. CASE QuitInLoop \/ UserEvent
  <2>1. FlagTellsPhase' /\ VectorIsLocal'
    BY <1>6 DEF QuitInLoop, UserEvent, FlagTellsPhase, VectorIsLocal
  <2>2. WakeupCovers'
    BY <1>6, WakeupFrame DEF QuitInLoop, UserEvent, history
  <2>. QED  BY <1>0, <2>1, <2>2
<1>7. ASSUME NEW f \in Functors, RunInLoop(f) PROVE IInv'
  <2>1. FlagTellsPhase' /\ VectorIsLocal'
    BY <1>7 DEF RunInLoop, loopVars, FlagTellsPhase, VectorIsLocal
  <2>2. WakeupCovers'
    BY <1>7, WakeupFrame DEF RunInLoop, loopVars
  <2>. QED  BY <1>0, <2>1, <2>2
<1>8. ASSUME NEW t \in Threads, NEW f \in Functors, QueueFrom(t, f) PROVE IInv'
  <2>1. FlagTellsPhase' /\ VectorIsLocal'
    BY <1>8 DEF QueueFrom, FlagTellsPhase, VectorIsLocal
  <2>2. tpc'[t] = "wakeup"
    BY <1>0, <1>8 DEF QueueFrom, TypeOK
  <2>. QED  BY <1>0, <2>1, <2>2 DEF WakeupCovers, WakeupComing
<1>9. ASSUME NEW t \in Threads, QuitFrom(t) PROVE IInv'
  <2>1. FlagTellsPhase' /\ VectorIsLocal'
    BY <1>9 DEF QuitFrom, FlagTellsPhase, VectorIsLocal
  <2>2. tpc'[t] = "wakeup"
    BY <1>0, <1>9 DEF QuitFrom, TypeOK
  <2>. QED  BY <1>0, <2>1, <2>2 DEF WakeupCovers, WakeupComing
<1>10. ASSUME NEW t \in Threads, Wakeup(t) PROVE IInv'
  <2>1. FlagTellsPhase' /\ VectorIsLocal'
    BY <1>10 DEF Wakeup, FlagTellsPhase, VectorIsLocal
  <2>2. wakeupFd' > 0
    BY <1>0, <1>10, SignalledType DEF Wakeup, TypeOK
  <2>. QED  BY <1>0, <2>1, <2>2 DEF WakeupCovers, WakeupComing
<1>11. CASE UNCHANGED vars
  <2>1. FlagTellsPhase' /\ VectorIsLocal'
    BY <1>11 DEF vars, loopVars, FlagTellsPhase, VectorIsLocal
  <2>2. WakeupCovers'
    BY <1>11, WakeupFrame DEF vars, loopVars, history
  <2>. QED  BY <1>0, <2>1, <2>2
<1>. QED
  BY <1>1, <1>2, <1>3, <1>4, <1>5, <1>6, <1>7, <1>8, <1>9, <1>10, <1>11
  DEF Next, LoopStep, LoopThreadCall, OtherThread

(* The invariant holds in every reachable state.                           *)
LEMMA InductiveInvariant == Spec => []IInv
<1>1. Init => IInv
  BY TypeInit DEF Init, IInv, FlagTellsPhase, VectorIsLocal, WakeupCovers, WorkWaits
<1>. QED
  BY <1>1, InductiveStep, PTL DEF Spec

(* Whatever the interleaving of threads, batches and reads of the eventfd, *)
(* the loop never sleeps in poll() on a functor that was queued by another *)
(* thread or by a callback.                                                *)
THEOREM WakeupNeverLost == Spec => []NoLostWakeup
<1>1. IInv => NoLostWakeup
  BY DEF IInv, WakeupCovers, NoLostWakeup
<1>. QED
  BY <1>1, InductiveInvariant, PTL
-----------------------------------------------------------------------------
(* queueInLoop appends to the pending functors whatever the batch in       *)
(* progress is, so it submits one functor to the mailbox.                  *)
LEMMA QueueSubmits ==
    ASSUME TypeOK, NEW f \in Functors,
           pendingFunctors' = Append(pendingFunctors, f),
           functors' = functors, ran' = ran
    PROVE  mailbox!Submit(f)
<1>1. functors \in Seq(Functors) /\ pendingFunctors \in Seq(Functors)
  BY DEF TypeOK
<1>2. functors \o Append(pendingFunctors, f) = Append(functors \o pendingFunctors, f)
  BY <1>1
<1>. QED
  BY <1>2 DEF mailbox!Submit

(* A step that leaves both queues and the history alone is no step of the  *)
(* mailbox.                                                                *)
LEMMA QueueStutters ==
    ASSUME pendingFunctors' = pendingFunctors, functors' = functors, ran' = ran
    PROVE  UNCHANGED mailbox!vars
BY DEF mailbox!vars

(* Every step is a step of the mailbox or leaves it alone.                 *)
LEMMA MailboxStep == IInv /\ [Next]_vars => [mailbox!Next]_(mailbox!vars)
<1> SUFFICES ASSUME IInv, [Next]_vars PROVE [mailbox!Next]_(mailbox!vars)
  OBVIOUS
<1>0. TypeOK
  BY DEF IInv
<1>1. CASE StartLoop \/ TestQuit \/ Poll \/ PollNothing \/ Return \/ EndIteration
  BY <1>1, QueueStutters
  DEF StartLoop, TestQuit, Poll, PollNothing, Return, EndIteration, history
<1>2. CASE HandleRead \/ HandleUserEvent \/ QuitInLoop \/ UserEvent
  BY <1>2, QueueStutters DEF HandleRead, HandleUserEvent, QuitInLoop, UserEvent, history
<1>3. CASE DoPendingFunctors
  <2>1. functors = <<>> /\ functors' = pendingFunctors /\ pendingFunctors' = <<>>
    BY <1>3 DEF IInv, VectorIsLocal, DoPendingFunctors, LeftBySwap
  <2>2. functors' \o pendingFunctors' = functors \o pendingFunctors
    BY <1>0, <2>1 DEF TypeOK
  <2>. QED  BY <1>3, <2>2 DEF DoPendingFunctors, history, mailbox!vars
<1>4. CASE RunFunctor
  <2>1. /\ functors \in Seq(Functors) /\ pendingFunctors \in Seq(Functors)
        /\ functors # <<>> /\ functors' = Tail(functors)
        /\ pendingFunctors' = pendingFunctors /\ ran' = Append(ran, Head(functors))
    BY <1>0, <1>4 DEF RunFunctor, TypeOK
  <2>2. functors \o pendingFunctors # <<>>
    BY <2>1
  <2>3. Head(functors \o pendingFunctors) = Head(functors)
    BY <2>1
  <2>4. Tail(functors \o pendingFunctors) = Tail(functors) \o pendingFunctors
    BY <2>1
  <2>5. mailbox!Execute
    BY <2>1, <2>2, <2>3, <2>4 DEF mailbox!Execute
  <2>. QED  BY <2>5 DEF mailbox!Next
<1>5. ASSUME NEW f \in Functors, QueueInLoop(f) PROVE mailbox!Next
  BY <1>0, <1>5, QueueSubmits DEF QueueInLoop, mailbox!Next
<1>6. ASSUME NEW f \in Functors, RunInLoop(f) PROVE UNCHANGED mailbox!vars
  BY <1>6, QueueStutters DEF RunInLoop, loopVars
<1>7. ASSUME NEW t \in Threads, NEW f \in Functors, QueueFrom(t, f) PROVE mailbox!Next
  BY <1>0, <1>7, QueueSubmits DEF QueueFrom, history, mailbox!Next
<1>8. ASSUME NEW t \in Threads, QuitFrom(t) \/ Wakeup(t) PROVE UNCHANGED mailbox!vars
  BY <1>8, QueueStutters DEF QuitFrom, Wakeup, history
<1>9. CASE UNCHANGED vars
  BY <1>9, QueueStutters DEF vars, loopVars, history
<1>. QED
  BY <1>1, <1>2, <1>3, <1>4, <1>5, <1>6, <1>7, <1>8, <1>9
  DEF Next, LoopStep, LoopThreadCall, OtherThread

(* The loop implements the FIFO mailbox: the functors handed over by       *)
(* queueInLoop, by any thread, run at most once and in the order of the    *)
(* push_back, across any number of swaps.                                  *)
THEOREM ImplementsMailbox == Spec => IsMailbox
<1>1. Init => mailbox!Init
  BY DEF Init, mailbox!Init
<1>. QED
  BY <1>1, MailboxStep, InductiveInvariant, PTL DEF Spec, IsMailbox, mailbox!Spec
-----------------------------------------------------------------------------
(* The thread that runs the loop: EventLoopThread.                         *)

\* startLoop has returned, so the loop it returned exists: the safety part of
\* StartReturns
StartedExists == opc \notin {"new", "check", "wait"} => loop_ /\ ipc \notin {"unborn", "init"}

\* loop_ is set by threadFunc, after the owner started the thread
Published ==
    /\ opc = "new" => ipc = "unborn"
    /\ loop_ <=> ipc \in {"enter", "loop", "returned"}
    /\ StartedExists

\* the loop runs until somebody calls quit() after loop() has set quit_ to
\* false: the loop's own thread or the destructor
Unquit ==
    /\ quit \in BOOLEAN
    /\ opc \notin {"join", "joined"} /\ ~selfQuit =>
         /\ ipc # "returned"
         /\ ipc = "loop" => ~quit /\ looping

ThreadInv == Published /\ Unquit
-----------------------------------------------------------------------------
(* What the steps of EventLoop that EventLoopThread uses do to quit_ and   *)
(* to the control point of the loop.                                       *)
LEMMA LoopStepStays ==
    ASSUME LoopStep
    PROVE  quit' = quit /\ (~quit => pc' # "out")
BY DEF LoopStep, TestQuit, Poll, HandleRead, HandleUserEvent, DoPendingFunctors, RunFunctor,
       Return, EndIteration

(* So do the calls a callback may make, which can only set quit_.          *)
LEMMA CallStays ==
    ASSUME LoopThreadCall
    PROVE  pc' = pc /\ (quit' = quit \/ quit' = TRUE)
BY DEF LoopThreadCall, QuitInLoop, QueueInLoop, RunInLoop, loopVars

(* The owner's steps.                                                      *)
LEMMA OwnerKeeps ==
    ASSUME ThreadInv, OwnerStep \/ SpuriousWakeup \/ Destroy
    PROVE  ThreadInv'
<1> USE DEF ThreadInv, Published, Unquit, StartedExists, looping
<1>1. CASE StartThread \/ CheckLoop \/ WaitEnds \/ SpuriousWakeup \/ Destroy \/ DestroyQuitsNothing \/ Join
  BY <1>1 DEF StartThread, CheckLoop, WaitEnds, SpuriousWakeup, Destroy, DestroyQuitsNothing, Join,
              AfterWait, vars, loopVars
<1>2. CASE DestroyQuits
  BY <1>2 DEF DestroyQuits, QuitFrom
<1>. QED  BY <1>1, <1>2 DEF OwnerStep

(* The thread's steps.                                                     *)
LEMMA ThreadKeeps ==
    ASSUME ThreadInv, ThreadStep \/ InitCallback \/ InLoop
    PROVE  ThreadInv'
<1> USE DEF ThreadInv, Published, Unquit, StartedExists, looping
<1>1. CASE Publish \/ ThreadEnds
  BY <1>1 DEF Publish, ThreadEnds, vars, loopVars
<1>2. CASE EnterLoop
  BY <1>2 DEF EnterLoop, StartLoop, QuitOnEntry
<1>3. CASE LoopRuns
  BY <1>3, LoopStepStays DEF LoopRuns, ownVars
<1>4. CASE InitCallback
  BY <1>4, CallStays DEF InitCallback, ownVars
<1>5. CASE InLoop
  <2>1. CASE PollNothing
    BY <1>5, <2>1 DEF InLoop, PollNothing
  <2>2. CASE LoopThreadCall
    BY <1>5, <2>2, CallStays DEF InLoop
  <2>. QED  BY <1>5, <2>1, <2>2 DEF InLoop
<1>. QED  BY <1>1, <1>2, <1>3, <1>4, <1>5 DEF ThreadStep

(* Other threads only queue functors and write the eventfd.                *)
LEMMA OthersKeep ==
    ASSUME ThreadInv, Kernel \/ UNCHANGED allVars \/ \E t \in Threads : UseLoop(t) \/ LateWakeup(t)
    PROVE  ThreadInv'
<1>1. UNCHANGED <<pc, quit, ownVars>>
  BY DEF Kernel, UserEvent, UseLoop, Wakeup, QueueFrom, LateWakeup, allVars, vars, loopVars
<1>. QED  BY <1>1 DEF ThreadInv, Published, Unquit, StartedExists, looping, ownVars

(* The invariant holds in every reachable state.                           *)
LEMMA ThreadInvariant == SpecThread => []ThreadInv
<1>1. InitThread => ThreadInv
  BY DEF InitThread, Init, ThreadInv, Published, Unquit, StartedExists
<1>2. ThreadInv /\ [NextThread]_allVars => ThreadInv'
  BY OwnerKeeps, ThreadKeeps, OthersKeep DEF NextThread
<1>. QED  BY <1>1, <1>2, PTL DEF SpecThread

(* The destructor's quit() finds the loop on the thread's stack, unless    *)
(* the loop's own thread called quit().                                    *)
THEOREM DestructorFindsLoop == SpecThread => []QuitFindsLoop
<1>1. ThreadInv => QuitFindsLoop
  BY DEF ThreadInv, Unquit, QuitFindsLoop
<1>. QED  BY <1>1, ThreadInvariant, PTL

(* startLoop never returns before threadFunc has published the loop,       *)
(* however notify() and wait() interleave and however often wait() ends    *)
(* spuriously: the safety part of StartReturns.                            *)
THEOREM StartLoopReturnsALoop == SpecThread => []StartedExists
<1>1. ThreadInv => StartedExists
  BY DEF ThreadInv, Published
<1>. QED  BY <1>1, ThreadInvariant, PTL
-----------------------------------------------------------------------------
(* The loop of an EventLoopThread.                                         *)

\* until threadFunc returns the loop is in a state of EventLoop, and then it
\* is out of loop() for ever
LoopOfThread == IF ipc = "returned" THEN TypeOK /\ pc = "out" ELSE IInv

(* A step of an EventLoopThread is a step of its EventLoop or none, but    *)
(* for a wakeup() that comes when the loop is gone.                        *)
LEMMA ThreadTakesLoopSteps ==
    ASSUME [NextThread]_allVars
    PROVE  [Next]_vars \/ \E t \in Threads : LateWakeup(t)
<1>1. CASE OwnerStep \/ SpuriousWakeup \/ Destroy
  <2>1. CASE DestroyQuits
    BY <2>1, OwnerAssumption DEF DestroyQuits, Next, OtherThread
  <2>2. CASE ~ DestroyQuits
    BY <1>1, <2>2
    DEF OwnerStep, StartThread, CheckLoop, WaitEnds, DestroyQuitsNothing, Join, SpuriousWakeup, Destroy
  <2>. QED  BY <2>1, <2>2
<1>2. CASE ThreadStep \/ InitCallback \/ InLoop
  BY <1>2 DEF ThreadStep, Publish, EnterLoop, LoopRuns, ThreadEnds, InitCallback, InLoop, Next
<1>3. ASSUME NEW t \in Threads, UseLoop(t) PROVE Next
  BY <1>3 DEF UseLoop, Next, OtherThread
<1>4. CASE Kernel
  BY <1>4 DEF Kernel, Next
<1>5. CASE UNCHANGED allVars
  BY <1>5 DEF allVars
<1>. QED  BY <1>1, <1>2, <1>3, <1>4, <1>5 DEF NextThread

(* Once threadFunc has returned only the kernel and late wakeups touch     *)
(* what is left of the loop.                                               *)
LEMMA GoneLoopIsQuiet ==
    ASSUME Published, [NextThread]_allVars, ipc = "returned"
    PROVE  /\ ipc' = "returned"
           /\ UNCHANGED vars \/ UserEvent \/ \E t \in Threads : LateWakeup(t)
<1>1. CASE OwnerStep \/ SpuriousWakeup \/ Destroy
  BY <1>1 DEF OwnerStep, StartThread, CheckLoop, WaitEnds, DestroyQuits, DestroyQuitsNothing,
              Join, SpuriousWakeup, Destroy, Published
<1>2. ~ (ThreadStep \/ InitCallback \/ InLoop \/ \E t \in Threads : UseLoop(t))
  BY DEF ThreadStep, Publish, EnterLoop, LoopRuns, ThreadEnds, InitCallback, InLoop, UseLoop
<1>3. ASSUME NEW t \in Threads, LateWakeup(t) PROVE ipc' = ipc
  BY <1>3 DEF LateWakeup, ownVars
<1>4. CASE Kernel \/ UNCHANGED allVars
  BY <1>4 DEF Kernel, allVars, ownVars
<1>. QED  BY <1>1, <1>2, <1>3, <1>4 DEF NextThread

(* Every step of the thread keeps its loop in a state of EventLoop.        *)
LEMMA LoopOfThreadStep == Published /\ LoopOfThread /\ [NextThread]_allVars => LoopOfThread'
<1> SUFFICES ASSUME Published, LoopOfThread, [NextThread]_allVars PROVE LoopOfThread'
  OBVIOUS
<1>0. TypeOK
  BY DEF LoopOfThread, IInv
<1>1. CASE ipc = "returned"
  <2>1. pc' = "out"
    BY <1>1, GoneLoopIsQuiet DEF LoopOfThread, vars, loopVars, UserEvent, LateWakeup
  <2>2. CASE UNCHANGED vars \/ UserEvent
    BY <1>0, <1>1, <2>1, <2>2, TypeStep, GoneLoopIsQuiet DEF LoopOfThread, Next
  <2>3. ASSUME NEW t \in Threads, LateWakeup(t) PROVE TypeOK'
    BY <1>0, <2>3 DEF TypeOK, LateWakeup, history
  <2>. QED  BY <1>1, <2>1, <2>2, <2>3, GoneLoopIsQuiet DEF LoopOfThread
<1>2. CASE ipc # "returned"
  <2>1. IInv /\ [Next]_vars
    BY <1>2, ThreadTakesLoopSteps DEF LoopOfThread, LateWakeup
  <2>2. IInv'
    BY <2>1, InductiveStep
  <2>3. ASSUME ipc' = "returned" PROVE pc' = "out"
    BY <1>2, <2>3
    DEF NextThread, OwnerStep, StartThread, CheckLoop, WaitEnds, DestroyQuits, DestroyQuitsNothing,
        Join, SpuriousWakeup, Destroy, ThreadStep, Publish, EnterLoop, LoopRuns, ThreadEnds,
        InitCallback, InLoop, UseLoop, LateWakeup, Kernel, allVars, ownVars, vars, loopVars, looping
  <2>. QED  BY <2>2, <2>3 DEF LoopOfThread, IInv
<1>. QED  BY <1>1, <1>2

(* So it is in every reachable state.                                      *)
LEMMA LoopOfThreadInvariant == SpecThread => []LoopOfThread
<1>1. Init => IInv
  BY TypeInit DEF Init, IInv, FlagTellsPhase, VectorIsLocal, WakeupCovers, WorkWaits
<1>2. InitThread => LoopOfThread
  BY <1>1 DEF InitThread, LoopOfThread
<1>3. ThreadInv => Published
  BY DEF ThreadInv
<1>. QED  BY <1>2, <1>3, LoopOfThreadStep, ThreadInvariant, PTL DEF SpecThread

(* The loop that an EventLoopThread runs, used by its init callback, by    *)
(* the owner and by other threads from before loop() until after it has    *)
(* returned, never sleeps on a queued functor either.                      *)
THEOREM LoopOfThreadWakesUp == SpecThread => []NoLostWakeup
<1>1. LoopOfThread => NoLostWakeup
  BY DEF LoopOfThread, IInv, WakeupCovers, NoLostWakeup
<1>. QED  BY <1>1, LoopOfThreadInvariant, PTL

(* And it is a FIFO mailbox: what the destructor of an EventLoopThread and *)
(* a wakeup() of a loop that is gone do reorders and repeats no functor.   *)
THEOREM LoopOfThreadIsMailbox == SpecThread => IsMailbox
<1>1. InitThread => mailbox!Init
  BY DEF InitThread, Init, mailbox!Init
<1>2. Published /\ LoopOfThread /\ [NextThread]_allVars => [mailbox!Next]_(mailbox!vars)
  <2> SUFFICES ASSUME Published, LoopOfThread, [NextThread]_allVars PROVE [mailbox!Next]_(mailbox!vars)
    OBVIOUS
  <2>1. CASE ipc = "returned"
    <3>1. pendingFunctors' = pendingFunctors /\ functors' = functors /\ ran' = ran
      BY <2>1, GoneLoopIsQuiet DEF vars, loopVars, history, UserEvent, LateWakeup
    <3>. QED  BY <3>1, QueueStutters
  <2>2. CASE ipc # "returned"
    BY <2>2, ThreadTakesLoopSteps, MailboxStep DEF LoopOfThread, LateWakeup
  <2>. QED  BY <2>1, <2>2
<1>3. ThreadInv => Published
  BY DEF ThreadInv
<1>. QED
  BY <1>1, <1>2, <1>3, ThreadInvariant, LoopOfThreadInvariant, PTL
  DEF SpecThread, IsMailbox, mailbox!Spec
=============================================================================
