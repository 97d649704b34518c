-------------------------- MODULE EventLoopThread --------------------------
(***************************************************************************)
(* muduo::net::EventLoopThread: an owner starts a thread that creates an   *)
(* EventLoop on its stack, gets a pointer to it through a mutex and a      *)
(* condition, and in the end quits the loop and joins the thread.          *)
(*                                                                         *)
(* The thread and its loop are those of EventLoop; ipc says how far        *)
(* threadFunc is: "unborn", "init" (in callback_), "enter" (published, not *)
(* yet in loop()), "loop", "returned".  opc is the owner's control point:  *)
(* "new", "check" (about to test loop_ under the mutex), "wait" (in        *)
(* cond_.wait()), "running" (startLoop returned), "quit" (in the           *)
(* destructor, about to call quit), "join", "joined".                      *)
(***************************************************************************)
EXTENDS EventLoop

CONSTANT Owner   \* the thread that owns the EventLoopThread

ASSUME OwnerAssumption == Owner \in Threads

VARIABLES opc, ipc,
          loop_,      \* loop_ is not NULL
          notified,   \* cond_ was notified while the owner waited
          selfQuit    \* history: the loop's own thread called quit()

ownVars == <<opc, ipc, loop_, notified, selfQuit>>
allVars == <<vars, ownVars>>

InitThread ==
    /\ Init
    /\ opc = "new" /\ ipc = "unborn"
    /\ loop_ = FALSE /\ notified = FALSE
    /\ selfQuit = FALSE
-----------------------------------------------------------------------------
(* The owner.                                                              *)

\* startLoop: thread_.start()
StartThread ==
    /\ opc = "new"
    /\ opc' = "check" /\ ipc' = "init"
    /\ UNCHANGED <<vars, loop_, notified, selfQuit>>

\* defect: a wakeup is taken for the notification
AfterWait_if == "running"

\* while, not if: after a wakeup loop_ is tested again
AfterWait == "check"

\* startLoop: while (loop_ == NULL) under the mutex
CheckLoop ==
    /\ opc = "check"
    /\ opc' = IF loop_ THEN "running" ELSE "wait"
    /\ notified' = FALSE
    /\ UNCHANGED <<vars, ipc, loop_, selfQuit>>

\* cond_.wait() returns after a notification
WaitEnds ==
    /\ opc = "wait" /\ notified
    /\ opc' = AfterWait
    /\ UNCHANGED <<vars, ipc, loop_, notified, selfQuit>>

\* cond_.wait() returns spuriously
SpuriousWakeup ==
    /\ opc = "wait" /\ ~notified
    /\ opc' = AfterWait
    /\ UNCHANGED <<vars, ipc, loop_, notified, selfQuit>>

\* ~EventLoopThread: exiting_ = true
Destroy ==
    /\ opc = "running" /\ tpc[Owner] = "idle"
    /\ opc' = "quit"
    /\ UNCHANGED <<vars, ipc, loop_, notified, selfQuit>>

\* ~EventLoopThread: loop_->quit(), while the loop exists
DestroyQuits ==
    /\ opc = "quit" /\ ipc # "returned"
    /\ QuitFrom(Owner)
    /\ opc' = "join"
    /\ UNCHANGED <<ipc, loop_, notified, selfQuit>>

\* ~EventLoopThread: loop_->quit() on what used to be the loop
DestroyQuitsNothing ==
    /\ opc = "quit" /\ ipc = "returned"
    /\ opc' = "join"
    /\ UNCHANGED <<vars, ipc, loop_, notified, selfQuit>>

\* ~EventLoopThread: thread_.join()
Join ==
    /\ opc = "join" /\ tpc[Owner] = "idle" /\ ipc = "returned"
    /\ opc' = "joined"
    /\ UNCHANGED <<vars, ipc, loop_, notified, selfQuit>>
-----------------------------------------------------------------------------
(* The thread.                                                             *)

\* threadFunc: callback_(&loop), which may use the loop
InitCallback ==
    /\ ipc = "init"
    /\ LoopThreadCall
    /\ UNCHANGED ownVars

\* cond_.notify()
Notifies == notified \/ opc = "wait"

\* threadFunc: loop_ = &loop under the mutex
Publish ==
    /\ ipc = "init"
    /\ ipc' = "enter"
    /\ loop_' = TRUE
    /\ notified' = Notifies
    /\ UNCHANGED <<vars, opc, selfQuit>>

\* threadFunc: loop.loop()
EnterLoop ==
    /\ ipc = "enter"
    /\ StartLoop
    /\ ipc' = "loop"
    /\ UNCHANGED <<opc, loop_, notified, selfQuit>>

\* the steps of loop()
LoopRuns ==
    /\ ipc = "loop"
    /\ LoopStep
    /\ UNCHANGED ownVars

\* a poll() that times out, and what the callbacks do with the loop
InLoop ==
    /\ ipc = "loop" /\ looping
    /\ PollNothing \/ LoopThreadCall
    /\ selfQuit' = (selfQuit \/ quit' # quit)
    /\ UNCHANGED <<opc, ipc, loop_, notified>>

\* loop() has returned: threadFunc ends and the loop is gone
ThreadEnds ==
    /\ ipc = "loop" /\ ~looping
    /\ ipc' = "returned"
    /\ UNCHANGED <<vars, opc, loop_, notified, selfQuit>>
-----------------------------------------------------------------------------
(* Threads that got the pointer from the owner use the loop while the      *)
(* EventLoopThread exists.                                                 *)
UseLoop(t) ==
    /\ t # Owner => tpc[t] = "wakeup" \/ opc = "running"
    /\ ipc # "returned"
    /\ Wakeup(t) \/ (opc = "running" /\ \E f \in Functors : QueueFrom(t, f))
    /\ UNCHANGED ownVars

Kernel == UserEvent /\ UNCHANGED ownVars

\* wakeup() of a loop that has returned: the eventfd is closed
LateWakeup(t) ==
    /\ ipc = "returned" /\ tpc[t] = "wakeup"
    /\ tpc' = [tpc EXCEPT ![t] = "idle"]
    /\ UNCHANGED <<pc, quit, callingPendingFunctors, pendingFunctors, functors, active,
                   wakeupFd, userReady, history, ownVars>>

OwnerStep == StartThread \/ CheckLoop \/ WaitEnds \/ DestroyQuits \/ DestroyQuitsNothing \/ Join

ThreadStep == Publish \/ EnterLoop \/ LoopRuns \/ ThreadEnds

NextThread ==
    \/ OwnerStep
    \/ SpuriousWakeup
    \/ Destroy
    \/ ThreadStep
    \/ InitCallback
    \/ InLoop
    \/ \E t \in Threads : UseLoop(t) \/ LateWakeup(t)
    \/ Kernel

SpecThread == InitThread /\ [][NextThread]_allVars

\* both threads run, and a call that was begun is finished; when the
\* EventLoopThread is destroyed is up to its user
FairnessThread ==
    /\ WF_allVars(OwnerStep)
    /\ WF_allVars(ThreadStep)
    /\ \A t \in Threads : WF_allVars((UseLoop(t) /\ Wakeup(t)) \/ LateWakeup(t))

FairSpecThread == SpecThread /\ FairnessThread
-----------------------------------------------------------------------------
\* The destructor's quit() finds the loop, unless the loop quit by itself.
QuitFindsLoop == opc = "quit" /\ ~selfQuit => ipc # "returned"

\* startLoop returns, as the notification is not lost, and never before the
\* loop exists, whatever the order of notification and wait and however often
\* the wait ends spuriously.
StartReturns ==
    /\ opc = "check" ~> opc = "running"
    /\ [](opc \notin {"new", "check", "wait"} => loop_ /\ ipc \notin {"unborn", "init"})

\* The destructor of an EventLoopThread whose loop is running returns.  One that
\* comes between the notification of startLoop() and loop() does not, as loop()
\* begins with quit_ = false and so forgets the quit().
RunningLoopIsJoined == opc = "quit" /\ looping ~> opc = "joined"
=============================================================================
