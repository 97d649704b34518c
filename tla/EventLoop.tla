----------------------------- MODULE EventLoop -----------------------------
(***************************************************************************)
(* muduo::net::EventLoop: one reactor, the thread that owns it, and the    *)
(* other threads that hold a pointer to it and call runInLoop,             *)
(* queueInLoop and quit.                                                   *)
(*                                                                         *)
(* The loop thread is a program with the control point pc:                 *)
(*   "out"      user code outside loop()                                   *)
(*   "test"     about to test quit_ in the while                           *)
(*   "poll"     in poller_->poll(), with the events of the fds it watches  *)
(*   "events"   between two callbacks of the active channels               *)
(*   "handler"  inside the callback of a user's channel                    *)
(*   "run"      in doPendingFunctors, between two functors                 *)
(*   "functor"  inside a functor                                           *)
(* Handlers, functors and the code outside loop() are the user's: there    *)
(* the loop thread may call the EventLoop again.  A call from another      *)
(* thread is two steps, since the mutex is released, or quit_ written,     *)
(* before wakeup() writes the eventfd.                                     *)
(*                                                                         *)
(* Definitions named X_... and marked "defect" are X with a plausible slip *)
(* in it; nothing uses them except the check that a property notices it.   *)
(***************************************************************************)
EXTENDS Naturals, Sequences

CONSTANTS Threads,     \* the threads that are not the loop's thread
          Functors,    \* callbacks; each is handed to the loop at most once
          EventfdMax   \* largest value of the eventfd counter

ASSUME EventfdMaxAssumption == EventfdMax \in Nat \ {0}

VARIABLES pc,                      \* control point of the loop thread
          quit,                    \* quit_
          callingPendingFunctors,  \* callingPendingFunctors_
          pendingFunctors,         \* pendingFunctors_
          functors,                \* doPendingFunctors' local vector
          active,                  \* activeChannels_ not yet dispatched
          wakeupFd,                \* counter of the eventfd
          userReady,               \* a user's channel has an event
          tpc,                     \* where each other thread is in its call
          ran,                     \* history: queued functors, as they ran
          inline,                  \* history: functors runInLoop ran in place
          early                    \* history: functors the loop thread queued
                                   \*   outside loop()

loopVars == <<pc, quit, callingPendingFunctors, pendingFunctors, functors,
              active, wakeupFd, userReady, tpc>>
history  == <<ran, inline, early>>
vars     == <<loopVars, history>>

Channels == {"wakeup", "user"}

\* looping_: set by loop() on entry and cleared when it returns
looping == pc # "out"

\* the loop thread is executing the user's code
InUserCode == pc \in {"out", "handler", "functor"}

Elements(s) == {s[i] : i \in DOMAIN s}

\* f has never been handed to this loop
Fresh(f) ==
    f \notin Elements(ran) \cup Elements(functors) \cup Elements(pendingFunctors) \cup inline

\* what eventfd holds after wakeup(): a write that would overflow it fails
\* with EAGAIN and is only logged
Signalled(n) == IF n < EventfdMax THEN n + 1 ELSE n

\* defect: the loop thread never wakes itself
WakesItself_never == FALSE

\* queueInLoop in the loop thread calls wakeup() only from a functor
WakesItself == callingPendingFunctors

\* defect: the functors are copied, not moved
LeftBySwap_copy == pendingFunctors

\* what functors.swap(pendingFunctors_) leaves pending: the local vector's
\* content, which is empty
LeftBySwap == <<>>

Init ==
    /\ pc = "out"
    /\ quit = FALSE
    /\ callingPendingFunctors = FALSE
    /\ pendingFunctors = <<>>
    /\ functors = <<>>
    /\ active = {}
    /\ wakeupFd = 0
    /\ userReady = FALSE
    /\ tpc = [t \in Threads |-> "idle"]
    /\ ran = <<>>
    /\ inline = {}
    /\ early = {}
-----------------------------------------------------------------------------
(* The loop thread inside loop().                                          *)

\* defect: loop() does not touch quit_
QuitOnEntry_kept == quit

\* quit_ = false
QuitOnEntry == FALSE

\* loop() up to the while: assert(!looping_); quit_ = false
StartLoop ==
    /\ pc = "out"
    /\ pc' = "test"
    /\ quit' = QuitOnEntry
    /\ UNCHANGED <<callingPendingFunctors, pendingFunctors, functors, active,
                   wakeupFd, userReady, tpc, history>>

\* while (!quit_): the next poll(), or loop() returns
TestQuit ==
    /\ pc = "test"
    /\ pc' = IF quit THEN "out" ELSE "poll"
    /\ UNCHANGED <<quit, callingPendingFunctors, pendingFunctors, functors, active,
                   wakeupFd, userReady, tpc, history>>

ReadyChannels ==
    {c \in Channels : \/ c = "wakeup" /\ wakeupFd > 0
                      \/ c = "user" /\ userReady}

\* poll() returns the channels that have events
Poll ==
    /\ pc = "poll"
    /\ ReadyChannels # {}
    /\ active' = ReadyChannels
    /\ pc' = "events"
    /\ UNCHANGED <<quit, callingPendingFunctors, pendingFunctors, functors,
                   wakeupFd, userReady, tpc, history>>

\* poll() returns no channel: kPollTimeMs is over, or a signal interrupted it
PollNothing ==
    /\ pc = "poll"
    /\ active' = {}
    /\ pc' = "events"
    /\ UNCHANGED <<quit, callingPendingFunctors, pendingFunctors, functors,
                   wakeupFd, userReady, tpc, history>>

\* the wakeup channel's callback: a read of an eventfd resets it
HandleRead ==
    /\ pc = "events"
    /\ "wakeup" \in active
    /\ active' = active \ {"wakeup"}
    /\ wakeupFd' = 0
    /\ UNCHANGED <<pc, quit, callingPendingFunctors, pendingFunctors, functors,
                   userReady, tpc, history>>

\* a user's channel: its callback consumes the event and may call the loop
HandleUserEvent ==
    /\ pc = "events"
    /\ "user" \in active
    /\ active' = active \ {"user"}
    /\ userReady' = FALSE
    /\ pc' = "handler"
    /\ UNCHANGED <<quit, callingPendingFunctors, pendingFunctors, functors,
                   wakeupFd, tpc, history>>

\* all active channels are done: doPendingFunctors() sets its flag and swaps
DoPendingFunctors ==
    /\ pc = "events"
    /\ active = {}
    /\ callingPendingFunctors' = TRUE
    /\ functors' = pendingFunctors
    /\ pendingFunctors' = LeftBySwap
    /\ pc' = "run"
    /\ UNCHANGED <<quit, active, wakeupFd, userReady, tpc, history>>

\* functors[i]()
RunFunctor ==
    /\ pc = "run"
    /\ functors # <<>>
    /\ ran' = Append(ran, Head(functors))
    /\ functors' = Tail(functors)
    /\ pc' = "functor"
    /\ UNCHANGED <<quit, callingPendingFunctors, pendingFunctors, active,
                   wakeupFd, userReady, tpc, inline, early>>

\* the user's code returns to the loop
Return ==
    /\ \/ pc = "handler" /\ pc' = "events"
       \/ pc = "functor" /\ pc' = "run"
    /\ UNCHANGED <<quit, callingPendingFunctors, pendingFunctors, functors,
                   active, wakeupFd, userReady, tpc, history>>

\* doPendingFunctors() returns
EndIteration ==
    /\ pc = "run"
    /\ functors = <<>>
    /\ callingPendingFunctors' = FALSE
    /\ pc' = "test"
    /\ UNCHANGED <<quit, pendingFunctors, functors, active, wakeupFd,
                   userReady, tpc, history>>
-----------------------------------------------------------------------------
(* Calls made by the loop thread itself, from the user's code.             *)

\* queueInLoop
QueueInLoop(f) ==
    /\ InUserCode
    /\ Fresh(f)
    /\ pendingFunctors' = Append(pendingFunctors, f)
    /\ wakeupFd' = IF WakesItself THEN Signalled(wakeupFd) ELSE wakeupFd
    /\ early' = IF looping THEN early ELSE early \cup {f}
    /\ UNCHANGED <<pc, quit, callingPendingFunctors, functors, active,
                   userReady, tpc, ran, inline>>

\* runInLoop in the loop thread runs the callback in place
RunInLoop(f) ==
    /\ InUserCode
    /\ Fresh(f)
    /\ inline' = inline \cup {f}
    /\ UNCHANGED <<loopVars, ran, early>>

\* quit in the loop thread: no wakeup
QuitInLoop ==
    /\ InUserCode
    /\ quit' = TRUE
    /\ UNCHANGED <<pc, callingPendingFunctors, pendingFunctors, functors,
                   active, wakeupFd, userReady, tpc, history>>
-----------------------------------------------------------------------------
(* Calls made by another thread t.                                         *)

\* runInLoop or queueInLoop, up to the end of the critical section
QueueFrom(t, f) ==
    /\ tpc[t] = "idle"
    /\ Fresh(f)
    /\ pendingFunctors' = Append(pendingFunctors, f)
    /\ tpc' = [tpc EXCEPT ![t] = "wakeup"]
    /\ UNCHANGED <<pc, quit, callingPendingFunctors, functors, active,
                   wakeupFd, userReady, history>>

\* defect: quit only sets the flag
QuitFrom_silent(t) ==
    /\ tpc[t] = "idle"
    /\ quit' = TRUE
    /\ UNCHANGED <<pc, callingPendingFunctors, pendingFunctors, functors,
                   active, wakeupFd, userReady, tpc, history>>

\* quit, up to the assignment
QuitFrom(t) ==
    /\ tpc[t] = "idle"
    /\ quit' = TRUE
    /\ tpc' = [tpc EXCEPT ![t] = "wakeup"]
    /\ UNCHANGED <<pc, callingPendingFunctors, pendingFunctors, functors,
                   active, wakeupFd, userReady, history>>

\* wakeup()
Wakeup(t) ==
    /\ tpc[t] = "wakeup"
    /\ wakeupFd' = Signalled(wakeupFd)
    /\ tpc' = [tpc EXCEPT ![t] = "idle"]
    /\ UNCHANGED <<pc, quit, callingPendingFunctors, pendingFunctors, functors,
                   active, userReady, history>>

\* the kernel: a file descriptor of a user's channel becomes ready
UserEvent ==
    /\ ~userReady
    /\ userReady' = TRUE
    /\ UNCHANGED <<pc, quit, callingPendingFunctors, pendingFunctors, functors,
                   active, wakeupFd, tpc, history>>
-----------------------------------------------------------------------------
\* the steps of loop() that need nobody else
LoopStep ==
    \/ TestQuit
    \/ Poll
    \/ HandleRead
    \/ HandleUserEvent
    \/ DoPendingFunctors
    \/ RunFunctor
    \/ Return
    \/ EndIteration

LoopThreadCall == QuitInLoop \/ \E f \in Functors : QueueInLoop(f) \/ RunInLoop(f)

OtherThread(t) == Wakeup(t) \/ QuitFrom(t) \/ \E f \in Functors : QueueFrom(t, f)

Next ==
    \/ StartLoop
    \/ LoopStep
    \/ PollNothing
    \/ LoopThreadCall
    \/ \E t \in Threads : OtherThread(t)
    \/ UserEvent

Spec == Init /\ [][Next]_vars

\* loop() runs, callbacks return, and a thread finishes the call it is in.
\* Nothing is assumed of the poll timeout, of the kernel's other events and
\* of the users' calls: what leads to a step here is a wakeup.
Fairness == WF_vars(LoopStep) /\ \A t \in Threads : WF_vars(Wakeup(t))

FairSpec == Spec /\ Fairness
-----------------------------------------------------------------------------
TypeOK ==
    /\ pc \in {"out", "test", "poll", "events", "handler", "run", "functor"}
    /\ quit \in BOOLEAN
    /\ callingPendingFunctors \in BOOLEAN
    /\ pendingFunctors \in Seq(Functors)
    /\ functors \in Seq(Functors)
    /\ active \in SUBSET Channels
    /\ wakeupFd \in 0..EventfdMax
    /\ userReady \in BOOLEAN
    /\ tpc \in [Threads -> {"idle", "wakeup"}]
    /\ ran \in Seq(Functors)
    /\ inline \in SUBSET Functors
    /\ early \in SUBSET Functors

\* a functor waits that was not queued by the loop thread outside loop()
WorkWaits == \E i \in DOMAIN pendingFunctors : pendingFunctors[i] \notin early

\* the eventfd is readable, or a thread is about to make it so
WakeupComing == wakeupFd > 0 \/ \E t \in Threads : tpc[t] = "wakeup"

\* The loop never goes to sleep in poll() on a functor another thread or a
\* callback has queued: queueInLoop's condition for wakeup() is enough, and
\* the read of the eventfd before the swap of pendingFunctors_ loses none.
NoLostWakeup == pc = "poll" /\ WorkWaits => WakeupComing

\* The loop implements a FIFO mailbox: a queued functor runs at most once,
\* in the order of push_back across all threads, however batches are cut.
mailbox == INSTANCE Mailbox WITH todo <- functors \o pendingFunctors, done <- ran
IsMailbox == mailbox!Spec

\* A functor queued while the loop runs is run, or the loop is stopped; no
\* poll timeout is needed for it.
QueuedFunctorRuns ==
    \A f \in Functors :
        (looping /\ f \in Elements(pendingFunctors) \ early)
            ~> (f \in Elements(ran) \/ ~looping)

\* quit() called while the loop runs makes loop() return, from whatever
\* thread and wherever the loop thread is, without a poll timeout.
QuitStopsLoop == (looping /\ quit) ~> ~looping
=============================================================================
