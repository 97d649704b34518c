----------------------------- MODULE Connector -----------------------------
(***************************************************************************)
(* muduo::net::Connector: the attempts to reach a server, one after the    *)
(* other, with the retry timer and the loop they run in.                   *)
(*                                                                         *)
(* A round of the loop handles all channels that were ready, in any order, *)
(* and then runs the functors that were queued by then; the channel of an  *)
(* attempt leaves the poller at once but is deleted by a queued functor.   *)
(* TcpClient adds the calls that start and stop the connector and takes    *)
(* the connected socket.  The delay of a retry and the address of the      *)
(* server are left out: a timer fires some time after it was set.          *)
(***************************************************************************)
EXTENDS Naturals, Sequences

VARIABLES connect,   \* connect_
          state,     \* state_
          channel,   \* channel_: "none"; "in" the poller; "removed" from it
          sockets,   \* sockets that were opened and neither closed nor handed over
          timers,    \* retry timers that have not fired
          gaveUp,    \* history: connect() met an error that is not retried
          ready,     \* the channels that the kernel reports
          phase,     \* of the loop: poll, events or functors
          active,    \* activeChannels_
          todo,      \* those of the round not handled yet
          pending,   \* pendingFunctors_
          batch,     \* the functors that run
          slow,      \* history: a timer ran out before the loop came to the functors
                     \*   queued when it was set
          failed     \* the assertion that stopped the program, or "none"

attempt == <<connect, state, channel, sockets, timers, gaveUp>>
round == <<phase, active, todo, batch, slow>>

\* channels of the loop: the connector's, the timerfd, that of connection c,
\* and any other one
ConnectorCh == <<"connector", 0>>
TimerCh == <<"timer", 0>>
ConnCh(c) == <<"connection", c>>
UserCh == <<"user", 0>>

InitConnector ==
    /\ connect = FALSE /\ state = "kDisconnected" /\ channel = "none"
    /\ sockets = 0 /\ timers = 0 /\ gaveUp = FALSE
    /\ ready = {} /\ active = {} /\ todo = {} /\ phase = "poll"
    /\ pending = <<>> /\ batch = <<>> /\ slow = FALSE
    /\ failed = "none"
-----------------------------------------------------------------------------
(* The loop.                                                               *)

\* poll() returns the ready channels, or because of a wakeup
Poll ==
    /\ phase = "poll" /\ (ready # {} \/ pending # <<>>)
    /\ phase' = "events"
    /\ active' = ready /\ todo' = ready
    /\ ready' = ready \ {UserCh}
    /\ UNCHANGED <<attempt, pending, batch, slow, failed>>

\* the round is over: doPendingFunctors swaps
Swap ==
    /\ phase = "events" /\ todo = {}
    /\ phase' = "functors"
    /\ batch' = pending /\ pending' = <<>>
    /\ UNCHANGED <<attempt, ready, active, todo, slow, failed>>

EndIteration ==
    /\ phase = "functors" /\ batch = <<>>
    /\ phase' = "poll"
    /\ active' = {}
    /\ UNCHANGED <<attempt, ready, todo, pending, batch, slow, failed>>

\* the loop handles channel ch of this round
Handles(ch) ==
    /\ phase = "events" /\ ch \in todo
    /\ todo' = todo \ {ch}
    /\ UNCHANGED <<phase, active, batch, slow>>

\* the loop runs the functor at the head of the batch
Runs(op) ==
    /\ phase = "functors" /\ batch # <<>> /\ Head(batch).op = op
    /\ batch' = Tail(batch)
    /\ UNCHANGED <<phase, active, todo, slow>>

\* EventLoop::removeChannel, called from the handler of channel current
RemoveAllowed(ch, current) == phase = "events" => current = ch \/ ch \notin active
-----------------------------------------------------------------------------
(* One attempt.  The actions below set attempt, pending, ready and failed. *)

\* defect: the attempt is not repeated
Rescheduled_never(tm, cn) == tm

\* tm timers after retry(), when connect_ is cn
Rescheduled(tm, cn) == IF cn THEN tm + 1 ELSE tm

\* connecting: the kernel has begun to connect
Connecting ==
    /\ state' = "kConnecting"
    /\ channel' = "in"
    /\ sockets' = sockets + 1
    /\ failed' = IF channel = "none" THEN failed ELSE "connecting:channel_"
    /\ UNCHANGED gaveUp

\* connect(), with tm timers: in progress, refused for now, or an error that
\* is only logged
Connect(tm) ==
    \/ Connecting /\ timers' = tm
    \/ /\ state' = "kDisconnected" /\ timers' = Rescheduled(tm, TRUE)
       /\ UNCHANGED <<channel, sockets, gaveUp, failed>>
    \/ /\ state' = "kDisconnected" /\ timers' = tm /\ gaveUp' = TRUE
       /\ UNCHANGED <<channel, sockets, failed>>

\* startInLoop, when state_ is st, connect_ is cn and tm timers wait
StartInLoop(st, cn, tm) ==
    /\ \/ st = "kDisconnected" /\ cn /\ Connect(tm)
       \/ /\ st # "kDisconnected" \/ ~cn
          /\ state' = st /\ timers' = tm
          /\ failed' = IF st = "kDisconnected" THEN failed ELSE "startInLoop:state_"
          /\ UNCHANGED <<channel, sockets, gaveUp>>
    /\ UNCHANGED pending

\* defect: the Channel is never deleted
ResetLater_never == pending

\* removeAndResetChannel leaves the deletion of the Channel to a functor
ResetLater == Append(pending, [op |-> "resetChannel"])

\* removeAndResetChannel, in the handler of channel current
RemoveAndResetChannel(current) ==
    /\ channel' = "removed"
    /\ pending' = ResetLater
    /\ ready' = ready \ {ConnectorCh}
    /\ failed' = IF RemoveAllowed(ConnectorCh, current) THEN failed ELSE "removeChannel:activeChannels_"

\* defect: retry() keeps the socket
ClosedByRetry_kept == sockets

\* sockets::close in retry()
ClosedByRetry == sockets - 1

\* the attempt is given up, then retry() when connect_ is cn
TakeDown(current, cn) ==
    /\ RemoveAndResetChannel(current)
    /\ sockets' = ClosedByRetry
    /\ state' = "kDisconnected"
    /\ timers' = Rescheduled(timers, cn)
    /\ UNCHANGED gaveUp

\* stopInLoop, when connect_ is cn
StopInLoop(current, cn) ==
    IF state = "kConnecting"
    THEN TakeDown(current, cn)
    ELSE UNCHANGED <<state, channel, sockets, timers, gaveUp, pending, ready, failed>>
-----------------------------------------------------------------------------
(* Events and functors of the connector.                                   *)

\* kernel: the attempt succeeds or fails
Resolved ==
    /\ channel = "in" /\ ConnectorCh \notin ready
    /\ ready' = ready \cup {ConnectorCh}
    /\ UNCHANGED <<attempt, round, pending, failed>>

\* kernel: the time of a retry timer has come; before resetChannel was run
\* only when the loop needs more than the delay, kInitRetryDelayMs at least,
\* to get there
TimerDue ==
    /\ timers > 0 /\ TimerCh \notin ready
    /\ ready' = ready \cup {TimerCh}
    /\ slow' = (slow \/ channel = "removed")
    /\ UNCHANGED <<attempt, phase, active, todo, batch, pending, failed>>

\* a round outlasts a delay: the timerfd, reported because of another timer,
\* finds that one behind ch, set in this round, run out too
DueInRound(ch) ==
    /\ phase = "events" /\ ch \notin active
    /\ active' = active \cup {ch} /\ todo' = todo \cup {ch}
    /\ slow' = TRUE
    /\ UNCHANGED <<attempt, ready, phase, batch, pending, failed>>

\* handleError, and a handleWrite of the same event that finds the attempt
\* taken down; or handleWrite with SO_ERROR or a self connect
HandleFailure ==
    /\ Handles(ConnectorCh) /\ state = "kConnecting"
    /\ TakeDown(ConnectorCh, connect)
    /\ UNCHANGED connect

\* handleWrite, up to the hand-over or the closing of the socket
HandleConnected ==
    /\ Handles(ConnectorCh) /\ state = "kConnecting"
    /\ RemoveAndResetChannel(ConnectorCh)
    /\ state' = "kConnected"
    /\ sockets' = sockets - 1
    /\ UNCHANGED <<connect, timers, gaveUp>>

\* a retry timer fires
RunRetry ==
    /\ Handles(TimerCh) /\ timers > 0
    /\ StartInLoop(state, connect, timers - 1)
    /\ ready' = ready \ {TimerCh}
    /\ UNCHANGED connect

RunReset ==
    /\ Runs("resetChannel")
    /\ channel' = "none"
    /\ UNCHANGED <<connect, state, sockets, timers, gaveUp, pending, ready, failed>>
=============================================================================
