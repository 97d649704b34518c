----------------------------- MODULE TcpClient -----------------------------
(***************************************************************************)
(* muduo::net::TcpClient on top of its Connector, in one loop, with a user *)
(* who calls connect(), disconnect() and stop() and destroys the client in *)
(* the loop thread (in the handler of another channel) or in one other     *)
(* thread.                                                                 *)
(*                                                                         *)
(* Of a TcpConnection only its life is kept: state_, the close callback,   *)
(* whether its channel is in the poller, and who holds a TcpConnectionPtr. *)
(***************************************************************************)
EXTENDS Connector

CONSTANTS MaxConns,   \* bound: connections the server accepts
          MaxCalls    \* bound: calls of the user

ASSUME BoundsAssumption == MaxConns \in Nat /\ MaxCalls \in Nat

Conns == 1..MaxConns

VARIABLES client,         \* "alive", in its destructor "dying", or "dead"
          clientConnect,  \* the client's connect_
          retry,          \* retry_
          connection,     \* connection_, or 0
          nextConnId,     \* nextConnId_
          cstate,         \* state_ of each connection; "none" before it exists
          closeCallback,  \* of each connection: "client" or "detached"
          added,          \* its channel is in the poller
          keeps,          \* the user holds a pointer to a connection that is up
          hack,           \* the timer that holds the connector for a second
          restarting,     \* the loop is between removeConnection's test and restart()
          tpc, tconn,     \* where the other thread is, and the pointer it holds
          calls,          \* calls the user has left
          connects,       \* history: calls of connect()
          destroyer,      \* history: "loop" or "thread" destroyed the client
          stopped,        \* history: stop() was "asked" for or is "done", and no
                          \*   connect() has begun since; or "no"
          raced           \* history: stop() began between the test and restart()

conns == <<connection, nextConnId, cstate, closeCallback, added>>
thread == <<tpc, tconn>>
user == <<calls, connects, destroyer, stopped, raced>>
clientVars == <<client, clientConnect, retry, conns, keeps, hack, restarting, thread, user>>
connectorVars == <<attempt, ready, round, pending, failed>>
vars == <<connectorVars, clientVars>>

Init ==
    /\ InitConnector
    /\ client = "alive" /\ clientConnect = TRUE
    /\ retry \in BOOLEAN /\ keeps \in BOOLEAN
    /\ connection = 0 /\ nextConnId = 1
    /\ cstate = [c \in Conns |-> "none"]
    /\ closeCallback = [c \in Conns |-> "client"]
    /\ added = [c \in Conns |-> FALSE]
    /\ hack = FALSE /\ restarting = FALSE
    /\ tpc = "idle" /\ tconn = 0
    /\ calls = MaxCalls /\ connects = 0 /\ destroyer = "none"
    /\ stopped = "no" /\ raced = FALSE

Functors == {pending[i] : i \in DOMAIN pending} \cup {batch[i] : i \in DOMAIN batch}

IsUp(c) == cstate[c] \in {"kConnected", "kDisconnecting"}

\* somebody holds a TcpConnectionPtr of c
Held(c) ==
    \/ connection = c /\ client # "dead"
    \/ tconn = c
    \/ \E f \in Functors : f.op \in {"connectDestroyed", "setCloseCallback"} /\ f.c = c
    \/ keeps /\ IsUp(c)

Deleted(c) == cstate[c] # "none" /\ ~Held(c)

\* the last ConnectorPtr is gone
Freed == client = "dead" /\ timers = 0 /\ ~hack

\* a Channel or a functor with a bare this is left of the connector
ConnectorInUse ==
    \/ channel # "none"
    \/ \E f \in Functors : f.op \in {"startInLoop", "stopInLoop", "resetChannel"}
-----------------------------------------------------------------------------
(* Connections.                                                            *)

\* newConnection
NewConnection ==
    LET c == nextConnId
    IN  /\ nextConnId' = c + 1
        /\ connection' = c
        /\ cstate' = [cstate EXCEPT ![c] = "kConnected"]
        /\ added' = [added EXCEPT ![c] = TRUE]
        /\ UNCHANGED <<client, clientConnect, retry, closeCallback, keeps, hack, restarting,
                       thread, user>>

\* the attempt succeeds while somebody wants the connection
ConnectorConnects ==
    /\ nextConnId <= MaxConns
    /\ connect /\ client # "dead"
    /\ HandleConnected
    /\ NewConnection

\* it succeeds after stop(), and the socket is closed
ConnectorConnectsForNobody ==
    /\ ~connect
    /\ HandleConnected
    /\ UNCHANGED clientVars

\* newConnectionCallback_ of a destroyed client
ConnectorConnectsTooLate ==
    /\ connect /\ client = "dead"
    /\ Handles(ConnectorCh) /\ state = "kConnecting"
    /\ failed' = "newConnection:client"
    /\ UNCHANGED <<attempt, ready, pending, clientVars>>

\* the other end closes
PeerCloses(c) ==
    /\ added[c] /\ IsUp(c) /\ ConnCh(c) \notin ready
    /\ ready' = ready \cup {ConnCh(c)}
    /\ UNCHANGED <<attempt, round, pending, failed, clientVars>>

\* retry_ && connect_
Reconnects == retry /\ clientConnect

Queue(f) == pending' = Append(pending, f)

\* handleClose in the loop, with closeCallback_: removeConnection up to its
\* test, or detail::removeConnection after the client's destruction
HandleClose(c) ==
    /\ Handles(ConnCh(c)) /\ IsUp(c)
    /\ cstate' = [cstate EXCEPT ![c] = "kDisconnected"]
    /\ ready' = ready \ {ConnCh(c)}
    /\ Queue([op |-> "connectDestroyed", c |-> c])
    /\ \/ /\ closeCallback[c] = "client" /\ client # "dead"
          /\ connection' = 0
          /\ restarting' = Reconnects
          /\ failed' = IF connection = c THEN failed ELSE "removeConnection:connection_"
       \/ /\ closeCallback[c] = "client" /\ client = "dead"
          /\ failed' = "removeConnection:client"
          /\ UNCHANGED <<connection, restarting>>
       \/ /\ closeCallback[c] = "detached"
          /\ UNCHANGED <<connection, restarting, failed>>
    /\ UNCHANGED <<attempt, client, clientConnect, retry, nextConnId, closeCallback, added, keeps,
                   hack, thread, user>>

\* restart(), called by removeConnection
Restart ==
    /\ restarting
    /\ connect' = TRUE
    /\ StartInLoop("kDisconnected", TRUE, timers)
    /\ restarting' = FALSE
    /\ UNCHANGED <<ready, round, client, clientConnect, retry, conns, keeps, hack, thread, user>>

RunConnectDestroyed ==
    /\ Runs("connectDestroyed")
    /\ added' = [added EXCEPT ![Head(batch).c] = FALSE]
    /\ UNCHANGED <<attempt, ready, pending, failed, client, clientConnect, retry, connection,
                   nextConnId, cstate, closeCallback, keeps, hack, restarting, thread, user>>

RunSetCloseCallback ==
    /\ Runs("setCloseCallback")
    /\ closeCallback' = [closeCallback EXCEPT ![Head(batch).c] = "detached"]
    /\ UNCHANGED <<attempt, ready, pending, failed, client, clientConnect, retry, connection,
                   nextConnId, cstate, added, keeps, hack, restarting, thread, user>>
-----------------------------------------------------------------------------
(* The user in the loop thread: calls from the handler of another channel. *)

UserReady ==
    /\ calls > 0 /\ client = "alive" /\ UserCh \notin ready
    /\ ready' = ready \cup {UserCh}
    /\ UNCHANGED <<attempt, round, pending, failed, clientVars>>

\* the handler calls the client, unless its destructor has begun
Calls ==
    /\ Handles(UserCh)
    /\ client = "alive" /\ calls > 0
    /\ calls' = calls - 1
    /\ UNCHANGED <<retry, nextConnId, added, keeps, restarting, thread, raced>>

\* it has nothing to do
HandleUser ==
    /\ Handles(UserCh)
    /\ UNCHANGED <<attempt, ready, pending, failed, clientVars>>

CallConnect ==
    /\ Calls
    /\ clientConnect' = TRUE
    /\ connect' = TRUE
    /\ StartInLoop(state, TRUE, timers)
    /\ connects' = connects + 1
    /\ stopped' = "no"
    /\ UNCHANGED <<ready, client, connection, cstate, closeCallback, hack, destroyer>>

\* connection_->shutdown()
ShutDown ==
    cstate' = IF connection = 0 \/ cstate[connection] # "kConnected" THEN cstate
              ELSE [cstate EXCEPT ![connection] = "kDisconnecting"]

CallDisconnect ==
    /\ Calls
    /\ clientConnect' = FALSE
    /\ ShutDown
    /\ UNCHANGED <<attempt, ready, pending, failed, client, connection, closeCallback, hack,
                   connects, destroyer, stopped>>

CallStop ==
    /\ Calls
    /\ clientConnect' = FALSE
    /\ connect' = FALSE
    /\ StopInLoop(UserCh, FALSE)
    /\ stopped' = IF tpc \in {"connect", "start"} THEN "no" ELSE "done"
    /\ UNCHANGED <<client, connection, cstate, closeCallback, hack, connects, destroyer>>

\* ~TcpClient with a connection, which is left to itself
CallDestroyConnected ==
    /\ Calls /\ connection # 0 /\ tpc = "idle"
    /\ closeCallback' = [closeCallback EXCEPT ![connection] = "detached"]
    /\ client' = "dead" /\ destroyer' = "loop"
    /\ UNCHANGED <<attempt, ready, pending, failed, clientConnect, connection, cstate, hack,
                   connects, stopped>>

\* ~TcpClient without one
CallDestroy ==
    /\ Calls /\ connection = 0 /\ tpc = "idle"
    /\ connect' = FALSE
    /\ StopInLoop(UserCh, FALSE)
    /\ hack' = TRUE
    /\ client' = "dead" /\ destroyer' = "loop"
    /\ UNCHANGED <<clientConnect, connection, cstate, closeCallback, connects, stopped>>
-----------------------------------------------------------------------------
(* The user in another thread.                                             *)

ThreadGoes(from, to) == tpc = from /\ tpc' = to

\* what no step of the thread changes
ThreadLeaves ==
    UNCHANGED <<state, channel, sockets, timers, gaveUp, ready, round, failed, retry,
                nextConnId, closeCallback, added, keeps, restarting>>

\* connect() and stop() set the client's flag,
ThreadBegins(to, flag) ==
    /\ calls > 0 /\ client = "alive"
    /\ ThreadGoes("idle", to)
    /\ calls' = calls - 1
    /\ clientConnect' = flag
    /\ stopped' = CASE to = "connect" -> "no" [] to = "stop" -> "asked" [] OTHER -> stopped
    /\ raced' = (raced \/ (to = "stop" /\ restarting))
    /\ connects' = IF to = "connect" THEN connects + 1 ELSE connects
    /\ ThreadLeaves
    /\ UNCHANGED <<connect, pending, client, connection, cstate, hack, tconn, destroyer>>

\* then the connector's,
ThreadSets(from, to, flag) ==
    /\ ThreadGoes(from, to)
    /\ connect' = flag
    /\ ThreadLeaves
    /\ UNCHANGED <<pending, client, clientConnect, connection, cstate, hack, tconn, calls,
                   connects, destroyer, stopped, raced>>

\* then queue startInLoop or stopInLoop
ThreadQueues(from, op) ==
    /\ ThreadGoes(from, "idle")
    /\ Queue([op |-> op])
    /\ ThreadLeaves
    /\ UNCHANGED <<connect, client, clientConnect, connection, cstate, hack, tconn, calls,
                   connects, destroyer, stopped, raced>>

\* disconnect() looks at connection_
ThreadShutsDown ==
    /\ ThreadGoes("disconnect", "idle")
    /\ ShutDown
    /\ ThreadLeaves
    /\ UNCHANGED <<connect, pending, client, clientConnect, connection, hack, tconn, calls,
                   connects, destroyer, stopped, raced>>

\* ~TcpClient copies connection_
ThreadDestroys ==
    /\ calls > 0 /\ client = "alive"
    /\ ThreadGoes("idle", IF connection = 0 THEN "destroy" ELSE "detach")
    /\ calls' = calls - 1
    /\ tconn' = connection
    /\ client' = "dying" /\ destroyer' = "thread"
    /\ ThreadLeaves
    /\ UNCHANGED <<connect, pending, clientConnect, connection, cstate, hack, connects, stopped, raced>>

\* with a connection: setCloseCallback is queued
ThreadDetaches ==
    /\ ThreadGoes("detach", "idle")
    /\ Queue([op |-> "setCloseCallback", c |-> tconn])
    /\ tconn' = 0
    /\ client' = "dead"
    /\ ThreadLeaves
    /\ UNCHANGED <<connect, clientConnect, connection, cstate, hack, calls, connects,
                   destroyer, stopped, raced>>

\* without: stop(), and a timer that holds the connector
ThreadStopsConnector ==
    /\ ThreadGoes("destroyed", "idle")
    /\ Queue([op |-> "stopInLoop"])
    /\ hack' = TRUE
    /\ client' = "dead"
    /\ ThreadLeaves
    /\ UNCHANGED <<connect, clientConnect, connection, cstate, tconn, calls, connects,
                   destroyer, stopped, raced>>

ThreadCall ==
    \/ ThreadBegins("connect", TRUE) \/ ThreadBegins("stop", FALSE) \/ ThreadBegins("disconnect", FALSE)
    \/ ThreadDestroys

ThreadStep ==
    \/ ThreadSets("connect", "start", TRUE) \/ ThreadQueues("start", "startInLoop")
    \/ ThreadSets("stop", "stopping", FALSE) \/ ThreadQueues("stopping", "stopInLoop")
    \/ ThreadSets("destroy", "destroyed", FALSE) \/ ThreadStopsConnector
    \/ ThreadShutsDown \/ ThreadDetaches
-----------------------------------------------------------------------------
(* Functors and timers.                                                    *)

RunStart ==
    /\ Runs("startInLoop")
    /\ StartInLoop(state, connect, timers)
    /\ UNCHANGED <<connect, ready, clientVars>>

RunStop ==
    /\ Runs("stopInLoop")
    /\ StopInLoop("none", connect)
    /\ stopped' = IF /\ stopped = "asked" /\ tpc \notin {"stop", "stopping"}
                     /\ \A i \in DOMAIN pending : pending[i].op # "stopInLoop"
                     /\ \A i \in 2..Len(batch) : batch[i].op # "stopInLoop"
                  THEN "done" ELSE stopped
    /\ UNCHANGED <<connect, client, clientConnect, retry, conns, keeps, hack, restarting, thread,
                   calls, connects, destroyer, raced>>

\* the timer that holds the connector, apart from the retry timers
HackCh == <<"timer", 1>>

\* it is in the TimerQueue; another thread adds it by a functor behind those
\* it queued before
HackSet ==
    /\ hack
    /\ destroyer = "thread" => ~\E f \in Functors : f.op \in {"startInLoop", "stopInLoop"}

\* its second is over; before the loop has run the functors of the connector
\* only when the loop needs more than that second to get there
HackDue ==
    /\ HackSet /\ HackCh \notin ready
    /\ ready' = ready \cup {HackCh}
    /\ slow' = (slow \/ ConnectorInUse)
    /\ UNCHANGED <<attempt, phase, active, todo, batch, pending, failed, clientVars>>

\* a round takes longer than a timer that was set in it
SlowRound ==
    /\ \/ timers > 0 /\ DueInRound(TimerCh)
       \/ HackSet /\ DueInRound(HackCh)
    /\ UNCHANGED clientVars

RunHack ==
    /\ Handles(HackCh)
    /\ hack' = FALSE
    /\ ready' = ready \ {HackCh}
    /\ UNCHANGED <<attempt, pending, failed, client, clientConnect, retry, conns, keeps,
                   restarting, thread, user>>
-----------------------------------------------------------------------------
ConnectorStep == Poll \/ Swap \/ EndIteration \/ HandleFailure \/ RunRetry \/ RunReset

LoopStep ==
    \/ /\ ~restarting
       /\ \/ ConnectorStep /\ UNCHANGED clientVars
          \/ ConnectorConnects \/ ConnectorConnectsForNobody \/ ConnectorConnectsTooLate
          \/ \E c \in Conns : HandleClose(c)
          \/ HandleUser \/ RunHack
          \/ RunConnectDestroyed \/ RunSetCloseCallback \/ RunStart \/ RunStop
    \/ Restart

UserCall ==
    \/ /\ ~restarting
       /\ \/ CallConnect \/ CallDisconnect \/ CallStop
          \/ CallDestroyConnected \/ CallDestroy
    \/ ThreadCall

KernelDecides == Resolved /\ UNCHANGED clientVars

TimerExpires == (TimerDue /\ UNCHANGED clientVars) \/ HackDue

\* an assertion, or ~Connector's, stops the program
Running == failed = "none" /\ ~(Freed /\ ConnectorInUse)

Next ==
    /\ Running
    /\ \/ LoopStep
       \/ UserCall \/ UserReady \/ ThreadStep
       \/ KernelDecides \/ TimerExpires \/ SlowRound
       \/ \E c \in Conns : PeerCloses(c)

Spec == Init /\ [][Next]_vars
\* the loop and the other thread run, the kernel decides an attempt in the
\* end, and timers expire; nothing is assumed of the user and of the server
Fairness ==
    /\ WF_vars(Running /\ LoopStep)
    /\ WF_vars(Running /\ ThreadStep)
    /\ WF_vars(Running /\ KernelDecides)
    /\ WF_vars(Running /\ TimerExpires)

FairSpec == Spec /\ Fairness
-----------------------------------------------------------------------------
\* There is at most one attempt, and it is accounted for: a socket is open
\* exactly while its Channel is in the poller and state_ says kConnecting, so
\* that no descriptor is leaked or closed while it is polled; a Channel that
\* left the poller is about to be deleted; and, until the user calls connect()
\* again, no retry timer waits during an attempt.
OneAttempt ==
    Running =>
        /\ sockets = IF channel = "in" THEN 1 ELSE 0
        /\ (channel = "in") <=> (state = "kConnecting")
        /\ (channel = "removed") <=> ([op |-> "resetChannel"] \in Functors)
        /\ state = "kConnecting" /\ connects <= 1 => timers = 0

\* A client that was stopped makes no attempt, whatever timers and functors
\* are left of earlier ones and whichever connection closes later, unless
\* stop() was called while the loop was on its way to restart().
StoppedStaysStopped == stopped = "done" /\ ~raced => state # "kConnecting"

\* The client's attempts are the ones that were asked for: one at a time, and
\* none of a client that was stopped.
AttemptsAccounted == OneAttempt /\ StoppedStaysStopped

\* No assertion fails and no deleted object is used, with these exceptions:
\* startInLoop's and connecting's after a second connect(), and connecting's
\* when a retry timer runs out before resetChannel is run; removeChannel's
\* when the handler of another channel of the round gives up the attempt;
\* calls of a client that another thread destroyed; a connector whose client
\* is destroyed in the loop with a connection, or which outlives its last
\* second in a slow loop, while resetChannel or a stopInLoop of another thread
\* is queued; and a connection that nobody holds when its client is destroyed.
\* In particular an event reaches the connector only while its attempt runs,
\* and the loop thread never deletes a connector whose channel is in the
\* poller.
AssertionsHold ==
    /\ failed = "startInLoop:state_" => connects > 1
    /\ failed = "connecting:channel_" => connects > 1 \/ slow
    /\ failed = "removeChannel:activeChannels_" =>
           phase = "events" /\ ConnectorCh \in active /\ ~connect
    /\ failed \in {"removeConnection:client", "newConnection:client"} => destroyer = "thread"
    /\ failed # "removeConnection:connection_"
    /\ failed = "none" /\ ConnectorCh \in todo => state = "kConnecting"
    /\ Freed /\ destroyer = "loop" => channel # "in"
    /\ failed = "none" /\ Freed /\ ConnectorInUse => destroyer = "thread" \/ connection # 0 \/ slow
    /\ \A c \in Conns : Deleted(c) /\ added[c] => client = "dead" /\ ~keeps

\* A client that wants a connection goes on trying: again and again it is
\* connected, an attempt is under way or a retry timer runs, unless the user
\* stops or destroys it, or connect() met an error that is only logged.
StillTrying ==
    \/ []<>(~Running \/ ~connect \/ client = "dead" \/ gaveUp \/ state \in {"kConnecting", "kConnected"})
    \/ []<><<RunRetry>>_vars
=============================================================================
