----------------------------- MODULE TcpServer -----------------------------
(***************************************************************************)
(* muduo::net::TcpServer with its EventLoopThreadPool: connections are     *)
(* accepted in the base loop, live in one of the I/O loops, and their      *)
(* removal goes from the I/O loop to the base loop and back.               *)
(*                                                                         *)
(* Each loop alternates between dispatching events and running the batch   *)
(* of functors it swapped out of its pending ones; EventLoop shows that a  *)
(* functor is never left behind by a loop that keeps running.  Here a loop *)
(* may quit: the destructor of the server joins the I/O threads, some of   *)
(* which may not have called loop() yet.                                   *)
(*                                                                         *)
(* Of a TcpConnection only its life is kept: state_, whether its channel   *)
(* has interests and is in the poller, and who holds a TcpConnectionPtr.   *)
(* Reads and writes are those of TcpConnection and change none of it.      *)
(* failed names the first assertion that fails, or a use of the server     *)
(* after its destruction.                                                  *)
(***************************************************************************)
EXTENDS Naturals, Sequences, FiniteSets

CONSTANTS Base,           \* loop_, the acceptor's loop
          IoLoops,        \* the loops of the threads a pool may have, a sequence
          MaxConns        \* bound: connections that clients open

\* connections, by the number in their names
Conns == 1..MaxConns

Loops == {Base} \cup {IoLoops[i] : i \in DOMAIN IoLoops}

\* each thread of the pool has a loop of its own
ASSUME LoopsAssumption ==
    /\ IoLoops \in Seq({IoLoops[i] : i \in DOMAIN IoLoops})
    /\ \A i, j \in DOMAIN IoLoops : IoLoops[i] # Base /\ (IoLoops[i] = IoLoops[j] => i = j)
ASSUME MaxConnsAssumption == MaxConns \in Nat

VARIABLES server,       \* "alive"; "starting" while the base thread is in start();
                        \*   in its destructor "destroying" connections, then
                        \*   "joining" threads; "dead"
          started,      \* started_
          listening,    \* the acceptor's listenning_
          pool,         \* loops_ of the thread pool
          next,         \* next_ of the pool, from 1
          nextConnId,   \* nextConnId_
          connections,  \* connections_
          phase,        \* of each loop: entering (loop_ is published and loop() not
                        \*   yet called), events, run, or exited
          pending,      \* pendingFunctors_ of each loop
          batch,        \* the functors each loop is running
          quit,         \* quit_ of each loop
          told,         \* the destructor has called quit() of each loop
          loop,         \* the loop of each connection
          state,        \* state_ of each connection; "none" before it exists
          interest,     \* its channel has interests
          added,        \* its channel is in the poller
          ups, downs,   \* history: connection callbacks made
          destroyed,    \* history: connectDestroyed was run
          failed

conns == <<loop, state, interest, added, ups, downs, destroyed>>
loops == <<phase, pending, batch, quit, told>>
counters == <<next, nextConnId>>
setup == <<started, listening, pool, counters>>
vars == <<server, setup, connections, loops, conns, failed>>

Functor == [op : {"connectEstablished", "connectDestroyed", "removeConnectionInLoop"}, c : Conns]
           \cup {[op |-> "listen"]}

\* the connections a functor of s keeps alive
HeldBy(s) == {s[i].c : i \in {j \in DOMAIN s : s[j].op # "listen"}}

\* somebody holds a TcpConnectionPtr of c
Held(c) ==
    \/ c \in connections
    \/ \E l \in Loops : c \in HeldBy(pending[l]) \cup HeldBy(batch[l])

Init ==
    /\ server = "alive" /\ started = FALSE /\ listening = FALSE
    /\ pool = <<>> /\ next = 1 /\ nextConnId = 1
    /\ connections = {}
    /\ phase = [l \in Loops |-> IF l = Base THEN "events" ELSE "entering"]
    /\ pending = [l \in Loops |-> <<>>]
    /\ batch = [l \in Loops |-> <<>>]
    /\ quit = [l \in Loops |-> FALSE] /\ told = [l \in Loops |-> FALSE]
    /\ loop = [c \in Conns |-> Base]
    /\ state = [c \in Conns |-> "none"]
    /\ interest = [c \in Conns |-> FALSE]
    /\ added = [c \in Conns |-> FALSE]
    /\ ups = [c \in Conns |-> 0]
    /\ downs = [c \in Conns |-> 0]
    /\ destroyed = [c \in Conns |-> FALSE]
    /\ failed = "none"

Push(l, f) == pending' = [pending EXCEPT ![l] = Append(@, f)]

\* runInLoop between the base loop and loop l runs the functor in place
RunsInBase(l) == l = Base

\* the base thread is in its loop, and not in start() or the destructor
BaseFree == server \in {"alive", "dead"}
-----------------------------------------------------------------------------
(* What connectEstablished and connectDestroyed do to the connection c.    *)

Established(c) ==
    /\ state' = [state EXCEPT ![c] = "kConnected"]
    /\ interest' = [interest EXCEPT ![c] = TRUE]
    /\ added' = [added EXCEPT ![c] = TRUE]
    /\ ups' = [ups EXCEPT ![c] = @ + 1]
    /\ UNCHANGED <<downs, destroyed>>

\* defect: connectDestroyed does not look at state_
WasUp_always(c) == TRUE

\* connectDestroyed finds the connection up
WasUp(c) == state[c] = "kConnected"

\* a connection that is up goes down first; the channel is removed
Destroyed(c) ==
    /\ state' = [state EXCEPT ![c] = IF WasUp(c) THEN "kDisconnected" ELSE @]
    /\ interest' = [interest EXCEPT ![c] = @ /\ ~WasUp(c)]
    /\ downs' = [downs EXCEPT ![c] = IF WasUp(c) THEN @ + 1 ELSE @]
    /\ added' = [added EXCEPT ![c] = FALSE]
    /\ destroyed' = [destroyed EXCEPT ![c] = TRUE]
    /\ failed' = IF interest'[c] \/ ~added[c] THEN "remove: isNoneEvent()" ELSE failed
    /\ UNCHANGED ups
-----------------------------------------------------------------------------
(* TcpServer::start.                                                       *)

\* in the base loop's thread: the thread pool, with as many threads as
\* setThreadNum said ...
StartPool(numThreads) ==
    /\ server = "alive" /\ ~started
    /\ started' = TRUE
    /\ pool' = SubSeq(IoLoops, 1, numThreads)
    /\ server' = "starting"
    /\ UNCHANGED <<listening, counters, connections, loops, conns, failed>>

\* ... and the acceptor, in place
ListenInLoop ==
    /\ server = "starting"
    /\ listening' = TRUE
    /\ server' = "alive"
    /\ UNCHANGED <<started, pool, counters, connections, loops, conns, failed>>

\* in another thread the first start() is refused by the pool
StartOutsideFirst ==
    /\ server = "alive" /\ ~started
    /\ started' = TRUE
    /\ failed' = "abortNotInLoopThread"
    /\ UNCHANGED <<server, listening, pool, counters, connections, loops, conns>>

\* one that finds started_ set, while the base thread is still in start(),
\* goes to the acceptor (bound: one call at a time)
StartOutsideAgain ==
    /\ server = "starting" /\ ~listening
    /\ \A s \in {pending[Base], batch[Base]} : \A i \in DOMAIN s : s[i].op # "listen"
    /\ Push(Base, [op |-> "listen"])
    /\ UNCHANGED <<server, setup, connections, phase, batch, quit, told, conns, failed>>
-----------------------------------------------------------------------------
(* The base loop.                                                          *)

\* next_ after getNextLoop
Following(n) == IF n + 1 > Len(pool) THEN 1 ELSE n + 1

\* newConnection, for a connection of the accept queue
NewConnection(c) ==
    /\ server = "alive" /\ listening
    /\ phase[Base] = "events"
    /\ c = nextConnId /\ nextConnId' = c + 1
    /\ LET l == IF pool = <<>> THEN Base ELSE pool[next]
       IN  /\ next' = IF pool = <<>> THEN next ELSE Following(next)
           /\ loop' = [loop EXCEPT ![c] = l]
           /\ connections' = connections \cup {c}
           /\ IF RunsInBase(l)
              THEN Established(c) /\ pending' = pending
              ELSE /\ state' = [state EXCEPT ![c] = "kConnecting"]
                   /\ Push(l, [op |-> "connectEstablished", c |-> c])
                   /\ UNCHANGED <<interest, added, ups, downs, destroyed>>
    /\ UNCHANGED <<server, started, listening, pool, phase, batch, quit, told, failed>>

\* ~TcpServer
DestroyServer ==
    /\ server = "alive"
    /\ server' = "destroying"
    /\ UNCHANGED <<setup, connections, loops, conns, failed>>

\* its loop over connections_
DestroyConnection(c) ==
    /\ server = "destroying" /\ c \in connections
    /\ connections' = connections \ {c}
    /\ IF RunsInBase(loop[c])
       THEN Destroyed(c) /\ pending' = pending
       ELSE /\ Push(loop[c], [op |-> "connectDestroyed", c |-> c])
            /\ UNCHANGED <<state, interest, added, ups, downs, destroyed, failed>>
    /\ UNCHANGED <<server, setup, phase, batch, quit, told, loop>>

\* then the pool is destroyed
DestroyPool ==
    /\ server = "destroying" /\ connections = {}
    /\ server' = "joining"
    /\ UNCHANGED <<setup, connections, loops, conns, failed>>

\* ~EventLoopThread of the i-th thread calls quit(), when those before it
\* are joined
QuitLoop(i) ==
    /\ server = "joining" /\ ~told[pool[i]]
    /\ \A j \in 1..(i - 1) : phase[pool[j]] = "exited"
    /\ quit' = [quit EXCEPT ![pool[i]] = TRUE]
    /\ told' = [told EXCEPT ![pool[i]] = TRUE]
    /\ UNCHANGED <<server, setup, connections, phase, pending, batch, conns,
                   failed>>

\* the last thread is joined
Joined ==
    /\ server = "joining"
    /\ \A i \in DOMAIN pool : phase[pool[i]] = "exited"
    /\ server' = "dead"
    /\ UNCHANGED <<setup, connections, loops, conns, failed>>
-----------------------------------------------------------------------------
(* Any loop.                                                               *)

InPool(l) == \E i \in DOMAIN pool : pool[i] = l

\* the thread of loop l comes from startLoop's notification to loop(), which
\* begins with quit_ = false
EnterLoop(l) ==
    /\ InPool(l) /\ phase[l] = "entering"
    /\ phase' = [phase EXCEPT ![l] = "events"]
    /\ quit' = [quit EXCEPT ![l] = FALSE]
    /\ UNCHANGED <<server, setup, connections, pending, batch, told, conns, failed>>

Running(l) ==
    /\ phase[l] \notin {"entering", "exited"}
    /\ IF l = Base THEN BaseFree ELSE InPool(l)

\* doPendingFunctors swaps
Swap(l) ==
    /\ Running(l) /\ phase[l] = "events"
    /\ phase' = [phase EXCEPT ![l] = "run"]
    /\ batch' = [batch EXCEPT ![l] = pending[l]]
    /\ pending' = [pending EXCEPT ![l] = <<>>]
    /\ UNCHANGED <<server, setup, connections, quit, told, conns, failed>>

\* defect: the loop goes on
Exits_never(l) == FALSE

\* while (!quit_)
Exits(l) == quit[l]

\* the end of an iteration; functors still pending die with an EventLoop
EndBatch(l) ==
    /\ Running(l) /\ phase[l] = "run" /\ batch[l] = <<>>
    /\ phase' = [phase EXCEPT ![l] = IF Exits(l) THEN "exited" ELSE "events"]
    /\ pending' = [pending EXCEPT ![l] = IF Exits(l) THEN <<>> ELSE @]
    /\ UNCHANGED <<server, setup, connections, batch, quit, told, conns, failed>>

\* the functor loop l runs next
Runs(l, op) == Running(l) /\ phase[l] = "run" /\ batch[l] # <<>> /\ Head(batch[l]).op = op
Taken(l) == batch' = [batch EXCEPT ![l] = Tail(@)]

RunListen ==
    /\ Runs(Base, "listen")
    /\ Taken(Base)
    /\ \/ server = "alive" /\ listening' = TRUE /\ failed' = failed
       \/ server = "dead" /\ listening' = listening /\ failed' = "listen: no acceptor"
    /\ UNCHANGED <<server, started, pool, counters, connections, phase, pending, quit, told, conns>>

RunEstablished(l) ==
    /\ Runs(l, "connectEstablished")
    /\ LET c == Head(batch[l]).c
       IN  Established(c) /\ failed' = IF state[c] = "kConnecting" THEN failed
                                       ELSE "connectEstablished: state_"
    /\ Taken(l)
    /\ UNCHANGED <<server, setup, connections, phase, pending, quit, told, loop>>

RunDestroyed(l) ==
    /\ Runs(l, "connectDestroyed")
    /\ Destroyed(Head(batch[l]).c)
    /\ Taken(l)
    /\ UNCHANGED <<server, setup, connections, phase, pending, quit, told, loop>>

\* defect: the connection stays in the map
Erased_kept(c) == connections

\* defect: the map is cleared
Erased_all(c) == {}

\* connections_.erase(conn->name())
Erased(c) == connections \ {c}

\* defect: the connection is only erased
ToldToGo_never(c) == <<>>

\* what is queued to the loop of c
ToldToGo(c) == <<[op |-> "connectDestroyed", c |-> c]>>

\* removeConnectionInLoop
RemoveInLoop(c) ==
    /\ connections' = Erased(c)
    /\ pending' = [pending EXCEPT ![loop[c]] = @ \o ToldToGo(c)]
    /\ failed' = IF c \in connections THEN failed ELSE "removeConnectionInLoop: n == 1"

RunRemove ==
    /\ Runs(Base, "removeConnectionInLoop")
    /\ Taken(Base)
    /\ \/ server = "alive" /\ RemoveInLoop(Head(batch[Base]).c)
       \/ /\ server = "dead"
          /\ failed' = "removeConnectionInLoop: no server"
          /\ UNCHANGED <<connections, pending>>
    /\ UNCHANGED <<server, setup, phase, quit, told, conns>>

\* defect: the channel keeps its interests
InterestAfterClose_kept(c) == interest[c]

\* channel_->disableAll()
InterestAfterClose(c) == FALSE

\* the peer of c is gone: handleClose in the loop of c, up to and including
\* closeCallback_
HandleClose(c) ==
    /\ Running(loop[c]) /\ phase[loop[c]] = "events"
    /\ added[c] /\ interest[c]
    /\ IF state[c] \in {"kConnected", "kDisconnecting"}
       THEN IF RunsInBase(loop[c])
            THEN RemoveInLoop(c)
            ELSE /\ Push(Base, [op |-> "removeConnectionInLoop", c |-> c])
                 /\ UNCHANGED <<connections, failed>>
       ELSE failed' = "handleClose: state_" /\ UNCHANGED <<connections, pending>>
    /\ state' = [state EXCEPT ![c] = "kDisconnected"]
    /\ interest' = [interest EXCEPT ![c] = InterestAfterClose(c)]
    /\ downs' = [downs EXCEPT ![c] = @ + 1]
    /\ UNCHANGED <<server, setup, phase, batch, quit, told, loop, added, ups, destroyed>>

\* a callback of c calls shutdown()
Shutdown(c) ==
    /\ Running(loop[c]) /\ state[c] = "kConnected"
    /\ state' = [state EXCEPT ![c] = "kDisconnecting"]
    /\ UNCHANGED <<server, setup, connections, loops, loop, interest, added,
                   ups, downs, destroyed, failed>>
-----------------------------------------------------------------------------
LoopStep(l) == EnterLoop(l) \/ Swap(l) \/ EndBatch(l) \/ RunEstablished(l) \/ RunDestroyed(l)

BaseStep == ListenInLoop \/ RunListen \/ RunRemove

Destructor ==
    \/ \E c \in Conns : DestroyConnection(c)
    \/ DestroyPool
    \/ \E i \in DOMAIN pool : QuitLoop(i)
    \/ Joined

Next ==
    /\ failed = "none"
    /\ \/ \E numThreads \in 0..Len(IoLoops) : StartPool(numThreads)
       \/ StartOutsideFirst
       \/ StartOutsideAgain
       \/ \E c \in Conns : NewConnection(c) \/ HandleClose(c) \/ Shutdown(c)
       \/ \E l \in Loops : LoopStep(l)
       \/ BaseStep
       \/ DestroyServer
       \/ Destructor

Spec == Init /\ [][Next]_vars

\* every thread runs; nothing is assumed of clients and of the user
Fairness ==
    /\ WF_vars(failed = "none" /\ (BaseStep \/ LoopStep(Base)))
    /\ \A l \in Loops \ {Base} : WF_vars(failed = "none" /\ LoopStep(l))
    /\ WF_vars(failed = "none" /\ Destructor)

FairSpec == Spec /\ Fairness
-----------------------------------------------------------------------------
TypeOK ==
    /\ server \in {"alive", "starting", "destroying", "joining", "dead"}
    /\ started \in BOOLEAN /\ listening \in BOOLEAN
    /\ pool \in Seq(Loops)
    /\ next \in 1..(Len(IoLoops) + 1) /\ nextConnId \in 1..(MaxConns + 1)
    /\ connections \subseteq Conns
    /\ phase \in [Loops -> {"entering", "events", "run", "exited"}]
    /\ pending \in [Loops -> Seq(Functor)]
    /\ batch \in [Loops -> Seq(Functor)]
    /\ quit \in [Loops -> BOOLEAN] /\ told \in [Loops -> BOOLEAN]
    /\ loop \in [Conns -> Loops]
    /\ state \in [Conns -> {"none", "kConnecting", "kConnected", "kDisconnecting", "kDisconnected"}]
    /\ interest \in [Conns -> BOOLEAN] /\ added \in [Conns -> BOOLEAN]
    /\ ups \in [Conns -> 0..1] /\ downs \in [Conns -> 0..1]
    /\ destroyed \in [Conns -> BOOLEAN]

\* the TcpConnection object of c existed and is deleted
Deleted(c) == state[c] # "none" /\ ~Held(c)

\* its loop was not told to quit
Served(c) == ~quit[loop[c]]

\* When the last TcpConnectionPtr goes, the connection has left the poller:
\* no event of a loop that runs can reach a deleted channel, also while the
\* server is destroyed.
NoDanglingChannel == \A c \in Conns : Deleted(c) /\ phase[loop[c]] # "exited" => ~added[c]

\* The user of a deleted connection has seen it up once and down once, and
\* connectDestroyed was its last call, unless its loop was told to quit or an
\* assertion stopped the program.
UpAndDown ==
    failed = "none" =>
        \A c \in Conns : Deleted(c) /\ Served(c) => ups[c] = 1 /\ downs[c] = 1 /\ destroyed[c]

\* The map has every connection that is not down, so that the server can
\* find it, from accept() until closeCallback_ was run for it.
MapCoversLive ==
    server = "alive" =>
        \A c \in Conns : state[c] \in {"kConnecting", "kConnected", "kDisconnecting"} => c \in connections

\* Connections are spread evenly over the I/O loops.
RoundRobin ==
    \A i, j \in DOMAIN pool :
        Cardinality({c \in Conns : state[c] # "none" /\ loop[c] = pool[i]})
            <= 1 + Cardinality({c \in Conns : state[c] # "none" /\ loop[c] = pool[j]})

\* The map and the pool are what the server takes them for: every live
\* connection can be found, and the loops share the connections evenly.
MapAndPool == MapCoversLive /\ RoundRobin

\* Until the server is destroyed no assertion on the way of a connection
\* fails, whenever start() is called again.  A first start() in another thread
\* is excepted: StartIsThreadSafe is about it.
AssertionsHold == server = "alive" => failed \in {"none", "abortNotInLoopThread"}

\* start() is thread safe, as the comment on it says, and may be called more
\* than once.  The code breaks it: the first call in another thread than the
\* base loop's sets started_ and is stopped by the thread pool's
\* assertInLoopThread.
StartIsThreadSafe == failed # "abortNotInLoopThread"

\* quit() came before loop() set quit_ to false
QuitLost == \E l \in Loops : told[l] /\ ~quit[l]

\* A closed connection is deleted: its way to the base loop and back ends,
\* so that again and again no closed connection is left, unless an assertion
\* stops the program or the base thread waits for ever to join a loop whose
\* quit() was lost.
ClosedIsDeleted ==
    []<>(failed # "none" \/ QuitLost \/ \A c \in Conns : downs[c] = 1 => Deleted(c))

\* The destructor of the server returns, with every I/O thread joined, unless
\* an assertion stops the program or the quit() of a thread that has not
\* reached loop() yet is lost.
DestructorReturns == server = "destroying" ~> server = "dead" \/ failed # "none" \/ QuitLost
=============================================================================
