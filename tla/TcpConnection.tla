--------------------------- MODULE TcpConnection ---------------------------
(***************************************************************************)
(* muduo::net::TcpConnection: one connection, the thread of its EventLoop, *)
(* the user's callbacks and the other threads that call send and shutdown. *)
(*                                                                         *)
(* The loop thread is at the control point pc:                             *)
(*   "idle"    between two channels or functors                            *)
(*   "events"  in Channel::handleEventWithGuard, with the callbacks todo   *)
(*   "user"    in a callback of the user, to continue at the point back:   *)
(*             "idle", "events", "close" (handleClose calls closeCallback_ *)
(*             next) or "remove" (connectDestroyed removes the channel)    *)
(* The queue of functors is the FIFO mailbox that EventLoop implements.    *)
(* A thread's call is several steps: state_ is read and written without a  *)
(* lock.  failed names the first assertion that does not hold, where a     *)
(* debug build stops, or the call of a TcpServer that is gone.             *)
(*                                                                         *)
(* The functors of send and shutdown hold a bare this: the threads are     *)
(* assumed to keep their TcpConnectionPtr until these functors have run.   *)
(***************************************************************************)
EXTENDS Naturals, Sequences

CONSTANTS Threads,        \* threads that are not the loop's
          Messages,       \* what is sent; each message once
          Size,           \* bytes in each message
          HighWaterMark,  \* highWaterMark_
          MaxReads        \* bound: successful reads

ASSUME SizeAssumption == Size \in [Messages -> Nat]
ASSUME HighWaterMarkAssumption == HighWaterMark \in Nat \ {0}
ASSUME MaxReadsAssumption == MaxReads \in Nat

VARIABLES state,         \* state_
          reading,       \* the channel's interest in POLLIN
          writing,       \* the channel's interest in POLLOUT
          added,         \* the channel is in the poller's map
          outputBuffer,  \* outputBuffer_, as the bytes it holds
          functors,      \* the loop's pending functors
          pc, back, todo,
          tpc,           \* where each thread is in send or shutdown
          owner,         \* the TcpServer: "holds" the connection, is "removing"
                         \*   it, is done with it ("gone"), or was destroyed
                         \*   while it held it ("dead")
          peer,          \* the other end: open, finished (FIN), reset, or dead
                         \*   (reset, and the socket error was fetched)
          fin,           \* shutdownWrite was done
          wire,          \* bytes the kernel took, in order
          reads,         \* number of reads that returned data
          fresh,         \* messages not sent yet
          accepted,      \* history: bytes sendInLoop took charge of
          warned,        \* history: high water callbacks queued since the
                         \*   buffer was last below the mark
          calls,         \* history: callbacks of the user, repeated
                         \*   messages counted once
          raced,         \* history: shutdown() overwrote a state_ that had
                         \*   changed since it was tested
          failed         \* the assertion that failed, or "none"

conn == <<state, reading, writing, added, outputBuffer>>
control == <<pc, back, todo>>
kernel == <<peer, fin, wire, reads>>
vars == <<conn, control, kernel, functors, tpc, owner, fresh, accepted, warned,
          calls, raced, failed>>

kConnecting == "kConnecting"
kConnected == "kConnected"
kDisconnecting == "kDisconnecting"
kDisconnected == "kDisconnected"

Functor == {[op |-> "sendInLoop", msg |-> m] : m \in Messages} \cup
           {[op |-> o] : o \in {"connectEstablished", "connectDestroyed",
                                "shutdownInLoop", "writeComplete", "highWaterMark"}}

Bytes(m) == [i \in 1..Size[m] |-> <<m, i>>]

\* the connection is down for the user
Down == \E i \in DOMAIN calls : calls[i] = "down"

\* the user's record of callbacks after callback c
Logged(c) == IF calls # <<>> /\ calls[Len(calls)] = c /\ c = "message"
             THEN calls ELSE Append(calls, c)

Init ==
    /\ state = kConnecting
    /\ reading = FALSE /\ writing = FALSE /\ added = FALSE
    /\ outputBuffer = <<>>
    /\ functors = <<[op |-> "connectEstablished"]>>
    /\ pc = "idle" /\ back = "idle" /\ todo = <<>>
    /\ tpc = [t \in Threads |-> [at |-> "idle"]]
    /\ owner = "holds"
    /\ peer = "open" /\ fin = FALSE /\ wire = <<>> /\ reads = 0
    /\ fresh = Messages
    /\ accepted = <<>> /\ warned = 0 /\ calls = <<>> /\ raced = FALSE
    /\ failed = "none"

\* assert(cond): the program goes on, or stops here
Asserts(name, cond) == failed' = IF cond THEN failed ELSE name
-----------------------------------------------------------------------------
(* sendInLoop and shutdownInLoop, in the loop thread.                      *)

\* the peer or this side has closed the direction we write to
Broken == fin \/ peer \in {"reset", "dead"}

\* the socket error is cleared by whoever fetches it
ErrorFetched == IF peer = "reset" THEN "dead" ELSE peer

\* results of write(fd, data, len): the bytes taken, would-block, EPIPE, or
\* another error
WriteResults(len) ==
    IF Broken THEN {[n |-> 0, err |-> e] : e \in IF peer = "reset" THEN {"EPIPE", "other"}
                                                                   ELSE {"EPIPE"}}
              ELSE {[n |-> k, err |-> "none"] : k \in IF len = 0 THEN {0} ELSE 1..len}
                   \cup {[n |-> 0, err |-> "EWOULDBLOCK"]}

WritesDirectly == ~writing /\ outputBuffer = <<>>

\* defect: the part already written is appended again
Remaining_whole(data, n) == data

\* data+nwrote
Remaining(data, n) == SubSeq(data, n + 1, Len(data))

\* defect: the mark has to be exceeded
CrossesMark_above(oldLen, newLen) == newLen > HighWaterMark /\ oldLen < HighWaterMark

CrossesMark(oldLen, newLen) == newLen >= HighWaterMark /\ oldLen < HighWaterMark

\* if (!isWriting()) enableWriting()
WatchesOutput == TRUE

\* append what is left to outputBuffer_ and watch for POLLOUT
BufferRest(data, q) ==
    LET oldLen  == Len(outputBuffer)
        newLen  == oldLen + Len(data)
        crosses == CrossesMark(oldLen, newLen)
    IN  /\ outputBuffer' = outputBuffer \o data
        /\ writing' = WatchesOutput
        /\ added' = TRUE
        /\ functors' = IF crosses THEN Append(q, [op |-> "highWaterMark"]) ELSE q
        /\ warned' = IF crosses THEN warned + 1 ELSE warned

\* sendInLoop(data, len) with q the functors that are pending
SendInLoop(m, q) ==
    \/ /\ state = kDisconnected
       /\ functors' = q
       /\ UNCHANGED <<writing, added, outputBuffer, wire, peer, accepted, warned>>
    \/ /\ state # kDisconnected
       /\ ~WritesDirectly
       /\ accepted' = accepted \o Bytes(m)
       /\ UNCHANGED <<wire, peer>>
       /\ IF Size[m] = 0
          THEN functors' = q /\ UNCHANGED <<outputBuffer, writing, added, warned>>
          ELSE BufferRest(Bytes(m), q)
    \/ /\ state # kDisconnected
       /\ WritesDirectly
       /\ peer' = ErrorFetched
       /\ \E r \in WriteResults(Size[m]) :
            /\ wire' = wire \o SubSeq(Bytes(m), 1, r.n)
            /\ accepted' = IF r.err = "EPIPE" THEN accepted ELSE accepted \o Bytes(m)
            /\ IF r.err # "EPIPE" /\ r.n < Size[m]
               THEN BufferRest(Remaining(Bytes(m), r.n), q)
               ELSE /\ functors' = IF r.err = "none" THEN Append(q, [op |-> "writeComplete"])
                                                     ELSE q
                    /\ UNCHANGED <<outputBuffer, writing, added, warned>>

\* defect: the output buffer is not waited for
FinAfterShutdown_now(w) == TRUE

\* shutdownInLoop: fin afterwards, when isWriting() is w
FinAfterShutdown(w) == fin \/ ~w
-----------------------------------------------------------------------------
(* The loop thread between two callbacks: events and functors.             *)

\* what poll() may report for the socket: POLLIN for data or a FIN, POLLHUP
\* and POLLERR when the connection is over; interest decides about POLLIN
\* and POLLOUT, and a channel with no interest is not watched
PossibleEvents ==
    {e \in {"HUP", "ERR", "IN", "OUT"} :
        /\ reading \/ writing
        /\ \/ e = "IN" /\ reading /\ (peer # "open" \/ reads < MaxReads)
           \/ e = "OUT" /\ writing
           \/ e = "HUP" /\ (peer \in {"reset", "dead"} \/ (peer = "finished" /\ fin))
           \/ e = "ERR" /\ peer = "reset"}

\* the callbacks handleEventWithGuard makes for revents, in its order; IN
\* stands for POLLPRI and POLLRDHUP too, which it treats alike, and ERR for
\* POLLNVAL
Callbacks(revents) ==
    LET If(cond, c) == IF cond THEN <<c>> ELSE <<>>
    IN  If("HUP" \in revents /\ "IN" \notin revents, "close") \o If("ERR" \in revents, "error")
        \o If("IN" \in revents, "read") \o If("OUT" \in revents, "write")

\* poll() returns this channel with revents; an end of the connection is
\* always reported
HandleEvent(revents) ==
    /\ pc = "idle" /\ revents # {} /\ revents \subseteq PossibleEvents
    /\ PossibleEvents \cap {"HUP", "ERR"} \subseteq revents
    /\ pc' = "events"
    /\ todo' = Callbacks(revents)
    /\ UNCHANGED <<conn, kernel, back, functors, tpc, owner, raced, fresh, accepted, warned,
                   calls, failed>>

\* the next callback of the channel is c
Take(c) == pc = "events" /\ todo # <<>> /\ Head(todo) = c /\ todo' = Tail(todo)

\* call the user's callback c, then go on at point p
CallUser(c, p) == pc' = "user" /\ back' = p /\ calls' = Logged(c)

\* defect: the channel keeps its interests
AfterDisableAll_kept(interest) == interest

\* channel_->disableAll()
AfterDisableAll(interest) == FALSE

\* handleClose, up to the return of connectionCallback_
HandleClose ==
    /\ Asserts("handleClose: state_", state \in {kConnected, kDisconnecting})
    /\ state' = kDisconnected
    /\ reading' = AfterDisableAll(reading) /\ writing' = AfterDisableAll(writing)
    /\ CallUser("down", "close")
    /\ UNCHANGED <<added, outputBuffer, functors, tpc, owner, raced, fresh, accepted, warned>>

HandleClosed ==
    /\ Take("close")
    /\ HandleClose
    /\ UNCHANGED kernel

\* read() may return 0
EndOfFile == peer # "open"

\* handleRead: data, end of file, or an error (which SO_ERROR then clears)
HandleRead ==
    /\ Take("read")
    /\ \/ /\ reads < MaxReads /\ peer \in {"open", "finished"}
          /\ reads' = reads + 1
          /\ CallUser("message", "events")
          /\ UNCHANGED <<conn, functors, tpc, owner, raced, fresh, accepted, warned, failed,
                         peer, fin, wire>>
       \/ /\ EndOfFile
          /\ HandleClose
          /\ UNCHANGED kernel
       \/ /\ peer = "reset"
          /\ peer' = ErrorFetched
          /\ UNCHANGED <<conn, pc, back, functors, tpc, owner, raced, fresh, accepted, warned,
                         calls, failed, fin, wire, reads>>

\* handleError fetches the error and logs it
HandleError ==
    /\ Take("error")
    /\ peer' = ErrorFetched
    /\ UNCHANGED <<conn, fin, wire, reads, pc, back, functors, tpc, owner, raced, fresh, accepted, warned,
                   calls, failed>>

\* defect: the end of the buffer is not looked at
FinAfterDrain_forgotten(drained) == fin

\* handleWrite ends with shutdownInLoop when the buffer is drained
FinAfterDrain(drained) ==
    IF drained /\ state = kDisconnecting THEN FinAfterShutdown(FALSE) ELSE fin

\* defect: the channel stays interested in POLLOUT
WritingAfterDrain_kept(drained) == TRUE

WritingAfterDrain(drained) == ~drained

\* handleWrite; a write that fails is only logged, whatever the error: one that
\* takes nothing (EWOULDBLOCK) is as if POLLOUT had not been reported
HandleWrite ==
    /\ Take("write")
    /\ \/ /\ writing /\ ~Broken
          /\ \E n \in 1..Len(outputBuffer) :
               LET rest    == SubSeq(outputBuffer, n + 1, Len(outputBuffer))
                   drained == rest = <<>>
               IN  /\ wire' = wire \o SubSeq(outputBuffer, 1, n)
                   /\ outputBuffer' = rest
                   /\ writing' = WritingAfterDrain(drained)
                   /\ functors' = IF drained THEN Append(functors, [op |-> "writeComplete"])
                                             ELSE functors
                   /\ fin' = FinAfterDrain(drained)
                   /\ warned' = IF Len(rest) < HighWaterMark THEN 0 ELSE warned
                   /\ peer' = peer
       \/ /\ writing /\ Broken
          /\ peer' = ErrorFetched
          /\ UNCHANGED <<wire, outputBuffer, writing, functors, fin, warned>>
       \/ /\ ~writing
          /\ peer' = peer
          /\ UNCHANGED <<wire, outputBuffer, writing, functors, fin, warned>>
    /\ UNCHANGED <<state, reading, added, pc, back, tpc, owner, raced, fresh, accepted, calls,
                   failed, reads>>

\* handleEventWithGuard returns
EventsDone ==
    /\ pc = "events" /\ todo = <<>>
    /\ pc' = "idle"
    /\ UNCHANGED <<conn, kernel, back, todo, functors, tpc, owner, raced, fresh, accepted, warned,
                   calls, failed>>
-----------------------------------------------------------------------------
(* Functors.  Run(o) takes the next one.                                   *)

Run(o) == pc = "idle" /\ functors # <<>> /\ Head(functors).op = o

ConnectEstablished ==
    /\ Run("connectEstablished")
    /\ Asserts("connectEstablished: state_", state = kConnecting)
    /\ state' = kConnected
    /\ reading' = TRUE /\ added' = TRUE
    /\ functors' = Tail(functors)
    /\ CallUser("up", "idle")
    /\ UNCHANGED <<writing, outputBuffer, todo, tpc, owner, raced, fresh, accepted, warned, kernel>>

\* Channel::remove and the poller's removeChannel
RemoveChannel == added' = FALSE /\ Asserts("remove: isNoneEvent()", ~reading /\ ~writing /\ added)

\* defect: connectDestroyed does not look at state_
StillUp_always == TRUE

\* connectDestroyed: the user has not seen this connection go down
StillUp == state = kConnected

\* connectDestroyed of a connected connection, up to connectionCallback_
ConnectDestroyedUp ==
    /\ Run("connectDestroyed") /\ StillUp
    /\ state' = kDisconnected
    /\ reading' = AfterDisableAll(reading) /\ writing' = AfterDisableAll(writing)
    /\ functors' = Tail(functors)
    /\ CallUser("down", "remove")
    /\ UNCHANGED <<added, outputBuffer, todo, tpc, owner, raced, fresh, accepted, warned, kernel, failed>>

\* connectDestroyed otherwise
ConnectDestroyed ==
    /\ Run("connectDestroyed") /\ ~StillUp
    /\ RemoveChannel
    /\ functors' = Tail(functors)
    /\ UNCHANGED <<state, reading, writing, outputBuffer, control, kernel, tpc, owner, raced, fresh,
                   accepted, warned, calls>>

\* sendInLoop for a message of another thread
RunSend ==
    /\ Run("sendInLoop")
    /\ SendInLoop(Head(functors).msg, Tail(functors))
    /\ UNCHANGED <<state, reading, control, fin, reads, tpc, owner, raced, fresh, calls, failed>>

\* shutdownInLoop for another thread
RunShutdown ==
    /\ Run("shutdownInLoop")
    /\ functors' = Tail(functors)
    /\ fin' = FinAfterShutdown(writing)
    /\ UNCHANGED <<conn, control, peer, wire, reads, tpc, owner, raced, fresh, accepted, warned,
                   calls, failed>>

\* writeCompleteCallback_ or highWaterMarkCallback_
RunNotice ==
    /\ Run("writeComplete") \/ Run("highWaterMark")
    /\ functors' = Tail(functors)
    /\ pc' = "user" /\ back' = "idle"
    /\ UNCHANGED <<conn, kernel, todo, tpc, owner, raced, fresh, accepted, warned, calls, failed>>
-----------------------------------------------------------------------------
(* The user's callback in the loop thread.                                 *)

\* shutdown is "NOT thread safe, no simultaneous calling"
NobodyShutsDown == \A t \in Threads : tpc[t].at \notin {"setState", "queueShutdown"}

\* send
UserSend(m) ==
    /\ pc = "user" /\ m \in fresh
    /\ fresh' = fresh \ {m}
    /\ IF state = kConnected
       THEN SendInLoop(m, functors)
       ELSE UNCHANGED <<functors, writing, added, outputBuffer, wire, peer, accepted, warned>>
    /\ UNCHANGED <<state, reading, control, fin, reads, tpc, owner, raced, calls, failed>>

\* shutdown
UserShutdown ==
    /\ pc = "user" /\ NobodyShutsDown
    /\ state = kConnected
    /\ state' = kDisconnecting
    /\ fin' = FinAfterShutdown(writing)
    /\ UNCHANGED <<reading, writing, added, outputBuffer, control, peer, wire, reads, functors,
                   tpc, owner, raced, fresh, accepted, warned, calls, failed>>

\* closeCallback_: removeConnection of the TcpServer, which has to exist
CloseCallback ==
    /\ Asserts("removeConnection: no server", owner = "holds")
    /\ owner' = IF owner = "holds" THEN "removing" ELSE owner

\* the callback returns
UserReturns ==
    /\ pc = "user"
    /\ \/ back \in {"idle", "events"} /\ pc' = back /\ UNCHANGED <<added, owner, failed>>
       \/ back = "close" /\ pc' = "events" /\ CloseCallback /\ UNCHANGED added
       \/ back = "remove" /\ pc' = "idle" /\ RemoveChannel /\ UNCHANGED owner
    /\ UNCHANGED <<state, reading, writing, outputBuffer, kernel, back, todo, functors, tpc,
                   raced, fresh, accepted, warned, calls>>
-----------------------------------------------------------------------------
(* Other threads.  They have the connection since its first callback.      *)

Goto(t, p) == tpc' = [tpc EXCEPT ![t] = p]

othersUnchanged == UNCHANGED <<reading, writing, added, outputBuffer, control, kernel, owner,
                               accepted, warned, calls, failed>>

\* send: state_ == kConnected
ThreadSend(t, m) ==
    /\ tpc[t].at = "idle" /\ calls # <<>> /\ m \in fresh
    /\ fresh' = fresh \ {m}
    /\ IF state = kConnected THEN Goto(t, [at |-> "send", msg |-> m]) ELSE tpc' = tpc
    /\ UNCHANGED <<state, functors, raced>> /\ othersUnchanged

\* send: runInLoop(sendInLoop)
ThreadQueuesSend(t) ==
    /\ tpc[t].at = "send"
    /\ functors' = Append(functors, [op |-> "sendInLoop", msg |-> tpc[t].msg])
    /\ Goto(t, [at |-> "idle"])
    /\ UNCHANGED <<state, fresh, raced>> /\ othersUnchanged

\* shutdown: state_ == kConnected
ThreadShutdown(t) ==
    /\ tpc[t].at = "idle" /\ calls # <<>> /\ NobodyShutsDown
    /\ state = kConnected
    /\ Goto(t, [at |-> "setState"])
    /\ UNCHANGED <<state, functors, fresh, raced>> /\ othersUnchanged

\* shutdown: setState(kDisconnecting), whatever state_ is by now
ThreadSetsState(t) ==
    /\ tpc[t].at = "setState"
    /\ state' = kDisconnecting
    /\ raced' = (raced \/ state # kConnected)
    /\ Goto(t, [at |-> "queueShutdown"])
    /\ UNCHANGED <<functors, fresh>> /\ othersUnchanged

\* shutdown: runInLoop(shutdownInLoop)
ThreadQueuesShutdown(t) ==
    /\ tpc[t].at = "queueShutdown"
    /\ functors' = Append(functors, [op |-> "shutdownInLoop"])
    /\ Goto(t, [at |-> "idle"])
    /\ UNCHANGED <<state, fresh, raced>> /\ othersUnchanged
-----------------------------------------------------------------------------
(* The environment: the TcpServer and the peer.                            *)

\* removeConnectionInLoop, or the destructor of the TcpServer
OwnerLetsGo ==
    /\ \/ owner = "removing" /\ owner' = "gone"
       \/ owner = "holds" /\ owner' = "dead"
    /\ functors' = Append(functors, [op |-> "connectDestroyed"])
    /\ UNCHANGED <<conn, control, kernel, tpc, raced, fresh, accepted, warned, calls, failed>>

PeerEnds ==
    /\ \/ peer = "open" /\ peer' \in {"finished", "reset"}
       \/ peer = "finished" /\ peer' = "reset"
    /\ UNCHANGED <<conn, control, fin, wire, reads, functors, tpc, owner, raced, fresh, accepted,
                   warned, calls, failed>>
-----------------------------------------------------------------------------
RunFunctor == ConnectEstablished \/ ConnectDestroyedUp \/ ConnectDestroyed
              \/ RunSend \/ RunShutdown \/ RunNotice

Dispatch == HandleClosed \/ HandleRead \/ HandleError \/ HandleWrite \/ EventsDone

ThreadStep(t) == ThreadQueuesSend(t) \/ ThreadSetsState(t) \/ ThreadQueuesShutdown(t)

Next ==
    /\ failed = "none"
    /\ \/ \E revents \in SUBSET PossibleEvents : HandleEvent(revents)
       \/ Dispatch
       \/ RunFunctor
       \/ UserReturns
       \/ UserShutdown
       \/ \E m \in Messages : UserSend(m)
       \/ \E t \in Threads : ThreadStep(t) \/ ThreadShutdown(t) \/ \E m \in Messages : ThreadSend(t, m)
       \/ OwnerLetsGo
       \/ PeerEnds

Spec == Init /\ [][Next]_vars

\* The loop thread runs (LoopRuns), a functor is run although events keep
\* coming, a call that was begun is finished, and the socket is reported
\* while it is ready: the peer reads on, so POLLOUT comes again and again.
LoopRuns == failed = "none" /\ (Dispatch \/ UserReturns)
Fairness ==
    /\ WF_vars(LoopRuns)
    /\ SF_vars(failed = "none" /\ RunFunctor)
    /\ SF_vars(failed = "none" /\ HandleEvent(PossibleEvents))
    /\ \A t \in Threads : WF_vars(failed = "none" /\ ThreadStep(t))

FairSpec == Spec /\ Fairness
-----------------------------------------------------------------------------
TypeOK ==
    /\ state \in {kConnecting, kConnected, kDisconnecting, kDisconnected}
    /\ reading \in BOOLEAN /\ writing \in BOOLEAN /\ added \in BOOLEAN
    /\ outputBuffer \in Seq(Messages \X Nat)
    /\ functors \in Seq(Functor)
    /\ pc \in {"idle", "events", "user"}
    /\ back \in {"idle", "events", "close", "remove"}
    /\ todo \in Seq({"close", "error", "read", "write"})
    /\ tpc \in [Threads -> {[at |-> a] : a \in {"idle", "setState", "queueShutdown"}}
                           \cup {[at |-> "send", msg |-> m] : m \in Messages}]
    /\ owner \in {"holds", "removing", "gone", "dead"}
    /\ peer \in {"open", "finished", "reset", "dead"}
    /\ fin \in BOOLEAN
    /\ wire \in Seq(Messages \X Nat)
    /\ reads \in 0..MaxReads
    /\ fresh \subseteq Messages
    /\ accepted \in Seq(Messages \X Nat)
    /\ warned \in 0..1
    /\ calls \in Seq({"up", "message", "down"})
    /\ raced \in BOOLEAN

\* Whatever write() takes at a time, the bytes on the wire followed by the
\* output buffer are the bytes of the messages sendInLoop accepted, in that
\* order: none is lost, repeated or overtaken.
BytesInOrder == wire \o outputBuffer = accepted

\* Until the connection is down, the channel waits for POLLOUT exactly while
\* bytes are buffered: none is stuck, and the loop does not spin.
WritingIffBuffered == ~Down => (writing <=> outputBuffer # <<>>)

\* The high water callback is queued exactly once each time the output
\* buffer grows from below the mark to it.
WarnedOncePerExcursion == warned = IF Len(outputBuffer) >= HighWaterMark THEN 1 ELSE 0

\* The user sees the connection up, then messages, then down, each of up and
\* down once, whatever ends the connection and also when the TcpServer is
\* destroyed first; only a shutdown() that raced with the end is excepted.
CallbackProtocol ==
    raced \/ calls \in {<<>>, <<"up">>, <<"up", "message">>, <<"up", "message", "down">>, <<"up", "down">>}

\* No assertion on the way fails, state_ in connectEstablished and
\* handleClose and Channel::remove's "assert(isNoneEvent())", unless the
\* TcpServer was destroyed under the connection or shutdown() raced with its
\* end.
AssertionsHold == failed # "none" => raced \/ owner = "dead"

\* connectDestroyed removes a channel without interests, whoever calls it.
DestroyedIsQuiet == failed = "remove: isNoneEvent()" => raced

\* FIN never overtakes buffered bytes: while the connection is not down,
\* shutdownWrite happens only with an empty output buffer.
FinAfterData == [][fin' /\ ~fin /\ ~Down => outputBuffer' = <<>>]_vars

\* an assertion has stopped the program
Stopped == failed # "none"

\* Buffered bytes reach the kernel or the connection comes down.
BufferDrains == outputBuffer # <<>> ~> outputBuffer = <<>> \/ Down \/ Stopped

\* shutdown() ends in a FIN, however much was buffered, or the connection
\* comes down first.
ShutdownSendsFin == state = kDisconnecting ~> fin \/ Down \/ Stopped

\* A connection whose peer is gone comes down for the user.
PeerEndIsSeen == peer # "open" /\ calls # <<>> ~> Down \/ Stopped

\* Nothing that was begun is left: buffered bytes drain, shutdown() sends its
\* FIN and the peer's end is seen, unless an assertion stops the program.
ConnectionProgresses == BufferDrains /\ ShutdownSendsFin /\ PeerEndIsSeen
=============================================================================
