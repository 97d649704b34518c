----------------------------- MODULE RpcChannel -----------------------------
(***************************************************************************)
(* muduo::net::RpcChannel at both ends of a connection: threads of the     *)
(* client call methods, the server's channel hands the requests to its     *)
(* services, which answer in any order and from any thread, and the        *)
(* client's channel gives each response to its call.                       *)
(*                                                                         *)
(* The two byte streams arrive in arbitrary pieces and are cut into frames *)
(* by the codec.  A peer that does not speak the protocol may add bytes to *)
(* the server's stream, and the connection may go down.  The client has no *)
(* services and receives responses only, each with its response field.     *)
(***************************************************************************)
EXTENDS RpcCodec, FiniteSets

CONSTANTS Threads,    \* threads of the client that call methods
          LoopThread, \* the one among them that runs the client's loop
          Args,       \* arguments of calls, natural numbers
          Known,      \* those that name a service and a method the server has
          MaxCalls    \* bound: calls

ASSUME RpcAssumption ==
    LoopThread \in Threads /\ Args \subseteq Nat /\ Known \subseteq Args /\ MaxCalls \in Nat

Sides == {"client", "server"}
Ids == 1..MaxCalls

VARIABLES nextId,        \* id_
          tpc,           \* where a thread is in CallMethod: idle, send, register
          caller,        \* the thread that made a call
          outstandings,  \* the ids in outstandings_
          wire,          \* bytes on their way to each side
          input,         \* inputBuffer_ of each side
          pc,            \* of each loop: idle; frames (in onMessage); closure (in
                         \*   the done->Run() of a call); stuck at a refused frame
          serving,       \* requests the services have not answered
          up,            \* the connection is up
          arg,           \* history: the argument of each call
          results,       \* history: for each call what its closure was run with
          overtaken,     \* history: calls answered before they were registered
          foreign,       \* history: bytes that are no frame were sent
          failed         \* the error that stopped the program, or "none"

calls == <<nextId, tpc, caller, outstandings>>
streams == <<wire, input, pc>>
history == <<arg, results, overtaken, foreign>>
vars == <<calls, streams, serving, up, history, failed>>

Init ==
    /\ nextId = 0
    /\ tpc = [t \in Threads |-> "idle"]
    /\ caller = [i \in Ids |-> LoopThread]
    /\ outstandings = {}
    /\ wire = [s \in Sides |-> <<>>]
    /\ input = [s \in Sides |-> <<>>]
    /\ pc = [s \in Sides |-> "idle"]
    /\ serving = {} /\ up = TRUE
    /\ arg = [i \in Ids |-> 0]
    /\ results = [i \in Ids |-> <<>>]
    /\ overtaken = {} /\ foreign = FALSE
    /\ failed = "none"

\* the payload of a message: a large argument takes two bytes
Message(type, id, a) ==
    LET m == [kind |-> type, v |-> id, arg |-> a]
    IN  IF a > 1 THEN <<m, m>> ELSE <<m>>

Sent(to, payload) == IF up THEN [wire EXCEPT ![to] = @ \o Encode(payload)] ELSE wire
-----------------------------------------------------------------------------
(* CallMethod, in any thread of the client.                                *)

\* the id of the call thread t is making
CallOf(t) == CHOOSE i \in 1..nextId : caller[i] = t /\ \A j \in i + 1 .. nextId : caller[j] # t

\* the loop thread calls in the closure of an earlier call, or when it
\* handles no message
CallBegins(t, a) ==
    /\ tpc[t] = "idle" /\ nextId < MaxCalls
    /\ t = LoopThread => pc["client"] \in {"idle", "closure"}
    /\ nextId' = nextId + 1
    /\ tpc' = [tpc EXCEPT ![t] = "send"] /\ caller' = [caller EXCEPT ![nextId'] = t]
    /\ arg' = [arg EXCEPT ![nextId'] = a]
    /\ UNCHANGED <<outstandings, streams, serving, up, results, overtaken, foreign, failed>>

CallSends(t) ==
    /\ tpc[t] = "send"
    /\ tpc' = [tpc EXCEPT ![t] = "register"]
    /\ wire' = Sent("server", Message("REQUEST", CallOf(t), arg[CallOf(t)]))
    /\ UNCHANGED <<nextId, caller, outstandings, input, pc, serving, up, history, failed>>

CallRegisters(t) ==
    /\ tpc[t] = "register"
    /\ tpc' = [tpc EXCEPT ![t] = "idle"]
    /\ outstandings' = outstandings \cup {CallOf(t)}
    /\ UNCHANGED <<nextId, caller, streams, serving, up, history, failed>>
-----------------------------------------------------------------------------
(* The two loops.                                                          *)

\* the thread of this side's loop is free
LoopFree(s) == s = "client" => tpc[LoopThread] = "idle"

\* TcpConnection::handleRead with n bytes, then onMessage
HandleRead(s, n) ==
    /\ pc[s] = "idle" /\ LoopFree(s)
    /\ input' = [input EXCEPT ![s] = @ \o SubSeq(wire[s], 1, n)]
    /\ wire' = [wire EXCEPT ![s] = SubSeq(@, n + 1, Len(@))]
    /\ pc' = [pc EXCEPT ![s] = "frames"]
    /\ UNCHANGED <<calls, serving, up, history, failed>>

\* the codec's loop is at a frame that parse accepts
AtFrame(s) ==
    /\ pc[s] = "frames" /\ HasHeader(input[s])
    /\ ValidLength(PeekInt32(input[s])) /\ HasFrame(input[s])
    /\ ParseError(Body(input[s])) = "kNoError"

FrameDone(s) ==
    /\ input' = [input EXCEPT ![s] = FrameRetrieved(@)]
    /\ UNCHANGED <<wire, pc>>

\* no whole frame is left: onMessage returns
FramesEnd(s) ==
    /\ pc[s] = "frames"
    /\ \/ ~HasHeader(input[s])
       \/ HasHeader(input[s]) /\ ValidLength(PeekInt32(input[s])) /\ ~HasFrame(input[s])
    /\ pc' = [pc EXCEPT ![s] = "idle"]
    /\ UNCHANGED <<calls, wire, input, serving, up, history, failed>>

\* the frame is refused, the connection is shut down, and as the bytes stay
\* in the buffer the loop never gets past them
FrameRefused(s) ==
    /\ pc[s] = "frames" /\ HasHeader(input[s])
    /\ \/ ~ValidLength(PeekInt32(input[s]))
       \/ /\ ValidLength(PeekInt32(input[s])) /\ HasFrame(input[s])
          /\ ParseError(Body(input[s])) # "kNoError"
    /\ pc' = [pc EXCEPT ![s] = "stuck"]
    /\ UNCHANGED <<calls, wire, input, serving, up, history, failed>>

\* onRpcMessage of the client, a response: m.id is looked up and erased, and
\* the closure of the call begins
HandleResponse ==
    LET m == Head(Payload(Body(input["client"])))
    IN  /\ AtFrame("client")
        /\ outstandings' = outstandings \ {m.v}
        /\ \/ /\ m.v \in outstandings
              /\ results' = [results EXCEPT ![m.v] = Append(@, m.arg)]
              /\ pc' = [pc EXCEPT !["client"] = "closure"]
              /\ UNCHANGED <<overtaken, wire, input>>
           \/ /\ m.v \notin outstandings
              /\ overtaken' = overtaken \cup {m.v}
              /\ FrameDone("client")
              /\ UNCHANGED results
        /\ UNCHANGED <<nextId, tpc, caller, serving, up, arg, foreign, failed>>

\* done->Run() returns, and the codec retrieves the frame
ClosureReturns ==
    /\ pc["client"] = "closure" /\ LoopFree("client")
    /\ input' = [input EXCEPT !["client"] = FrameRetrieved(@)]
    /\ pc' = [pc EXCEPT !["client"] = "frames"]
    /\ UNCHANGED <<calls, wire, serving, up, history, failed>>

\* onRpcMessage of the server, a request: a service gets it, if there is one
HandleRequest ==
    LET m == Head(Payload(Body(input["server"])))
    IN  /\ AtFrame("server")
        /\ serving' = IF m.arg \in Known THEN serving \cup {[id |-> m.v, arg |-> m.arg]} ELSE serving
        /\ FrameDone("server")
        /\ UNCHANGED <<calls, up, history, failed>>

\* the service runs its closure, doneCallback, which sends through the loop
Answer(r) ==
    /\ r \in serving /\ up /\ pc["server"] # "stuck"
    /\ serving' = serving \ {r}
    /\ wire' = Sent("client", Message("RESPONSE", r.id, r.arg))
    /\ UNCHANGED <<calls, input, pc, up, history, failed>>

\* it does so after RpcServer::onConnection has deleted the channel
AnswerTooLate(r) ==
    /\ r \in serving /\ ~up
    /\ failed' = "doneCallback: no channel"
    /\ UNCHANGED <<calls, streams, serving, up, history>>

\* when nothing else is on its way, the peer sends bytes that are no frame, a
\* frame with a wrong checksum or one with a wrong tag
ForeignBytes(bytes) ==
    /\ up /\ ~foreign /\ wire["server"] = <<>>
    /\ wire' = [wire EXCEPT !["server"] = @ \o bytes]
    /\ foreign' = TRUE
    /\ UNCHANGED <<calls, input, pc, serving, up, arg, results, overtaken, failed>>

Foreign ==
    {<<Tag, Tag, Tag>>,
     <<Length(2), Tag, Checksum(<<>>)>>,
     <<Length(2), Length(2), Checksum(<<Length(2)>>)>>}

\* the connection goes down; onConnection of the server lets the channel go
Down ==
    /\ up /\ up' = FALSE
    /\ wire' = [s \in Sides |-> <<>>]
    /\ UNCHANGED <<calls, input, pc, serving, history, failed>>
-----------------------------------------------------------------------------
LoopStep(s) ==
    \/ \E n \in 1..Len(wire[s]) : HandleRead(s, n)
    \/ FramesEnd(s) \/ FrameRefused(s)

ClientStep == LoopStep("client") \/ HandleResponse \/ ClosureReturns
ServerStep == LoopStep("server") \/ HandleRequest

Next ==
    /\ failed = "none"
    /\ \/ \E t \in Threads : (\E a \in Args : CallBegins(t, a)) \/ CallSends(t) \/ CallRegisters(t)
       \/ ClientStep \/ ServerStep
       \/ \E r \in serving : Answer(r) \/ AnswerTooLate(r)
       \/ \E bytes \in Foreign : ForeignBytes(bytes)
       \/ Down

Spec == Init /\ [][Next]_vars

\* threads and loops run, and a service answers each request in the end
FairSpec ==
    /\ Spec
    /\ \A t \in Threads : WF_vars(failed = "none" /\ (CallSends(t) \/ CallRegisters(t)))
    /\ WF_vars(failed = "none" /\ ClientStep)
    /\ WF_vars(failed = "none" /\ ServerStep)
    /\ WF_vars(failed = "none" /\ \E r \in serving : Answer(r))
-----------------------------------------------------------------------------
\* Whatever the order of the answers and however the streams are cut, a call
\* is completed at most once and with the answer to its own request, a call
\* that was registered and not completed is in outstandings_, and neither side
\* refuses a frame of the other, which holds of frames within kMaxMessageLen,
\* as send() does not look at it; bytes that are no frame reach no service.
\* Only a service that answers after the connection went down meets a channel
\* that is gone, and only a call of another thread than the loop's is
\* answered before it is registered.
ResponsesMatch ==
    /\ \A i \in Ids : Len(results[i]) <= 1 /\ (results[i] # <<>> => results[i] = <<arg[i]>>)
    /\ \A i \in outstandings : results[i] = <<>>
    /\ \A r \in serving : arg[r.id] = r.arg
    /\ pc["client"] # "stuck" /\ (pc["server"] = "stuck" => foreign)
    /\ failed # "none" => ~up
    /\ \A i \in overtaken : caller[i] # LoopThread

\* A call that is registered is completed, unless the connection goes down,
\* the server does not know the method, its stream is broken, or the response
\* came before CallMethod had registered the call.
CallCompletes ==
    \A i \in Ids :
        i \in outstandings ~>
            results[i] # <<>> \/ ~up \/ foreign \/ arg[i] \notin Known \/ i \in overtaken
=============================================================================
