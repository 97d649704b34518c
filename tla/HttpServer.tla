----------------------------- MODULE HttpServer -----------------------------
(***************************************************************************)
(* muduo::net::HttpServer on one connection: the client's bytes come out   *)
(* of the socket in arbitrary pieces, go through the connection's input    *)
(* Buffer and are parsed line by line.                                     *)
(*                                                                         *)
(* A byte is CR, LF or the whole text of a line; a request is the sequence *)
(* of its bytes.  Of the connection only state_ is kept, on which send()   *)
(* and shutdown() depend; TcpConnection models the rest.  The text of the  *)
(* responses and the path are left out, and so are bodies, which the code  *)
(* does not read.                                                          *)
(***************************************************************************)
EXTENDS Buffer, SequencesExt

CONSTANTS Requests,     \* what the client may send
          MaxRequests   \* bound: how many of them

CR == "CR"
LF == "LF"

\* texts of lines
Get10 == "GET HTTP/1.0"
Get11 == "GET HTTP/1.1"
BadVersion == "GET HTTP/2"
BadMethod == "FOO HTTP/1.1"
Other == "Host: example"
Close == "Connection: close"
KeepAlive == "Connection: Keep-Alive"

VARIABLES wire,       \* bytes the client sent and the server has not read
          input,      \* inputBuffer_ of the connection
          state,      \* state_ of the HttpContext
          request,    \* its request_: method_, version_ and the header Connection
          connected,  \* the connection is in kConnected
          pc,         \* idle, parse (in parseRequest), bad or end (in onMessage)
          default,    \* httpCallback_ is defaultHttpCallback
          responses,  \* what was sent to the client
          sent,       \* history: the requests the client has sent
          taken,      \* history: the bytes the parser has taken from the buffer
          pipelined,  \* history: a request was sent before the last one was answered
          failed      \* the assertion that stopped the program, or "none"

context == <<state, request>>
history == <<sent, pipelined>>
vars == <<wire, input, context, connected, pc, default, responses, history, taken, failed>>

NewRequest == [method |-> "kInvalid", version |-> "kUnknown", connection |-> ""]

Init ==
    /\ wire = <<>> /\ input = NewBuffer
    /\ state = "kExpectRequestLine" /\ request = NewRequest
    /\ connected = TRUE
    /\ pc = "idle"
    /\ default \in BOOLEAN
    /\ responses = <<>>
    /\ sent = <<>> /\ pipelined = FALSE /\ taken = <<>>
    /\ failed = "none"

\* the client sends a request
ClientSends(r) ==
    /\ Len(sent) < MaxRequests
    /\ wire' = wire \o r
    /\ sent' = Append(sent, r)
    /\ pipelined' = (pipelined \/ Len(responses) < Len(sent))
    /\ UNCHANGED <<input, context, connected, pc, default, responses, taken, failed>>

\* TcpConnection::handleRead with n bytes that have arrived, then onMessage
HandleRead(n) ==
    /\ pc = "idle"
    /\ n <= WritableBytes(input) + ExtraBuf
    /\ input' = ReadFd(input, SubSeq(wire, 1, n))
    /\ wire' = SubSeq(wire, n + 1, Len(wire))
    /\ pc' = "parse"
    /\ UNCHANGED <<context, connected, default, responses, history, taken, failed>>
-----------------------------------------------------------------------------
(* parseRequest, one turn of its loop at a time.                           *)

\* defect: a lone CR ends a line
Lines_cr(s) == {i \in 1 .. Len(s) : s[i] = CR}

\* where a CRLF begins
Lines(s) == {i \in 1 .. Len(s) - 1 : s[i] = CR /\ s[i + 1] = LF}

HasLine == Lines(Peek(input)) # {}

FindCRLF == CHOOSE i \in Lines(Peek(input)) : \A j \in Lines(Peek(input)) : i <= j

\* the text before it
Line == SubSeq(Peek(input), 1, FindCRLF - 1)

\* retrieveUntil(crlf + 2)
LineRetrieved == Retrieve(input, FindCRLF + 1)

\* what it takes from the buffer
TakenWithLine == taken \o Line \o <<CR, LF>>

NoMore ==
    /\ pc = "parse" /\ ~HasLine
    /\ pc' = "end"
    /\ UNCHANGED <<wire, input, context, connected, default, responses, history, taken, failed>>

\* processRequestLine; setMethod, called when the line has a space in it,
\* asserts that the method is not known yet.  It is when bytes follow a line
\* that was refused for its version: nothing resets the request then
RequestLine ==
    /\ pc = "parse" /\ HasLine /\ state = "kExpectRequestLine"
    /\ failed' = IF Line # <<>> /\ request.method # "kInvalid" THEN "setMethod: method_" ELSE failed
    /\ \/ /\ Line \in {<<Get10>>, <<Get11>>}
          /\ request' = [request EXCEPT !.method = "kGet",
                                        !.version = IF Line = <<Get10>> THEN "kHttp10" ELSE "kHttp11"]
          /\ state' = "kExpectHeaders"
          /\ input' = LineRetrieved /\ taken' = TakenWithLine
          /\ pc' = "parse"
       \/ /\ Line \notin {<<Get10>>, <<Get11>>}
          /\ request' = [request EXCEPT !.method = CASE Line = <<>> -> @
                                                     [] Line = <<BadVersion>> -> "kGet"
                                                     [] OTHER -> "kInvalid"]
          /\ pc' = "bad"
          /\ UNCHANGED <<state, input, taken>>
    /\ UNCHANGED <<wire, connected, default, responses, history>>

\* addHeader, for the header the server looks at
Header ==
    /\ pc = "parse" /\ HasLine /\ state = "kExpectHeaders" /\ Line # <<>>
    /\ request' = [request EXCEPT !.connection = IF Head(Line) \in {Close, KeepAlive} THEN Head(Line) ELSE @]
    /\ input' = LineRetrieved /\ taken' = TakenWithLine
    /\ UNCHANGED <<wire, state, connected, pc, default, responses, history, failed>>

\* a line without a colon ends the headers
EndOfHeaders ==
    /\ pc = "parse" /\ HasLine /\ state = "kExpectHeaders" /\ Line = <<>>
    /\ state' = "kGotAll"
    /\ input' = LineRetrieved /\ taken' = TakenWithLine
    /\ pc' = "end"
    /\ UNCHANGED <<wire, request, connected, default, responses, history, failed>>
-----------------------------------------------------------------------------
(* onMessage.                                                              *)

\* send(r), when the connection is up
Sent(r) == IF connected THEN Append(responses, r) ELSE responses

BadRequest ==
    /\ pc = "bad"
    /\ responses' = Sent([ok |-> FALSE, close |-> TRUE])
    /\ connected' = FALSE
    /\ pc' = "end"
    /\ UNCHANGED <<wire, input, context, default, history, taken, failed>>

\* the connection is to be closed after the answer to q
MustClose(q) == q.connection = Close \/ (q.version = "kHttp10" /\ q.connection # KeepAlive)

\* HttpContext::reset; swap() does not exchange version_
AfterReset == [NewRequest EXCEPT !.version = request.version]

\* onRequest; shutdown() when the response closes the connection
OnRequest ==
    /\ pc = "end" /\ state = "kGotAll"
    /\ LET close == default \/ MustClose(request)
       IN  /\ responses' = Sent([ok |-> ~default, close |-> close])
           /\ connected' = (connected /\ ~close)
    /\ state' = "kExpectRequestLine" /\ request' = AfterReset
    /\ pc' = "idle"
    /\ UNCHANGED <<wire, input, default, history, taken, failed>>

\* there is no whole request yet
MessageDone ==
    /\ pc = "end" /\ state # "kGotAll"
    /\ pc' = "idle"
    /\ UNCHANGED <<wire, input, context, connected, default, responses, history, taken, failed>>
-----------------------------------------------------------------------------
Next ==
    /\ failed = "none"
    /\ \/ \E r \in Requests : ClientSends(r)
       \/ \E n \in 1..Len(wire) : HandleRead(n)
       \/ NoMore \/ RequestLine \/ Header \/ EndOfHeaders
       \/ BadRequest \/ OnRequest \/ MessageDone

Spec == Init /\ [][Next]_vars
-----------------------------------------------------------------------------
\* what a request is to be answered, read as a whole; of several headers the
\* last one counts
Answer(r) ==
    LET choices == SelectSeq(r, LAMBDA line : line \in {Close, KeepAlive})
        choice == IF choices # <<>> THEN Last(choices) ELSE ""
        bad == Head(r) \notin {Get10, Get11}
    IN  [ok |-> ~bad /\ ~default,
         close |-> bad \/ default \/ choice = Close \/ (Head(r) = Get10 /\ choice # KeepAlive)]

\* However the bytes are split and whatever earlier requests left behind, the
\* responses answer the requests in their order, each as it is to be answered
\* when read as a whole, and nothing is sent after one that closes the
\* connection.
AnswersInOrder ==
    /\ Len(responses) <= Len(sent)
    /\ \A i \in DOMAIN responses : responses[i] = Answer(sent[i])
    /\ \A i \in DOMAIN responses : responses[i].close => i = Len(responses) /\ ~connected

\* A client that waits for each answer gets it as soon as the last byte of its
\* request is read, and nothing of the request is left: the server never waits
\* for bytes that do not come.  A client that sends requests ahead may have to
\* send more to be answered, as onMessage answers one request a time.
AnswersAll ==
    pc = "idle" /\ wire = <<>> /\ connected /\ ~pipelined =>
        Len(responses) = Len(sent) /\ Peek(input) = <<>>

\* The right answers come, in order, and none is missing.
Answers == AnswersInOrder /\ AnswersAll

\* No byte of the client is lost, repeated or moved, wherever the bytes lie in
\* the input buffer and whether it moved or grew: what the parser has taken,
\* what the buffer holds and what is still on the wire are the bytes that were
\* sent, from the first one to the last.
BufferIsStream ==
    /\ BufferOK(input)
    /\ FlattenSeq(sent) = taken \o Peek(input) \o wire
=============================================================================
