------------------------------ MODULE RpcCodec ------------------------------
(***************************************************************************)
(* muduo::net::RpcCodec: how a message becomes a frame and how the         *)
(* receiver cuts the stream into frames again.  Four bytes that stand for  *)
(* an integer or the tag are one byte here, and so is a piece of the       *)
(* payload; a checksum is the bytes it was computed from.  A Buffer is the *)
(* sequence of its readable bytes.                                         *)
(***************************************************************************)
EXTENDS Naturals, Sequences

CONSTANT MaxMessageLen   \* kMaxMessageLen

HeaderLen == 1
MinMessageLen == 2 * HeaderLen

ASSUME CodecAssumption == MaxMessageLen \in Nat

\* a byte that means what kind says; v is an integer or what it is made of
Byte(kind, v) == [kind |-> kind, v |-> v]

Tag == Byte("RPC0", 0)
Length(n) == Byte("int", n)
Checksum(s) == Byte("sum", s)

\* send: the length goes in front of tag, payload and checksum
Encode(payload) ==
    LET summed == <<Tag>> \o payload \o <<Checksum(<<Tag>> \o payload)>>
    IN  <<Length(Len(summed))>> \o summed

\* peekInt32: other bytes are read as some number that is no length
PeekInt32(b) == IF Head(b).kind = "int" THEN Head(b).v ELSE 0

\* onMessage goes on while this holds
HasHeader(b) == Len(b) >= MinMessageLen + HeaderLen

ValidLength(n) == MinMessageLen <= n /\ n <= MaxMessageLen

\* defect: one byte more than the frame is waited for
HasFrame_late(b) == Len(b) > PeekInt32(b) + HeaderLen

\* the frame is there as a whole
HasFrame(b) == Len(b) >= PeekInt32(b) + HeaderLen

\* the frame without its length
Body(b) == SubSeq(b, HeaderLen + 1, HeaderLen + PeekInt32(b))

\* parse; a payload that protobuf cannot parse, kParseError, is refused as
\* these two are and is left out
ParseError(body) ==
    LET n == Len(body)
    IN  CASE body[n] # Checksum(SubSeq(body, 1, n - HeaderLen)) -> "kCheckSumError"
          [] body[n] = Checksum(SubSeq(body, 1, n - HeaderLen)) /\ Head(body) # Tag -> "kUnknownMessageType"
          [] OTHER -> "kNoError"

Payload(body) == SubSeq(body, HeaderLen + 1, Len(body) - HeaderLen)

\* defect: the length stays in the buffer
FrameRetrieved_body(b) == SubSeq(b, PeekInt32(b) + 1, Len(b))

FrameRetrieved(b) == SubSeq(b, HeaderLen + PeekInt32(b) + 1, Len(b))
=============================================================================
