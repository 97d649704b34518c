------------------------------- MODULE Buffer -------------------------------
(***************************************************************************)
(* muduo::net::Buffer, as operators on its three members: the vector       *)
(* buffer_ (mem, indexed from 1) and the indices readerIndex_ and          *)
(* writerIndex_ (which count from 0).  A byte is a value; the bytes        *)
(* outside the readable part are whatever was left there.                  *)
(***************************************************************************)
EXTENDS Integers, Sequences

CONSTANTS CheapPrepend,   \* kCheapPrepend
          InitialSize,    \* kInitialSize
          ExtraBuf,       \* the size of readFd's extrabuf
          Unwritten       \* a byte nobody wrote

ASSUME BufferAssumption ==
    CheapPrepend \in Nat /\ InitialSize \in Nat \ {0} /\ ExtraBuf \in Nat

Zeros(n) == [i \in 1..n |-> Unwritten]

NewBuffer ==
    [mem |-> Zeros(CheapPrepend + InitialSize), reader |-> CheapPrepend, writer |-> CheapPrepend]

BufferSize(b) == Len(b.mem)
ReadableBytes(b) == b.writer - b.reader
WritableBytes(b) == BufferSize(b) - b.writer
PrependableBytes(b) == b.reader

\* the readable bytes
Peek(b) == SubSeq(b.mem, b.reader + 1, b.writer)

\* std::copy of data to position at; the part that does not fit is lost
Copy(mem, at, data) ==
    SubSeq(SubSeq(mem, 1, at) \o data \o SubSeq(mem, at + Len(data) + 1, Len(mem)), 1, Len(mem))

RetrieveAll(b) == [b EXCEPT !.reader = CheapPrepend, !.writer = CheapPrepend]

Retrieve(b, n) ==
    IF n < ReadableBytes(b) THEN [b EXCEPT !.reader = @ + n] ELSE RetrieveAll(b)

\* defect: the room kept for prepend is counted as free
Grows_early(b, n) == WritableBytes(b) + PrependableBytes(b) < n

\* the free bytes before and after the readable ones are not enough
Grows(b, n) == WritableBytes(b) + PrependableBytes(b) < n + CheapPrepend

\* makeSpace: grow, or move the readable bytes to the front
MakeSpace(b, n) ==
    IF Grows(b, n)
    THEN [b EXCEPT !.mem = @ \o Zeros(b.writer + n - BufferSize(b))]
    ELSE [mem |-> Copy(b.mem, CheapPrepend, Peek(b)),
          reader |-> CheapPrepend, writer |-> CheapPrepend + ReadableBytes(b)]

EnsureWritableBytes(b, n) == IF WritableBytes(b) < n THEN MakeSpace(b, n) ELSE b

AppendData(b, data) ==
    LET e == EnsureWritableBytes(b, Len(data))
    IN  [e EXCEPT !.mem = Copy(@, e.writer, data), !.writer = @ + Len(data)]

\* the bytes readv put into extrabuf
Overflow(data, writable) == SubSeq(data, writable + 1, Len(data))

\* readFd: readv has returned data, no more than WritableBytes and extrabuf hold
ReadFd(b, data) ==
    LET writable == WritableBytes(b)
    IN  IF Len(data) <= writable
        THEN [b EXCEPT !.mem = Copy(@, b.writer, data), !.writer = @ + Len(data)]
        ELSE AppendData([b EXCEPT !.mem = Copy(@, b.writer, SubSeq(data, 1, writable)),
                                  !.writer = BufferSize(b)],
                        Overflow(data, writable))

\* the state the code's assertions and indices rely on
BufferOK(b) == b.reader <= b.writer /\ b.writer <= BufferSize(b)
=============================================================================
