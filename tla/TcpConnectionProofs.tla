------------------------ MODULE TcpConnectionProofs ------------------------
(***************************************************************************)
(* TcpConnection for any number of threads, messages of any size and any   *)
(* high water mark: the bytes keep their order, the channel waits for      *)
(* POLLOUT exactly while bytes are buffered, the user sees the connection  *)
(* up once and down once, and no assertion fails, except as the properties *)
(* say.  Then the Buffer that holds a connection's bytes, and the codec of *)
(* the RPC that cuts them into frames, as operators.                       *)
(***************************************************************************)
EXTENDS TcpConnection, Buffer, RpcCodec, SequenceTheorems, TLAPS

\* what is buffered and what the loop knows of it
DataInv == BytesInOrder /\ WarnedOncePerExcursion /\ WritingIffBuffered

\* connectEstablished is the first functor and runs once, before anybody has
\* the connection
FirstInv ==
    /\ calls = <<>> =>
         /\ functors # <<>> /\ functors[1].op = "connectEstablished"
         /\ state = kConnecting /\ pc = "idle" /\ ~reading /\ ~writing
         /\ \A t \in Threads : tpc[t].at = "idle"
    /\ \A i \in DOMAIN functors :
         functors[i].op = "connectEstablished" => i = 1 /\ calls = <<>>

\* state_ and what the user was told
StateInv ==
    /\ calls # <<>> => state # kConnecting
    /\ calls # <<>> /\ ~Down => state \in {kConnected, kDisconnecting}
    /\ Down => state # kConnected
    /\ Down /\ ~raced => state = kDisconnected /\ ~reading /\ ~writing

Ends == {"close", "read"}

\* a channel is handled to the end, and comes to handleClose once
TodoInv ==
    /\ pc = "idle" \/ (pc = "user" /\ back \in {"idle", "remove"}) => todo = <<>>
    /\ \A i, j \in DOMAIN todo : todo[i] \in Ends /\ todo[j] \in Ends => i = j
    /\ \A i \in DOMAIN todo : todo[i] \in Ends => raced \/ (~Down /\ calls # <<>>)

Destroys(i) == functors[i].op = "connectDestroyed"

\* as long as the TcpServer exists, connectDestroyed is queued once, after the
\* connection went down for the user, and finds the channel in the poller
OwnerInv ==
    /\ owner \in {"removing", "gone"} => Down
    /\ pc = "user" /\ back = "remove" => owner = "dead"
    /\ pc = "user" /\ back = "close" => Down /\ (raced \/ owner \in {"holds", "dead"})
    /\ owner \in {"holds", "removing"} /\ calls # <<>> => added
    /\ \A i \in DOMAIN functors : Destroys(i) => owner = "dead" \/ (owner = "gone" /\ added)
    /\ \A i, j \in DOMAIN functors : Destroys(i) /\ Destroys(j) => owner = "dead" \/ i = j

IInv == /\ TypeOK /\ DataInv /\ FirstInv /\ StateInv /\ TodoInv /\ OwnerInv
        /\ CallbackProtocol /\ AssertionsHold
-----------------------------------------------------------------------------
(* Bytes.                                                                  *)
B == Messages \X Nat

(* A message has as many bytes as Size says.                               *)
LEMMA BytesType ==
    ASSUME NEW m \in Messages
    PROVE  Bytes(m) \in Seq(B) /\ Len(Bytes(m)) = Size[m] /\ Size[m] \in Nat
<1>1. Size[m] \in Nat
  BY SizeAssumption
<1>2. \A i \in 1..Size[m] : <<m, i>> \in B
  BY <1>1 DEF B
<1>. QED  BY <1>1, <1>2 DEF Bytes

(* A sequence cut in two.                                                  *)
LEMMA Cut ==
    ASSUME NEW s \in Seq(B), NEW n \in 0..Len(s)
    PROVE  /\ SubSeq(s, 1, n) \in Seq(B) /\ SubSeq(s, n + 1, Len(s)) \in Seq(B)
           /\ Len(SubSeq(s, n + 1, Len(s))) = Len(s) - n
           /\ SubSeq(s, 1, n) \o SubSeq(s, n + 1, Len(s)) = s
<1>1. Len(s) \in Nat /\ \A i \in 1..Len(s) : s[i] \in B
  BY LenProperties, ElementOfSeq
<1>2. SubSeq(s, 1, n) \in Seq(B)
  BY <1>1, SubSeqProperties
<1>3. SubSeq(s, n + 1, Len(s)) \in Seq(B) /\ Len(SubSeq(s, n + 1, Len(s))) = Len(s) - n
  BY <1>1, SubSeqProperties
<1>4. SubSeq(s, 1, n) \o SubSeq(s, n + 1, Len(s)) = s
  <2>1. 1 \in 1..Len(s) + 1 /\ n \in 1 - 1..Len(s) /\ Len(s) \in n..Len(s)
    BY <1>1
  <2>2. SubSeq(s, 1, n) \o SubSeq(s, n + 1, Len(s)) = SubSeq(s, 1, Len(s))
    BY <2>1, ConcatAdjacentSubSeq
  <2>. QED  BY <2>2, SubSeqFull
<1>. QED  BY <1>2, <1>3, <1>4

(* Concatenation of bytes is associative.                                  *)
LEMMA Assoc == \A s, t, u \in Seq(B) : (s \o t) \o u = s \o (t \o u)
BY ConcatAssociative

(* A sequence is empty exactly when its length is 0.                       *)
LEMMA EmptyIffNoBytes ==
    ASSUME NEW S, NEW s \in Seq(S)
    PROVE  Len(s) \in Nat /\ (s = <<>> <=> Len(s) = 0)
BY EmptySeq, LenProperties

(* What is appended to outputBuffer_: bytes in order, one warning, POLLOUT *)
LEMMA BufferRestKeeps ==
    ASSUME TypeOK, WarnedOncePerExcursion, NEW d \in Seq(B), d # <<>>, NEW q \in Seq(Functor),
           BufferRest(d, q)
    PROVE  /\ outputBuffer' = outputBuffer \o d /\ outputBuffer' \in Seq(B) /\ outputBuffer' # <<>>
           /\ writing' = TRUE /\ added' = TRUE
           /\ warned' \in 0..1 /\ WarnedOncePerExcursion'
           /\ functors' = q \/ functors' = Append(q, [op |-> "highWaterMark"])
<1>1. outputBuffer' = outputBuffer \o d /\ outputBuffer \in Seq(B)
  BY DEF BufferRest, TypeOK, B
<1>2. Len(outputBuffer) \in Nat /\ Len(d) \in Nat /\ Len(d) # 0
  BY <1>1, EmptyIffNoBytes
<1>3. outputBuffer' \in Seq(B) /\ Len(outputBuffer') = Len(outputBuffer) + Len(d)
  BY <1>1, ConcatProperties
<1>4. outputBuffer' # <<>>
  BY <1>2, <1>3, EmptyIffNoBytes
<1>5. warned' \in 0..1 /\ WarnedOncePerExcursion'
  BY <1>2, <1>3, HighWaterMarkAssumption DEF WarnedOncePerExcursion, BufferRest, CrossesMark
<1>. QED  BY <1>1, <1>3, <1>4, <1>5 DEF BufferRest, WatchesOutput

(* sendInLoop, called at once or as a functor.                             *)
LEMMA SendKeeps ==
    ASSUME TypeOK, DataInv, NEW m \in Messages, NEW q \in Seq(Functor), SendInLoop(m, q), calls' = calls
    PROVE  /\ DataInv'
           /\ outputBuffer' \in Seq(B) /\ wire' \in Seq(B) /\ accepted' \in Seq(B)
           /\ writing' \in BOOLEAN /\ added' \in BOOLEAN /\ warned' \in 0..1
           /\ peer' \in {"open", "finished", "reset", "dead"}
           /\ \/ functors' = q
              \/ \E o \in {"writeComplete", "highWaterMark"} : functors' = Append(q, [op |-> o])
           /\ writing' => writing \/ state # kDisconnected
           /\ added => added'
<1>1. /\ outputBuffer \in Seq(B) /\ wire \in Seq(B) /\ accepted \in Seq(B)
      /\ writing \in BOOLEAN /\ added \in BOOLEAN /\ warned \in 0..1
      /\ peer \in {"open", "finished", "reset", "dead"}
      /\ wire \o outputBuffer = accepted
  BY DEF TypeOK, B, DataInv, BytesInOrder
<1>2. Bytes(m) \in Seq(B) /\ Len(Bytes(m)) = Size[m] /\ Size[m] \in Nat
  BY BytesType
<1>3. Size[m] = 0 => Bytes(m) = <<>>
  BY <1>2, EmptyIffNoBytes
<1>4. accepted \o Bytes(m) \in Seq(B) /\ (Size[m] = 0 => accepted \o Bytes(m) = accepted)
  BY <1>1, <1>2, <1>3, ConcatProperties, ConcatEmptySeq
<1>5. Down' = Down
  BY DEF Down
<1>6. CASE state = kDisconnected /\ UNCHANGED <<writing, added, outputBuffer, wire, peer, accepted, warned>>
           /\ functors' = q
  BY <1>1, <1>5, <1>6 DEF DataInv, BytesInOrder, WarnedOncePerExcursion, WritingIffBuffered
<1>7. CASE /\ state # kDisconnected
           /\ accepted' = accepted \o Bytes(m)
           /\ UNCHANGED <<wire, peer>>
           /\ IF Size[m] = 0
              THEN functors' = q /\ UNCHANGED <<outputBuffer, writing, added, warned>>
              ELSE BufferRest(Bytes(m), q)
  <2>1. CASE Size[m] = 0
    BY <1>1, <1>4, <1>5, <1>7, <2>1 DEF DataInv, BytesInOrder, WarnedOncePerExcursion, WritingIffBuffered
  <2>2. CASE Size[m] # 0
    <3>1. BufferRest(Bytes(m), q) /\ Bytes(m) # <<>>
      BY <1>2, <1>7, <2>2, EmptySeq
    <3>2. /\ outputBuffer' = outputBuffer \o Bytes(m) /\ outputBuffer' \in Seq(B) /\ outputBuffer' # <<>>
          /\ writing' = TRUE /\ added' = TRUE
          /\ warned' \in 0..1 /\ WarnedOncePerExcursion'
          /\ functors' = q \/ functors' = Append(q, [op |-> "highWaterMark"])
      BY <1>2, <3>1, BufferRestKeeps DEF DataInv
    <3>3. wire \o (outputBuffer \o Bytes(m)) = (wire \o outputBuffer) \o Bytes(m)
      BY <1>1, <1>2, Assoc
    <3>4. BytesInOrder' /\ WritingIffBuffered'
      BY <1>1, <1>7, <3>2, <3>3 DEF BytesInOrder, WritingIffBuffered
    <3>. QED  BY <1>1, <1>4, <1>7, <3>2, <3>4 DEF DataInv
  <2>. QED  BY <2>1, <2>2
<1>8. ASSUME state # kDisconnected, WritesDirectly, peer' = ErrorFetched,
             NEW r \in WriteResults(Size[m]),
             wire' = wire \o SubSeq(Bytes(m), 1, r.n),
             accepted' = IF r.err = "EPIPE" THEN accepted ELSE accepted \o Bytes(m),
             IF r.err # "EPIPE" /\ r.n < Size[m]
             THEN BufferRest(Remaining(Bytes(m), r.n), q)
             ELSE /\ functors' = IF r.err = "none" THEN Append(q, [op |-> "writeComplete"])
                                                   ELSE q
                  /\ UNCHANGED <<outputBuffer, writing, added, warned>>
      PROVE  /\ DataInv'
             /\ outputBuffer' \in Seq(B) /\ wire' \in Seq(B) /\ accepted' \in Seq(B)
             /\ writing' \in BOOLEAN /\ added' \in BOOLEAN /\ warned' \in 0..1
             /\ peer' \in {"open", "finished", "reset", "dead"}
             /\ \/ functors' = q
                \/ \E o \in {"writeComplete", "highWaterMark"} : functors' = Append(q, [op |-> o])
             /\ added => added'
  <2>1. r.n \in 0..Size[m] /\ (r.err # "none" => r.n = 0)
    BY <1>2 DEF WriteResults
  <2>2. peer' \in {"open", "finished", "reset", "dead"}
    BY <1>1, <1>8 DEF ErrorFetched
  <2>3. outputBuffer = <<>> /\ wire = accepted
    BY <1>1, <1>8, ConcatEmptySeq DEF WritesDirectly
  <2> DEFINE one == SubSeq(Bytes(m), 1, r.n)
             two == SubSeq(Bytes(m), r.n + 1, Len(Bytes(m)))
  <2>4. one \in Seq(B) /\ two \in Seq(B) /\ Len(two) = Size[m] - r.n /\ one \o two = Bytes(m)
    BY <1>2, <2>1, Cut
  <2>5. wire' = accepted \o one /\ wire' \in Seq(B) /\ accepted' \in Seq(B)
    BY <1>1, <1>4, <1>8, <2>3, <2>4, ConcatProperties
  <2>6. CASE r.err # "EPIPE" /\ r.n < Size[m]
    <3>1. BufferRest(two, q) /\ two # <<>>
      <4>1. BufferRest(two, q)
        BY <1>8, <2>6 DEF Remaining
      <4>2. Len(two) # 0
        BY <1>2, <2>1, <2>4, <2>6
      <4>. QED  BY <2>4, <4>1, <4>2, EmptyIffNoBytes
    <3>2. /\ outputBuffer' = outputBuffer \o two /\ outputBuffer' \in Seq(B) /\ outputBuffer' # <<>>
          /\ writing' = TRUE /\ added' = TRUE
          /\ warned' \in 0..1 /\ WarnedOncePerExcursion'
          /\ functors' = q \/ functors' = Append(q, [op |-> "highWaterMark"])
      BY <2>4, <3>1, BufferRestKeeps DEF DataInv
    <3>3. outputBuffer' = two
      BY <2>3, <2>4, <3>2, ConcatEmptySeq
    <3>4. (accepted \o one) \o two = accepted \o Bytes(m)
      <4> HIDE DEF one, two
      <4>1. (accepted \o one) \o two = accepted \o (one \o two)
        BY <1>1, <2>4, Assoc
      <4>. QED  BY <2>4, <4>1
    <3>5. BytesInOrder' /\ WritingIffBuffered'
      BY <1>8, <2>5, <2>6, <3>2, <3>3, <3>4 DEF BytesInOrder, WritingIffBuffered
    <3>. QED  BY <2>2, <2>5, <3>2, <3>5 DEF DataInv
  <2>7. CASE ~(r.err # "EPIPE" /\ r.n < Size[m])
    <3>1. /\ UNCHANGED <<outputBuffer, writing, added, warned>>
          /\ functors' = q \/ functors' = Append(q, [op |-> "writeComplete"])
      BY <1>8, <2>7
    <3>2. accepted' = wire'
      <4>1. CASE r.err = "EPIPE"
        <5>1. one = <<>>
          BY <2>1, <4>1, SubSeqEmpty
        <5>. QED  BY <1>1, <1>8, <2>5, <4>1, <5>1, ConcatEmptySeq
      <4>2. CASE r.err # "EPIPE"
        <5>1. r.n = Size[m]
          BY <1>2, <2>1, <2>7, <4>2
        <5>2. one = Bytes(m)
          BY <1>2, <5>1, SubSeqFull
        <5>. QED  BY <1>8, <2>5, <4>2, <5>2
      <4>. QED  BY <4>1, <4>2
    <3>3. BytesInOrder'
      BY <2>3, <2>5, <3>1, <3>2, ConcatEmptySeq DEF BytesInOrder
    <3>4. WarnedOncePerExcursion' /\ WritingIffBuffered'
      BY <1>5, <3>1 DEF DataInv, WarnedOncePerExcursion, WritingIffBuffered
    <3>. QED  BY <1>1, <2>2, <2>5, <3>1, <3>3, <3>4 DEF DataInv
  <2>. QED  BY <2>6, <2>7
<1>. QED  BY <1>6, <1>7, <1>8 DEF SendInLoop

(* handleWrite takes bytes from the front, and sends a FIN only after the  *)
(* last one.                                                               *)
LEMMA WriteKeeps ==
    ASSUME TypeOK, DataInv, HandleWrite
    PROVE  /\ DataInv'
           /\ outputBuffer' \in Seq(B) /\ wire' \in Seq(B)
           /\ writing' \in BOOLEAN /\ warned' \in 0..1 /\ fin' \in BOOLEAN
           /\ peer' \in {"open", "finished", "reset", "dead"}
           /\ functors' = functors \/ functors' = Append(functors, [op |-> "writeComplete"])
           /\ writing' => writing
           /\ fin' /\ ~fin => outputBuffer' = <<>>
<1>1. /\ outputBuffer \in Seq(B) /\ wire \in Seq(B) /\ accepted \in Seq(B)
      /\ writing \in BOOLEAN /\ warned \in 0..1 /\ fin \in BOOLEAN
      /\ peer \in {"open", "finished", "reset", "dead"}
      /\ wire \o outputBuffer = accepted
  BY DEF TypeOK, B, DataInv, BytesInOrder
<1>2. Down' = Down /\ accepted' = accepted
  BY DEF Down, HandleWrite
<1>3. ASSUME writing, peer' = peer, NEW n \in 1..Len(outputBuffer),
             LET rest    == SubSeq(outputBuffer, n + 1, Len(outputBuffer))
                 drained == rest = <<>>
             IN  /\ wire' = wire \o SubSeq(outputBuffer, 1, n)
                 /\ outputBuffer' = rest
                 /\ writing' = WritingAfterDrain(drained)
                 /\ functors' = IF drained THEN Append(functors, [op |-> "writeComplete"])
                                           ELSE functors
                 /\ fin' = FinAfterDrain(drained)
                 /\ warned' = IF Len(rest) < HighWaterMark THEN 0 ELSE warned
      PROVE  /\ DataInv'
             /\ outputBuffer' \in Seq(B) /\ wire' \in Seq(B)
             /\ writing' \in BOOLEAN /\ warned' \in 0..1 /\ fin' \in BOOLEAN
             /\ functors' = functors \/ functors' = Append(functors, [op |-> "writeComplete"])
             /\ fin' /\ ~fin => outputBuffer' = <<>>
  <2> DEFINE one == SubSeq(outputBuffer, 1, n)
             two == SubSeq(outputBuffer, n + 1, Len(outputBuffer))
  <2>1. Len(outputBuffer) \in Nat /\ n \in 0..Len(outputBuffer)
    BY <1>1, EmptyIffNoBytes
  <2>2. one \in Seq(B) /\ two \in Seq(B) /\ Len(two) = Len(outputBuffer) - n /\ one \o two = outputBuffer
    BY <1>1, <2>1, Cut
  <2>3. /\ wire' = wire \o one /\ outputBuffer' = two
        /\ writing' = ~(two = <<>>)
        /\ functors' = functors \/ functors' = Append(functors, [op |-> "writeComplete"])
        /\ warned' = IF Len(two) < HighWaterMark THEN 0 ELSE warned
        /\ fin' = FinAfterDrain(two = <<>>)
    BY <1>3 DEF WritingAfterDrain
  <2> HIDE DEF one, two
  <2>4. BytesInOrder'
    <3>0. wire \in Seq(B) /\ one \in Seq(B) /\ two \in Seq(B)
      BY <1>1, <2>2
    <3>1. (wire \o one) \o two = wire \o (one \o two)
      BY <3>0, Assoc
    <3>. QED  BY <1>1, <1>2, <2>2, <2>3, <3>1 DEF BytesInOrder
  <2>5. WarnedOncePerExcursion' /\ warned' \in 0..1
    <3>1. warned = IF Len(outputBuffer) >= HighWaterMark THEN 1 ELSE 0
      BY <1>1 DEF DataInv, WarnedOncePerExcursion
    <3>2. Len(two) \in Nat /\ Len(two) <= Len(outputBuffer) /\ HighWaterMark \in Nat
      BY <2>1, <2>2, HighWaterMarkAssumption
    <3>3. warned' = IF Len(two) >= HighWaterMark THEN 1 ELSE 0
      BY <2>1, <2>3, <3>1, <3>2
    <3>4. outputBuffer' = two
      BY <2>3
    <3>5. WarnedOncePerExcursion'
      BY <3>3, <3>4 DEF WarnedOncePerExcursion
    <3>6. warned' \in 0..1
      BY <3>3
    <3>. QED  BY <3>5, <3>6
  <2>6. WritingIffBuffered'
    BY <2>3 DEF WritingIffBuffered
  <2>7. fin' \in BOOLEAN /\ (fin' /\ ~fin => outputBuffer' = <<>>)
    BY <1>1, <2>3 DEF FinAfterDrain, FinAfterShutdown
  <2>8. wire' \in Seq(B)
    BY <1>1, <2>2, <2>3, ConcatProperties
  <2>. QED  BY <2>2, <2>3, <2>4, <2>5, <2>6, <2>7, <2>8 DEF DataInv
<1>4. CASE /\ UNCHANGED <<wire, outputBuffer, writing, functors, fin, warned>>
           /\ peer' \in {peer, ErrorFetched}
  BY <1>1, <1>2, <1>4 DEF DataInv, BytesInOrder, WarnedOncePerExcursion, WritingIffBuffered, ErrorFetched
<1>. QED  BY <1>1, <1>3, <1>4 DEF HandleWrite

(* The steps that leave the output buffer alone.                           *)
LEMMA DataAside ==
    ASSUME DataInv, UNCHANGED <<wire, outputBuffer, accepted, warned>>,
           Down' \/ (~Down /\ writing' = writing)
    PROVE  DataInv'
BY DEF DataInv, BytesInOrder, WarnedOncePerExcursion, WritingIffBuffered
-----------------------------------------------------------------------------
(* Callbacks of the user.                                                  *)
LEMMA CallsStep ==
    ASSUME calls \in Seq({"up", "message", "down"}), NEW c \in {"up", "message", "down"}, calls' = Logged(c)
    PROVE  /\ calls' \in Seq({"up", "message", "down"}) /\ calls' # <<>>
           /\ Down' <=> Down \/ c = "down"
<1>1. CASE calls' = calls /\ calls # <<>> /\ c = "message"
  BY <1>1 DEF Down
<1>2. CASE calls' = Append(calls, c)
  <2>1. /\ calls' \in Seq({"up", "message", "down"}) /\ calls' # <<>> /\ Len(calls') = Len(calls) + 1
        /\ \A i \in 1..Len(calls) : calls'[i] = calls[i]
        /\ calls'[Len(calls) + 1] = c
    BY <1>2, AppendProperties
  <2>2. Len(calls) \in Nat /\ DOMAIN calls = 1..Len(calls) /\ DOMAIN calls' = 1..Len(calls')
    BY <2>1, LenProperties
  <2>3. DOMAIN calls' = DOMAIN calls \cup {Len(calls) + 1}
    BY <2>1, <2>2
  <2>. QED  BY <2>1, <2>2, <2>3 DEF Down
<1>. QED  BY <1>1, <1>2 DEF Logged

(* Short sequences.                                                        *)
LEMMA AppendToOne ==
    ASSUME NEW a, NEW b
    PROVE  Append(<<a>>, b) = <<a, b>>
<1> DEFINE s == Append(<<a>>, b)
           t == <<a, b>>
           S == {a, b}
<1>1. <<a>> \in Seq(S) /\ t \in Seq(S)
  OBVIOUS
<1>2. Len(s) = 2 /\ s \in Seq(S)
  BY <1>1, AppendProperties
<1>3. s[1] = a /\ s[2] = b
  BY <1>1, AppendProperties
<1>4. Len(t) = 2 /\ t[1] = a /\ t[2] = b
  OBVIOUS
<1> HIDE DEF s, t, S
<1>5. \A i \in 1..Len(s) : s[i] = t[i]
  BY <1>2, <1>3, <1>4
<1>6. s = t
  BY <1>1, <1>2, <1>4, <1>5, SeqEqual
<1>. QED  BY <1>6 DEF s, t

(* The third call the user sees comes behind the first two.                *)
LEMMA AppendToTwo ==
    ASSUME NEW a, NEW b, NEW c
    PROVE  Append(<<a, b>>, c) = <<a, b, c>>
<1> DEFINE s == Append(<<a, b>>, c)
           t == <<a, b, c>>
           S == {a, b, c}
<1>1. <<a, b>> \in Seq(S) /\ t \in Seq(S)
  OBVIOUS
<1>2. Len(s) = 3 /\ s \in Seq(S)
  BY <1>1, AppendProperties
<1>3. s[1] = a /\ s[2] = b /\ s[3] = c
  BY <1>1, AppendProperties
<1>4. Len(t) = 3 /\ t[1] = a /\ t[2] = b /\ t[3] = c
  OBVIOUS
<1> HIDE DEF s, t, S
<1>5. \A i \in 1..Len(s) : s[i] = t[i]
  BY <1>2, <1>3, <1>4
<1>6. s = t
  BY <1>1, <1>2, <1>4, <1>5, SeqEqual
<1>. QED  BY <1>6 DEF s, t

(* up, messages, down: the next one fits as long as the connection is not  *)
(* down.                                                                   *)
LEMMA ProtocolStep ==
    ASSUME CallbackProtocol, ~raced, ~Down, NEW c \in {"up", "message", "down"},
           calls = <<>> <=> c = "up", calls' = Logged(c)
    PROVE  CallbackProtocol'
<1>1. calls \in {<<>>, <<"up">>, <<"up", "message">>}
  <2>1. calls # <<"up", "message", "down">> /\ calls # <<"up", "down">>
    BY DEF Down
  <2>. QED  BY <2>1 DEF CallbackProtocol
<1>2. CASE c = "up"
  BY <1>2 DEF CallbackProtocol, Logged
<1>3. CASE c = "message"
  <2>1. CASE calls = <<"up">>
    <3>1. calls' = Append(<<"up">>, "message")
      BY <1>3, <2>1 DEF Logged
    <3>2. calls' = <<"up", "message">>
      BY <3>1, AppendToOne
    <3>. QED  BY <3>2 DEF CallbackProtocol
  <2>2. CASE calls = <<"up", "message">>
    <3>1. calls' = <<"up", "message">>
      BY <1>3, <2>2 DEF Logged
    <3>. QED  BY <3>1 DEF CallbackProtocol
  <2>. QED  BY <1>1, <1>3, <2>1, <2>2
<1>4. CASE c = "down"
  <2>1. CASE calls = <<"up">>
    <3>1. calls' = Append(<<"up">>, "down")
      BY <1>4, <2>1 DEF Logged
    <3>2. calls' = <<"up", "down">>
      BY <3>1, AppendToOne
    <3>. QED  BY <3>2 DEF CallbackProtocol
  <2>2. CASE calls = <<"up", "message">>
    <3>1. calls' = Append(<<"up", "message">>, "down")
      BY <1>4, <2>2 DEF Logged
    <3>2. calls' = <<"up", "message", "down">>
      BY <3>1, AppendToTwo
    <3>. QED  BY <3>2 DEF CallbackProtocol
  <2>. QED  BY <1>1, <1>4, <2>1, <2>2
<1>. QED  BY <1>2, <1>3, <1>4
-----------------------------------------------------------------------------
(* The queue of functors.                                                  *)
LEMMA FunctorTypes ==
    /\ \A o \in {"connectEstablished", "connectDestroyed", "shutdownInLoop", "writeComplete",
                 "highWaterMark"} : [op |-> o] \in Functor
    /\ \A m \in Messages : [op |-> "sendInLoop", msg |-> m] \in Functor
    /\ \A f \in Functor : f.op = "sendInLoop" => f.msg \in Messages
BY DEF Functor

Once == {"connectEstablished", "connectDestroyed"}

\* functors' are the functors from the (k+1)st on and perhaps a functor that
\* is neither connectEstablished nor connectDestroyed
Shifted(k) ==
    /\ functors' \in Seq(Functor)
    /\ \A i \in DOMAIN functors' :
         functors'[i].op \in Once => i + k \in DOMAIN functors /\ functors[i + k].op = functors'[i].op
    /\ k = 0 /\ functors # <<>> => functors' # <<>> /\ functors'[1] = functors[1]

(* queueInLoop of a functor that may be queued often moves no other one.   *)
LEMMA ShiftedAppend ==
    ASSUME functors \in Seq(Functor), NEW f \in Functor, f.op \notin Once,
           functors' = Append(functors, f)
    PROVE  Shifted(0)
<1>1. /\ functors' \in Seq(Functor) /\ functors' # <<>> /\ Len(functors') = Len(functors) + 1
      /\ \A i \in 1..Len(functors) : functors'[i] = functors[i]
      /\ functors'[Len(functors) + 1] = f
  BY AppendProperties
<1>2. /\ Len(functors) \in Nat /\ DOMAIN functors = 1..Len(functors) /\ DOMAIN functors' = 1..Len(functors')
      /\ functors # <<>> => Len(functors) > 0
  BY <1>1, LenProperties, EmptySeq
<1>. QED  BY <1>1, <1>2 DEF Shifted

(* Functors that are left alone do not move.                               *)
LEMMA ShiftedSame ==
    ASSUME functors \in Seq(Functor), functors' = functors
    PROVE  Shifted(0)
<1>1. DOMAIN functors = 1..Len(functors) /\ Len(functors) \in Nat
  BY LenProperties
<1>. QED  BY <1>1 DEF Shifted

(* Running the first functor moves the others up by one.                   *)
LEMMA ShiftedTail ==
    ASSUME functors \in Seq(Functor), functors # <<>>,
           \/ functors' = Tail(functors)
           \/ \E f \in Functor : f.op \notin Once /\ functors' = Append(Tail(functors), f)
    PROVE  Shifted(1)
<1> DEFINE q == Tail(functors)
<1>1. /\ q \in Seq(Functor) /\ Len(q) = Len(functors) - 1 /\ Len(functors) \in Nat
      /\ \A i \in 1..Len(q) : q[i] = functors[i + 1]
  BY HeadTailProperties, LenProperties
<1>2. /\ DOMAIN functors = 1..Len(functors) /\ DOMAIN q = 1..Len(q)
      /\ \A i \in DOMAIN q : i + 1 \in DOMAIN functors /\ q[i] = functors[i + 1]
  BY <1>1, LenProperties
<1> HIDE DEF q
<1>3. CASE functors' = q
  BY <1>1, <1>2, <1>3 DEF Shifted
<1>4. ASSUME NEW f \in Functor, f.op \notin Once, functors' = Append(q, f)
      PROVE  Shifted(1)
  <2>1. /\ functors' \in Seq(Functor) /\ Len(functors') = Len(q) + 1
        /\ \A i \in 1..Len(q) : functors'[i] = q[i]
        /\ functors'[Len(q) + 1] = f
    BY <1>1, <1>4, AppendProperties
  <2>2. DOMAIN functors' = 1..Len(functors') /\ Len(q) \in Nat
    BY <1>1, <2>1, LenProperties
  <2>3. DOMAIN functors' = DOMAIN q \cup {Len(q) + 1}
    <3>1. 1..Len(q) + 1 = 1..Len(q) \cup {Len(q) + 1}
      BY <2>2
    <3>. QED  BY <1>2, <2>1, <2>2, <3>1
  <2>4. ASSUME NEW i \in DOMAIN functors', functors'[i].op \in Once
        PROVE  i + 1 \in DOMAIN functors /\ functors[i + 1].op = functors'[i].op
    <3>1. i \in DOMAIN q
      BY <1>4, <2>1, <2>3, <2>4
    <3>2. functors'[i] = q[i]
      BY <1>2, <2>1, <3>1
    <3>. QED  BY <1>2, <3>1, <3>2
  <2>. QED  BY <2>1, <2>4 DEF Shifted
<1>. QED  BY <1>3, <1>4 DEF q

FirstOnce ==
    \A i \in DOMAIN functors : functors[i].op = "connectEstablished" => i = 1 /\ calls = <<>>

DestroyOnce ==
    /\ \A i \in DOMAIN functors : Destroys(i) => owner = "dead" \/ (owner = "gone" /\ added)
    /\ \A i, j \in DOMAIN functors : Destroys(i) /\ Destroys(j) => owner = "dead" \/ i = j

(* connectEstablished stays the first one, or is gone.                     *)
LEMMA FirstKeeps ==
    ASSUME functors \in Seq(Functor), FirstOnce, NEW k \in {0, 1}, Shifted(k),
           k = 0 => calls # <<>> \/ calls' = calls
    PROVE  FirstOnce'
<1>1. DOMAIN functors' \subseteq Nat \ {0}
  BY LenProperties DEF Shifted
<1>. SUFFICES ASSUME NEW i \in DOMAIN functors', functors'[i].op = "connectEstablished"
              PROVE  i = 1 /\ calls' = <<>>
  BY DEF FirstOnce
<1>2. i + k \in DOMAIN functors /\ functors[i + k].op = "connectEstablished"
  BY DEF Shifted, Once
<1>3. i + k = 1 /\ calls = <<>>
  BY <1>2 DEF FirstOnce
<1>. QED  BY <1>1, <1>3

(* connectEstablished is still queued at most once after the move.         *)
LEMMA FirstGone ==
    ASSUME functors \in Seq(Functor), FirstOnce, Shifted(1)
    PROVE  FirstOnce'
<1>1. \A k \in {0, 1} : Shifted(k) /\ k # 0 => FirstOnce'
  BY FirstKeeps
<1>. QED  BY <1>1

(* connectDestroyed stays the only one, until it runs.                     *)
LEMMA DestroyKeeps ==
    ASSUME functors \in Seq(Functor), DestroyOnce, NEW k \in {0, 1}, Shifted(k),
           owner' = owner \/ owner \notin {"dead", "gone"},
           added => added' \/ (k = 1 /\ functors # <<>> /\ Destroys(1))
    PROVE  DestroyOnce'
<1>1. DOMAIN functors' \subseteq Nat \ {0} /\ (functors # <<>> => 1 \in DOMAIN functors)
  <2>1. DOMAIN functors' = 1..Len(functors') /\ Len(functors') \in Nat
    BY LenProperties DEF Shifted
  <2>2. functors # <<>> => Len(functors) \in Nat \ {0}
    BY EmptySeq
  <2>3. DOMAIN functors = 1..Len(functors)
    BY LenProperties
  <2>. QED  BY <2>1, <2>2, <2>3
<1>2. \A i \in DOMAIN functors' : Destroys(i)' => i + k \in DOMAIN functors /\ Destroys(i + k)
  BY DEF Shifted, Once, Destroys
<1>3. ASSUME NEW i \in DOMAIN functors', Destroys(i)'
      PROVE  owner' = "dead" \/ (owner' = "gone" /\ added')
  <2>1. Destroys(i + k) /\ i + k \in DOMAIN functors
    BY <1>2, <1>3
  <2>2. owner = "dead" \/ (owner = "gone" /\ added)
    BY <2>1 DEF DestroyOnce
  <2>3. CASE k = 1 /\ functors # <<>> /\ Destroys(1)
    <3>1. i + 1 # 1 /\ i + 1 \in DOMAIN functors /\ 1 \in DOMAIN functors
      BY <1>1, <2>1, <2>3
    <3>2. owner = "dead"
      BY <2>1, <2>3, <3>1 DEF DestroyOnce
    <3>. QED  BY <3>2
  <2>4. CASE added => added'
    BY <2>2, <2>4
  <2>. QED  BY <2>3, <2>4
<1>4. ASSUME NEW i \in DOMAIN functors', NEW j \in DOMAIN functors', Destroys(i)', Destroys(j)'
      PROVE  owner' = "dead" \/ i = j
  <2>1. Destroys(i + k) /\ Destroys(j + k) /\ i + k \in DOMAIN functors /\ j + k \in DOMAIN functors
    BY <1>2, <1>4
  <2>2. owner = "dead" \/ i + k = j + k
    BY <2>1 DEF DestroyOnce
  <2>. QED  BY <1>1, <1>3, <1>4, <2>2, <2>1 DEF DestroyOnce
<1>. QED  BY <1>3, <1>4 DEF DestroyOnce
-----------------------------------------------------------------------------
(* The callbacks of a channel.                                             *)
CB == {"close", "error", "read", "write"}

EndsOnce == \A i, j \in DOMAIN todo : todo[i] \in Ends /\ todo[j] \in Ends => i = j

(* Making a callback leaves at most the ends that were to come.            *)
LEMMA TodoTail ==
    ASSUME todo \in Seq(CB), todo # <<>>, EndsOnce, todo' = Tail(todo)
    PROVE  /\ todo' \in Seq(CB) /\ EndsOnce'
           /\ \A i \in DOMAIN todo' : todo'[i] \in Ends =>
                /\ Head(todo) \notin Ends
                /\ \E j \in DOMAIN todo : todo[j] \in Ends
           /\ Head(todo) \in Ends => \E j \in DOMAIN todo : todo[j] \in Ends
<1>1. /\ todo' \in Seq(CB) /\ Len(todo') = Len(todo) - 1 /\ Head(todo) = todo[1]
      /\ \A i \in 1..Len(todo') : todo'[i] = todo[i + 1]
  BY HeadTailProperties
<1>2. Len(todo) \in Nat \ {0} /\ DOMAIN todo = 1..Len(todo) /\ DOMAIN todo' = 1..Len(todo')
  BY <1>1, LenProperties, EmptySeq
<1>3. /\ 1 \in DOMAIN todo
      /\ \A i \in DOMAIN todo' : i \in Nat \ {0} /\ i + 1 \in DOMAIN todo /\ todo'[i] = todo[i + 1]
  BY <1>1, <1>2
<1>4. EndsOnce'
  <2> SUFFICES ASSUME NEW i \in DOMAIN todo', NEW j \in DOMAIN todo', todo'[i] \in Ends, todo'[j] \in Ends
               PROVE  i = j
    BY DEF EndsOnce, Ends
  <2>1. i + 1 = j + 1
    BY <1>3 DEF EndsOnce
  <2>. QED  BY <1>3, <2>1
<1>5. ASSUME NEW i \in DOMAIN todo', todo'[i] \in Ends
      PROVE  Head(todo) \notin Ends /\ \E j \in DOMAIN todo : todo[j] \in Ends
  <2>1. i + 1 # 1 /\ todo[i + 1] \in Ends
    BY <1>3, <1>5
  <2>. QED  BY <1>1, <1>3, <1>5, <2>1 DEF EndsOnce
<1>. QED  BY <1>1, <1>3, <1>4, <1>5

Quiet(x) == \A i \in DOMAIN x : x[i] \notin Ends
AtMostOne(x) == \A i, j \in DOMAIN x : x[i] \in Ends /\ x[j] \in Ends => i = j

(* The ends in a concatenation are those of its parts.                     *)
LEMMA EndsConcat ==
    ASSUME NEW x \in Seq(CB), NEW y \in Seq(CB)
    PROVE  /\ x \o y \in Seq(CB)
           /\ Quiet(x) /\ Quiet(y) => Quiet(x \o y)
           /\ AtMostOne(x) /\ Quiet(y) => AtMostOne(x \o y)
           /\ Quiet(x) /\ AtMostOne(y) => AtMostOne(x \o y)
<1> DEFINE z == x \o y
<1>1. /\ z \in Seq(CB) /\ Len(z) = Len(x) + Len(y)
      /\ \A i \in 1..Len(x) + Len(y) : z[i] = IF i <= Len(x) THEN x[i] ELSE y[i - Len(x)]
  BY ConcatProperties
<1>2. /\ Len(x) \in Nat /\ Len(y) \in Nat
      /\ DOMAIN x = 1..Len(x) /\ DOMAIN y = 1..Len(y) /\ DOMAIN z = 1..Len(z)
  BY <1>1, LenProperties
<1> HIDE DEF z
<1>3. ASSUME NEW i \in DOMAIN z, z[i] \in Ends
      PROVE  /\ i \in Nat
             /\ \/ i \in DOMAIN x /\ x[i] \in Ends
                \/ i - Len(x) \in DOMAIN y /\ y[i - Len(x)] \in Ends
  <2>1. i \in 1..Len(x) + Len(y)
    BY <1>1, <1>2
  <2>2. CASE i <= Len(x)
    BY <1>1, <1>2, <1>3, <2>1, <2>2
  <2>3. CASE ~(i <= Len(x))
    <3>1. i - Len(x) \in DOMAIN y
      BY <1>2, <2>1, <2>3
    <3>. QED  BY <1>1, <1>3, <2>1, <2>3, <3>1
  <2>. QED  BY <2>2, <2>3
<1>4. Quiet(x) /\ Quiet(y) => Quiet(z)
  BY <1>3 DEF Quiet
<1>5. AtMostOne(x) /\ Quiet(y) => AtMostOne(z)
  BY <1>3 DEF Quiet, AtMostOne
<1>6. ASSUME Quiet(x), AtMostOne(y) PROVE AtMostOne(z)
  <2> SUFFICES ASSUME NEW i \in DOMAIN z, NEW j \in DOMAIN z, z[i] \in Ends, z[j] \in Ends
               PROVE  i = j
    BY DEF AtMostOne
  <2>1. /\ i \in Nat /\ i - Len(x) \in DOMAIN y /\ y[i - Len(x)] \in Ends
        /\ j \in Nat /\ j - Len(x) \in DOMAIN y /\ y[j - Len(x)] \in Ends
    BY <1>3, <1>6 DEF Quiet
  <2>2. i - Len(x) = j - Len(x)
    BY <1>6, <2>1 DEF AtMostOne
  <2>. QED  BY <1>2, <2>1, <2>2
<1>. QED  BY <1>1, <1>4, <1>5, <1>6 DEF z

(* handleEventWithGuard never comes to handleClose twice: closeCallback_   *)
(* is for POLLHUP without POLLIN.                                          *)
LEMMA CallbacksOnce ==
    ASSUME NEW revents
    PROVE  Callbacks(revents) \in Seq(CB) /\ AtMostOne(Callbacks(revents))
<1> DEFINE a == IF "HUP" \in revents /\ "IN" \notin revents THEN <<"close">> ELSE <<>>
           e == IF "ERR" \in revents THEN <<"error">> ELSE <<>>
           r == IF "IN" \in revents THEN <<"read">> ELSE <<>>
           w == IF "OUT" \in revents THEN <<"write">> ELSE <<>>
<1>1. Callbacks(revents) = a \o e \o r \o w
  BY DEF Callbacks
<1>2. a \in Seq(CB) /\ e \in Seq(CB) /\ r \in Seq(CB) /\ w \in Seq(CB)
  <2>1. /\ <<>> \in Seq(CB) /\ <<"close">> \in Seq(CB) /\ <<"error">> \in Seq(CB)
        /\ <<"read">> \in Seq(CB) /\ <<"write">> \in Seq(CB)
    BY DEF CB
  <2>. QED  BY <2>1
<1>3. Quiet(e) /\ Quiet(w)
  BY DEF Quiet, Ends
<1>4. AtMostOne(a) /\ AtMostOne(r)
  BY DEF AtMostOne
<1>5. Quiet(a) \/ Quiet(r)
  BY DEF Quiet
<1> HIDE DEF a, e, r, w
<1>6. a \o e \in Seq(CB) /\ AtMostOne(a \o e) /\ (Quiet(a) => Quiet(a \o e))
  BY <1>2, <1>3, <1>4, EndsConcat
<1>7. (a \o e) \o r \in Seq(CB) /\ AtMostOne((a \o e) \o r)
  BY <1>2, <1>4, <1>5, <1>6, EndsConcat
<1>8. ((a \o e) \o r) \o w \in Seq(CB) /\ AtMostOne(((a \o e) \o r) \o w)
  BY <1>2, <1>3, <1>7, EndsConcat
<1>. QED  BY <1>1, <1>8
-----------------------------------------------------------------------------
CtlInv == FirstInv /\ StateInv /\ TodoInv /\ OwnerInv /\ CallbackProtocol /\ AssertionsHold

(* The steps that change neither state_ nor what the user knows, nor where *)
(* the loop is: they may go on with the channel, append to the functors or *)
(* take one, and watch for POLLOUT.                                        *)
LEMMA CalmStep ==
    ASSUME TypeOK, CtlInv, UNCHANGED <<state, reading, pc, back, tpc, owner, calls, raced, failed>>,
           todo' = todo \/ (todo # <<>> /\ todo' = Tail(todo)),
           NEW k \in {0, 1}, Shifted(k), k = 1 => calls # <<>>,
           writing' => writing \/ (calls # <<>> /\ state # kDisconnected),
           added => added'
    PROVE  CtlInv'
<1> USE DEF CtlInv
<1>1. Down' = Down
  BY DEF Down
<1>2. FirstInv'
  <2>1. FirstOnce'
    BY FirstKeeps DEF TypeOK, FirstInv, FirstOnce
  <2>2. calls' = <<>> => functors' # <<>> /\ functors'[1].op = "connectEstablished"
    BY DEF FirstInv, Shifted
  <2>. QED  BY <2>1, <2>2 DEF FirstInv, FirstOnce
<1>3. StateInv'
  BY <1>1 DEF StateInv
<1>4. TodoInv'
  <2>1. CASE todo' = todo
    BY <1>1, <2>1 DEF TodoInv
  <2>2. CASE todo # <<>> /\ todo' = Tail(todo)
    <3>1. EndsOnce' /\ \A i \in DOMAIN todo' : todo'[i] \in Ends => \E j \in DOMAIN todo : todo[j] \in Ends
      BY <2>2, TodoTail DEF TodoInv, TypeOK, EndsOnce, CB
    <3>. QED  BY <1>1, <2>2, <3>1 DEF TodoInv, EndsOnce
  <2>. QED  BY <2>1, <2>2
<1>5. OwnerInv'
  <2>1. DestroyOnce'
    BY DestroyKeeps DEF TypeOK, OwnerInv, DestroyOnce
  <2>. QED  BY <1>1, <2>1 DEF OwnerInv, DestroyOnce
<1>. QED  BY <1>2, <1>3, <1>4, <1>5 DEF CallbackProtocol, AssertionsHold

(* handleEvent: the channel has interests, so the connection is up.        *)
LEMMA HandleEventStep ==
    ASSUME TypeOK, CtlInv, NEW revents, HandleEvent(revents)
    PROVE  CtlInv' /\ todo' \in Seq(CB)
<1> USE DEF CtlInv, HandleEvent, conn
<1>1. Down' = Down
  BY DEF Down
<1>2. reading \/ writing
  BY DEF PossibleEvents
<1>3. calls # <<>> /\ (raced \/ ~Down)
  BY <1>2 DEF FirstInv, StateInv
<1>4. EndsOnce' /\ todo' \in Seq(CB)
  BY CallbacksOnce DEF EndsOnce, AtMostOne
<1>5. TodoInv'
  BY <1>1, <1>3, <1>4 DEF TodoInv, EndsOnce
<1>6. FirstInv' /\ StateInv'
  BY <1>1, <1>3 DEF FirstInv, StateInv
<1>7. OwnerInv'
  BY <1>1 DEF OwnerInv, Destroys
<1>. QED  BY <1>4, <1>5, <1>6, <1>7 DEF CallbackProtocol, AssertionsHold

(* Facts about a callback of the channel that may end the connection.      *)
LEMMA TakeEnd ==
    ASSUME TypeOK, CtlInv, NEW c \in Ends, Take(c)
    PROVE  /\ todo' \in Seq(CB) /\ Quiet(todo')
           /\ calls # <<>> /\ (raced \/ ~Down)
<1>1. todo # <<>> /\ todo' = Tail(todo) /\ Head(todo) \in Ends /\ pc = "events"
  BY DEF Take
<1>2. /\ todo' \in Seq(CB)
      /\ \A i \in DOMAIN todo' : todo'[i] \notin Ends
      /\ \E j \in DOMAIN todo : todo[j] \in Ends
  BY <1>1, TodoTail DEF TypeOK, CtlInv, TodoInv, EndsOnce, CB
<1>3. calls # <<>>
  BY <1>1 DEF CtlInv, FirstInv
<1>. QED  BY <1>2, <1>3 DEF Quiet, CtlInv, TodoInv

(* handleClose: the connection was up for the user, who is told once.      *)
LEMMA HandleCloseStep ==
    ASSUME TypeOK, CtlInv, failed = "none", NEW c \in Ends, Take(c), HandleClose
    PROVE  CtlInv' /\ todo' \in Seq(CB) /\ calls' \in Seq({"up", "message", "down"}) /\ Down'
<1> USE DEF CtlInv, HandleClose, CallUser
<1>1. todo' \in Seq(CB) /\ Quiet(todo') /\ calls # <<>> /\ (raced \/ ~Down)
  BY TakeEnd
<1>2. calls' \in Seq({"up", "message", "down"}) /\ calls' # <<>> /\ Down'
  BY CallsStep DEF TypeOK
<1>3. raced \/ state \in {kConnected, kDisconnecting}
  BY <1>1 DEF StateInv
<1>4. FirstInv'
  <2>1. FirstOnce'
    BY <1>1, FirstKeeps, ShiftedSame DEF TypeOK, FirstInv, FirstOnce
  <2>. QED  BY <1>2, <2>1 DEF FirstInv, FirstOnce
<1>5. StateInv'
  BY <1>2 DEF StateInv, AfterDisableAll, kConnecting, kConnected, kDisconnecting, kDisconnected
<1>6. TodoInv'
  BY <1>1 DEF TodoInv, Quiet
<1>7. OwnerInv'
  <2>1. DestroyOnce'
    BY DestroyKeeps, ShiftedSame DEF TypeOK, OwnerInv, DestroyOnce
  <2>2. raced' \/ owner' \in {"holds", "dead"}
    BY <1>1 DEF OwnerInv, TypeOK
  <2>. QED  BY <1>1, <1>2, <2>1, <2>2 DEF OwnerInv, DestroyOnce
<1>8. CallbackProtocol'
  <2>1. CASE raced
    BY <2>1 DEF CallbackProtocol
  <2>2. CASE ~raced
    BY <1>1, <2>2, ProtocolStep
  <2>. QED  BY <2>1, <2>2
<1>9. AssertionsHold'
  BY <1>3 DEF AssertionsHold, Asserts
<1>. QED  BY <1>1, <1>2, <1>4, <1>5, <1>6, <1>7, <1>8, <1>9

(* handleRead with data.                                                   *)
LEMMA MessageStep ==
    ASSUME TypeOK, CtlInv, Take("read"), CallUser("message", "events"),
           UNCHANGED <<conn, functors, tpc, owner, raced, failed>>
    PROVE  CtlInv' /\ todo' \in Seq(CB) /\ calls' \in Seq({"up", "message", "down"}) /\ Down' = Down
<1> USE DEF CtlInv, CallUser, conn
<1>1. todo' \in Seq(CB) /\ Quiet(todo') /\ calls # <<>> /\ (raced \/ ~Down)
  BY TakeEnd DEF Ends
<1>2. calls' \in Seq({"up", "message", "down"}) /\ calls' # <<>> /\ Down' = Down
  <2>1. calls' \in Seq({"up", "message", "down"}) /\ calls' # <<>> /\ (Down' <=> Down \/ "message" = "down")
    BY CallsStep DEF TypeOK
  <2>. QED  BY <2>1 DEF Down
<1>4. FirstInv'
  <2>1. FirstOnce'
    BY <1>1, FirstKeeps, ShiftedSame DEF TypeOK, FirstInv, FirstOnce
  <2>. QED  BY <1>2, <2>1 DEF FirstInv, FirstOnce
<1>5. StateInv'
  BY <1>1, <1>2 DEF StateInv
<1>6. TodoInv'
  BY <1>1 DEF TodoInv, Quiet
<1>7. OwnerInv'
  <2>1. DestroyOnce'
    BY DestroyKeeps, ShiftedSame DEF TypeOK, OwnerInv, DestroyOnce
  <2>. QED  BY <1>1, <1>2, <2>1 DEF OwnerInv, DestroyOnce
<1>8. CallbackProtocol'
  <2>1. CASE raced
    BY <2>1 DEF CallbackProtocol
  <2>2. CASE ~raced
    BY <1>1, <2>2, ProtocolStep
  <2>. QED  BY <2>1, <2>2
<1>9. AssertionsHold'
  BY DEF AssertionsHold
<1>. QED  BY <1>1, <1>2, <1>4, <1>5, <1>6, <1>7, <1>8, <1>9

(* The next functor is removed from the queue.                             *)
LEMMA RunShifts ==
    ASSUME TypeOK, NEW o, Run(o), functors' = Tail(functors)
    PROVE  Shifted(1) /\ functors[1].op = o /\ 1 \in DOMAIN functors
<1>1. functors \in Seq(Functor) /\ functors # <<>> /\ Head(functors).op = o
  BY DEF Run, TypeOK
<1>2. Shifted(1)
  BY <1>1, ShiftedTail
<1>3. Head(functors) = functors[1] /\ Len(functors) \in Nat \ {0} /\ DOMAIN functors = 1..Len(functors)
  BY <1>1, EmptySeq, LenProperties
<1>. QED  BY <1>1, <1>2, <1>3

(* An empty queue has no positions.                                        *)
LEMMA NoDomain == DOMAIN <<>> = {}
OBVIOUS

(* connectEstablished: it is the first thing that happens.                 *)
LEMMA EstablishedStep ==
    ASSUME TypeOK, CtlInv, failed = "none", ConnectEstablished
    PROVE  CtlInv' /\ calls' \in Seq({"up", "message", "down"}) /\ Down' = Down
<1> USE DEF CtlInv, ConnectEstablished, CallUser
<1>1. Shifted(1) /\ functors[1].op = "connectEstablished" /\ 1 \in DOMAIN functors
  BY RunShifts
<1>2. calls = <<>> /\ state = kConnecting /\ ~writing
  BY <1>1 DEF FirstInv
<1>3. ~Down
  BY <1>2, NoDomain DEF Down
<1>4. calls' \in Seq({"up", "message", "down"}) /\ calls' # <<>> /\ ~Down'
  BY <1>3, CallsStep DEF TypeOK
<1>5. FirstInv'
  <2>0. functors \in Seq(Functor) /\ FirstOnce
    BY DEF TypeOK, FirstInv, FirstOnce
  <2>1. FirstOnce'
    BY <1>1, <2>0, FirstGone
  <2>. QED  BY <1>4, <2>1 DEF FirstInv, FirstOnce
<1>6. StateInv'
  BY <1>4 DEF StateInv, kConnecting, kConnected
<1>7. TodoInv'
  <2>1. todo' = <<>>
    BY DEF TodoInv, Run
  <2>. QED  BY <2>1, NoDomain DEF TodoInv
<1>8. OwnerInv'
  <2>1. DestroyOnce'
    BY <1>1, DestroyKeeps DEF TypeOK, OwnerInv, DestroyOnce
  <2>. QED  BY <1>3, <1>4, <2>1 DEF OwnerInv, DestroyOnce
<1>9. CallbackProtocol'
  <2>1. CASE raced
    BY <2>1 DEF CallbackProtocol
  <2>2. CASE ~raced
    BY <1>2, <1>3, <2>2, ProtocolStep
  <2>. QED  BY <2>1, <2>2
<1>10. AssertionsHold'
  BY <1>2 DEF AssertionsHold, Asserts
<1>. QED  BY <1>3, <1>4, <1>5, <1>6, <1>7, <1>8, <1>9, <1>10 DEF Down

(* A functor other than connectEstablished runs after it.                  *)
LEMMA RunLater ==
    ASSUME TypeOK, CtlInv, NEW o, Run(o), o # "connectEstablished"
    PROVE  calls # <<>> /\ todo = <<>> /\ pc = "idle"
<1>1. functors \in Seq(Functor) /\ functors # <<>> /\ Head(functors).op = o /\ pc = "idle"
  BY DEF Run, TypeOK
<1>2. functors[1].op = o
  BY <1>1
<1>. QED  BY <1>1, <1>2 DEF CtlInv, FirstInv, TodoInv

(* connectDestroyed of a connection that is up: the TcpServer was          *)
(* destroyed, and the user is told once.                                   *)
LEMMA DestroyedUpStep ==
    ASSUME TypeOK, CtlInv, ConnectDestroyedUp
    PROVE  CtlInv' /\ calls' \in Seq({"up", "message", "down"}) /\ Down'
<1> USE DEF CtlInv, ConnectDestroyedUp, CallUser
<1>1. Shifted(1) /\ Destroys(1) /\ 1 \in DOMAIN functors
  BY RunShifts DEF Destroys
<1>2. calls # <<>> /\ todo = <<>>
  BY RunLater
<1>3. ~Down
  BY DEF StillUp, StateInv
<1>4. calls' \in Seq({"up", "message", "down"}) /\ calls' # <<>> /\ Down'
  BY CallsStep DEF TypeOK
<1>5. owner = "dead"
  BY <1>1, <1>3 DEF OwnerInv
<1>6. FirstInv'
  <2>0. functors \in Seq(Functor) /\ FirstOnce
    BY DEF TypeOK, FirstInv, FirstOnce
  <2>1. FirstOnce'
    BY <1>1, <2>0, FirstGone
  <2>. QED  BY <1>4, <2>1 DEF FirstInv, FirstOnce
<1>7. StateInv'
  BY <1>4 DEF StateInv, AfterDisableAll, kConnecting, kConnected, kDisconnecting, kDisconnected
<1>8. TodoInv'
  BY <1>2, NoDomain DEF TodoInv
<1>9. OwnerInv'
  BY <1>4, <1>5 DEF OwnerInv
<1>10. CallbackProtocol'
  <2>1. CASE raced
    BY <2>1 DEF CallbackProtocol
  <2>2. CASE ~raced
    BY <1>2, <1>3, <2>2, ProtocolStep
  <2>. QED  BY <2>1, <2>2
<1>11. AssertionsHold'
  BY DEF AssertionsHold
<1>. QED  BY <1>4, <1>6, <1>7, <1>8, <1>9, <1>10, <1>11

(* connectDestroyed of a connection that is down: its channel has no       *)
(* interests and is still in the poller.                                   *)
LEMMA DestroyedStep ==
    ASSUME TypeOK, CtlInv, failed = "none", ConnectDestroyed
    PROVE  CtlInv'
<1> USE DEF CtlInv, ConnectDestroyed, control
<1>1. Shifted(1) /\ Destroys(1) /\ 1 \in DOMAIN functors /\ functors # <<>>
  BY RunShifts DEF Destroys, Run
<1>2. calls # <<>> /\ todo = <<>>
  BY RunLater
<1>3. Down' = Down
  BY DEF Down
<1>4. owner = "dead" \/ (owner = "gone" /\ added /\ Down)
  BY <1>1 DEF OwnerInv
<1>5. FirstInv'
  <2>0. functors \in Seq(Functor) /\ FirstOnce
    BY DEF TypeOK, FirstInv, FirstOnce
  <2>1. FirstOnce'
    BY <1>1, <2>0, FirstGone
  <2>. QED  BY <1>2, <2>1 DEF FirstInv, FirstOnce
<1>6. StateInv'
  BY <1>3 DEF StateInv
<1>7. TodoInv'
  BY <1>2, NoDomain DEF TodoInv
<1>8. OwnerInv'
  <2>0. functors \in Seq(Functor) /\ DestroyOnce
    BY DEF TypeOK, OwnerInv, DestroyOnce
  <2>1. DestroyOnce'
    BY <1>1, <2>0, DestroyKeeps
  <2>. QED  BY <1>3, <1>4, <2>1 DEF OwnerInv, DestroyOnce
<1>9. AssertionsHold'
  BY <1>4 DEF AssertionsHold, RemoveChannel, Asserts, StateInv
<1>. QED  BY <1>5, <1>6, <1>7, <1>8, <1>9 DEF CallbackProtocol

(* writeCompleteCallback_ and highWaterMarkCallback_.                      *)
LEMMA NoticeStep ==
    ASSUME TypeOK, CtlInv, RunNotice
    PROVE  CtlInv'
<1> USE DEF CtlInv, RunNotice, conn
<1>0. PICK o \in {"writeComplete", "highWaterMark"} : Run(o)
  OBVIOUS
<1>1. Shifted(1) /\ calls # <<>> /\ todo = <<>>
  BY <1>0, RunShifts, RunLater
<1>2. Down' = Down
  BY DEF Down
<1>3. FirstInv'
  <2>0. functors \in Seq(Functor) /\ FirstOnce
    BY DEF TypeOK, FirstInv, FirstOnce
  <2>1. FirstOnce'
    BY <1>1, <2>0, FirstGone
  <2>. QED  BY <1>1, <2>1 DEF FirstInv, FirstOnce
<1>4. StateInv' /\ TodoInv'
  BY <1>1, <1>2, NoDomain DEF StateInv, TodoInv
<1>5. OwnerInv'
  <2>0. functors \in Seq(Functor) /\ DestroyOnce
    BY DEF TypeOK, OwnerInv, DestroyOnce
  <2>1. DestroyOnce'
    BY <1>1, <2>0, DestroyKeeps
  <2>. QED  BY <1>2, <2>1 DEF OwnerInv, DestroyOnce
<1>. QED  BY <1>3, <1>4, <1>5 DEF CallbackProtocol, AssertionsHold

(* A callback of the user returns, and handleEventWithGuard.               *)
LEMMA ReturnStep ==
    ASSUME TypeOK, CtlInv, failed = "none", UserReturns \/ EventsDone
    PROVE  CtlInv'
<1> USE DEF CtlInv
<1>1. /\ UNCHANGED <<state, reading, writing, todo, functors, tpc, calls, raced, back>>
      /\ calls # <<>>
  BY DEF UserReturns, EventsDone, FirstInv, conn
<1>2. Down' = Down
  BY <1>1 DEF Down
<1>3. pc' \in {"idle", "events"} /\ (pc' = "idle" => todo = <<>>)
  BY DEF UserReturns, EventsDone, TodoInv
<1>4. FirstInv' /\ StateInv'
  BY <1>1, <1>2 DEF FirstInv, StateInv
<1>5. TodoInv'
  BY <1>1, <1>2, <1>3 DEF TodoInv
<1>6. OwnerInv' /\ AssertionsHold'
  <2>1. CASE UNCHANGED <<added, owner, failed>>
    BY <1>1, <1>2, <1>3, <2>1 DEF OwnerInv, Destroys, AssertionsHold
  <2>2. CASE pc = "user" /\ back = "close" /\ CloseCallback /\ UNCHANGED added
    BY <1>1, <1>2, <1>3, <2>2 DEF OwnerInv, Destroys, AssertionsHold, CloseCallback, Asserts
  <2>3. CASE pc = "user" /\ back = "remove" /\ UNCHANGED owner
    BY <1>1, <1>2, <1>3, <2>3 DEF OwnerInv, AssertionsHold
  <2>. QED  BY <2>1, <2>2, <2>3 DEF UserReturns, EventsDone, conn
<1>. QED  BY <1>1, <1>4, <1>5, <1>6 DEF CallbackProtocol

(* send and shutdown up to the functor: shutdown() may overwrite state_.   *)
LEMMA CallStep ==
    ASSUME TypeOK, CtlInv, calls # <<>>, Shifted(0),
           UNCHANGED <<reading, writing, added, control, owner, calls, failed>>,
           \/ UNCHANGED <<state, raced>>
           \/ state' = kDisconnecting /\ raced' = (raced \/ state # kConnected)
    PROVE  CtlInv'
<1> USE DEF CtlInv, control
<1>0. raced \in BOOLEAN
  BY DEF TypeOK
<1>1. Down' = Down
  BY DEF Down
<1>2. FirstInv'
  <2>0. functors \in Seq(Functor) /\ FirstOnce
    BY DEF TypeOK, FirstInv, FirstOnce
  <2>1. FirstOnce'
    BY <2>0, FirstKeeps
  <2>. QED  BY <2>1 DEF FirstInv, FirstOnce
<1>3. StateInv'
  <2>1. CASE UNCHANGED <<state, raced>>
    BY <1>1, <2>1 DEF StateInv
  <2>2. CASE state' = kDisconnecting /\ raced' = (raced \/ state # kConnected)
    <3>1. Down => raced'
      BY <1>0, <2>2 DEF StateInv
    <3>. QED  BY <1>1, <2>2, <3>1 DEF StateInv, kConnecting, kConnected, kDisconnecting, kDisconnected
  <2>. QED  BY <2>1, <2>2
<1>4. TodoInv'
  <2>1. raced => raced'
    BY <1>0
  <2>. QED  BY <1>1, <2>1 DEF TodoInv
<1>5. OwnerInv'
  <2>0. functors \in Seq(Functor) /\ DestroyOnce
    BY DEF TypeOK, OwnerInv, DestroyOnce
  <2>1. DestroyOnce'
    BY <2>0, DestroyKeeps
  <2>. QED  BY <1>1, <2>1 DEF OwnerInv, DestroyOnce
<1>. QED  BY <1>2, <1>3, <1>4, <1>5 DEF CallbackProtocol, AssertionsHold

(* removeConnectionInLoop and the destructor of TcpServer.                 *)
LEMMA OwnerStep ==
    ASSUME TypeOK, CtlInv, OwnerLetsGo
    PROVE  CtlInv' /\ functors' \in Seq(Functor)
<1> USE DEF CtlInv, OwnerLetsGo, conn, control
<1>1. Down' = Down /\ functors \in Seq(Functor) /\ [op |-> "connectDestroyed"] \in Functor
  BY FunctorTypes DEF Down, TypeOK
<1>2. /\ functors' \in Seq(Functor) /\ functors' # <<>> /\ Len(functors') = Len(functors) + 1
      /\ \A i \in 1..Len(functors) : functors'[i] = functors[i]
      /\ functors'[Len(functors) + 1] = [op |-> "connectDestroyed"]
  BY <1>1, AppendProperties
<1>3. /\ Len(functors) \in Nat /\ DOMAIN functors = 1..Len(functors) /\ DOMAIN functors' = 1..Len(functors')
      /\ functors # <<>> => Len(functors) > 0
  BY <1>1, <1>2, LenProperties, EmptySeq
<1>4. \A i \in DOMAIN functors' : \/ i \in DOMAIN functors /\ functors'[i] = functors[i]
                                  \/ i = Len(functors) + 1 /\ functors'[i].op = "connectDestroyed"
  BY <1>2, <1>3
<1>5. FirstInv'
  <2>1. FirstOnce'
    BY <1>4 DEF FirstOnce, FirstInv
  <2>2. calls = <<>> => functors'[1].op = "connectEstablished"
    BY <1>2, <1>3 DEF FirstInv
  <2>. QED  BY <1>2, <2>1, <2>2 DEF FirstInv, FirstOnce
<1>6. StateInv' /\ TodoInv'
  BY <1>1 DEF StateInv, TodoInv
<1>7. OwnerInv'
  <2>1. CASE owner = "holds" /\ owner' = "dead"
    BY <1>1, <2>1 DEF OwnerInv
  <2>2. CASE owner = "removing" /\ owner' = "gone"
    <3>1. Down /\ calls # <<>> /\ added
      BY <2>2, NoDomain DEF OwnerInv, Down
    <3>2. \A i \in DOMAIN functors : ~Destroys(i)
      BY <2>2 DEF OwnerInv
    <3>3. \A i \in DOMAIN functors' : Destroys(i)' => i = Len(functors) + 1
      BY <1>4, <3>2 DEF Destroys
    <3>. QED  BY <1>1, <2>2, <3>1, <3>3 DEF OwnerInv
  <2>. QED  BY <2>1, <2>2
<1>. QED  BY <1>2, <1>5, <1>6, <1>7 DEF CallbackProtocol, AssertionsHold
-----------------------------------------------------------------------------
(* The steps of Next.                                                      *)
FinLast == fin' /\ ~fin /\ ~Down => outputBuffer' = <<>>

\* what a step of Next keeps and shows
Kept == TypeOK' /\ DataInv' /\ CtlInv' /\ FinLast

(* The steps of handleEvent other than handleWrite keep the invariant.     *)
LEMMA EventSteps ==
    ASSUME IInv, failed = "none",
           \/ \E revents \in SUBSET PossibleEvents : HandleEvent(revents)
           \/ HandleClosed \/ HandleRead \/ HandleError \/ EventsDone \/ UserReturns
    PROVE  Kept
<1> USE DEF conn, control, kernel
<1>1. TypeOK /\ DataInv /\ CtlInv /\ functors \in Seq(Functor) /\ todo \in Seq(CB)
  BY DEF IInv, CtlInv, TypeOK, CB
<1>2. ASSUME NEW revents, HandleEvent(revents) PROVE Kept
  <2>1. CtlInv' /\ todo' \in Seq(CB)
    BY <1>1, <1>2, HandleEventStep
  <2>2. DataInv'
    BY <1>1, <1>2, DataAside DEF HandleEvent, Down
  <2>3. TypeOK'
    BY <1>1, <1>2, <2>1 DEF TypeOK, HandleEvent, CB
  <2>. QED  BY <1>2, <2>1, <2>2, <2>3 DEF Kept, FinLast, HandleEvent
<1>3. ASSUME NEW c \in Ends, Take(c), HandleClose, UNCHANGED kernel PROVE Kept
  <2>1. CtlInv' /\ todo' \in Seq(CB) /\ calls' \in Seq({"up", "message", "down"}) /\ Down'
    BY <1>1, <1>3, HandleCloseStep
  <2>2. DataInv'
    BY <1>1, <1>3, <2>1, DataAside DEF HandleClose
  <2>3. TypeOK'
    BY <1>1, <1>3, <2>1 DEF TypeOK, HandleClose, CallUser, AfterDisableAll, CB
  <2>. QED  BY <1>3, <2>1, <2>2, <2>3 DEF Kept, FinLast
<1>4. CASE /\ Take("read")
           /\ reads < MaxReads /\ peer \in {"open", "finished"}
           /\ reads' = reads + 1
           /\ CallUser("message", "events")
           /\ UNCHANGED <<conn, functors, tpc, owner, raced, fresh, accepted, warned, failed,
                          peer, fin, wire>>
  <2>1. CtlInv' /\ todo' \in Seq(CB) /\ calls' \in Seq({"up", "message", "down"}) /\ Down' = Down
    BY <1>1, <1>4, MessageStep
  <2>2. DataInv'
    BY <1>1, <1>4, <2>1, DataAside
  <2>3. reads' \in 0..MaxReads
    BY <1>1, <1>4, MaxReadsAssumption DEF TypeOK
  <2>4. TypeOK'
    BY <1>1, <1>4, <2>1, <2>3 DEF TypeOK, CallUser, CB
  <2>. QED  BY <1>4, <2>1, <2>2, <2>4 DEF Kept, FinLast
<1>5. CASE /\ todo # <<>> /\ todo' = Tail(todo) /\ peer' = ErrorFetched
           /\ UNCHANGED <<conn, pc, back, functors, tpc, owner, raced, fresh, accepted, warned,
                          calls, failed, fin, wire, reads>>
  <2>1. CtlInv'
    BY <1>1, <1>5, CalmStep, ShiftedSame
  <2>2. todo' \in Seq(CB)
    BY <1>1, <1>5, HeadTailProperties
  <2>3. DataInv'
    BY <1>1, <1>5, DataAside DEF Down
  <2>4. TypeOK'
    BY <1>1, <1>5, <2>2 DEF TypeOK, ErrorFetched, CB
  <2>. QED  BY <1>5, <2>1, <2>3, <2>4 DEF Kept, FinLast
<1>6. CASE EventsDone \/ UserReturns
  <2>1. CtlInv'
    BY <1>1, <1>6, ReturnStep
  <2>2. UNCHANGED <<state, reading, writing, outputBuffer, kernel, back, todo, functors, tpc,
                    raced, fresh, accepted, warned, calls>>
    BY <1>6 DEF EventsDone, UserReturns
  <2>3. DataInv'
    BY <1>1, <2>2, DataAside DEF Down
  <2>4. /\ pc' \in {"idle", "events"} /\ added' \in BOOLEAN
        /\ owner' \in {"holds", "removing", "gone", "dead"}
    BY <1>1, <1>6 DEF TypeOK, EventsDone, UserReturns, RemoveChannel, CloseCallback
  <2>5. TypeOK'
    BY <1>1, <2>2, <2>4 DEF TypeOK
  <2>. QED  BY <2>1, <2>2, <2>3, <2>5 DEF Kept, FinLast
<1>7. CASE HandleRead
  <2>1. Take("read") /\ todo # <<>> /\ todo' = Tail(todo) /\ "read" \in Ends
    BY <1>7 DEF HandleRead, Take, Ends
  <2>. QED  BY <1>3, <1>4, <1>5, <1>7, <2>1 DEF HandleRead
<1>8. CASE HandleClosed
  BY <1>3, <1>8 DEF HandleClosed, Ends
<1>9. CASE HandleError
  BY <1>5, <1>9 DEF HandleError, Take
<1>. QED  BY <1>2, <1>6, <1>7, <1>8, <1>9

(* So does handleWrite, which takes bytes from the buffer.                 *)
LEMMA WriteStep ==
    ASSUME IInv, HandleWrite
    PROVE  Kept
<1>1. TypeOK /\ DataInv /\ CtlInv /\ functors \in Seq(Functor) /\ todo \in Seq(CB)
  BY DEF IInv, CtlInv, TypeOK, CB
<1>2. /\ DataInv'
      /\ outputBuffer' \in Seq(B) /\ wire' \in Seq(B)
      /\ writing' \in BOOLEAN /\ warned' \in 0..1 /\ fin' \in BOOLEAN
      /\ peer' \in {"open", "finished", "reset", "dead"}
      /\ functors' = functors \/ functors' = Append(functors, [op |-> "writeComplete"])
      /\ writing' => writing
      /\ fin' /\ ~fin => outputBuffer' = <<>>
  BY <1>1, WriteKeeps
<1>3. /\ UNCHANGED <<state, reading, added, pc, back, tpc, owner, raced, fresh, accepted, calls,
                     failed, reads>>
      /\ todo # <<>> /\ todo' = Tail(todo)
  BY DEF HandleWrite, Take
<1>4. Shifted(0)
  <2>1. [op |-> "writeComplete"] \in Functor /\ [op |-> "writeComplete"].op \notin Once
    BY FunctorTypes DEF Once
  <2>. QED  BY <1>1, <1>2, <2>1, ShiftedSame, ShiftedAppend
<1>5. CtlInv'
  BY <1>1, <1>2, <1>3, <1>4, CalmStep
<1>6. todo' \in Seq(CB) /\ functors' \in Seq(Functor)
  BY <1>1, <1>3, <1>4, HeadTailProperties DEF Shifted
<1>7. TypeOK'
  BY <1>1, <1>2, <1>3, <1>6 DEF TypeOK, B, CB
<1>. QED  BY <1>2, <1>5, <1>7 DEF Kept, FinLast

(* sendInLoop, in a functor or in a callback of the user.                  *)
LEMMA SendStep ==
    ASSUME IInv, NEW m \in Messages, NEW q,
           q = functors \/ (functors # <<>> /\ q = Tail(functors)),
           calls # <<>>, SendInLoop(m, q),
           UNCHANGED <<state, reading, control, fin, reads, tpc, owner, raced, calls, failed>>,
           fresh' \subseteq Messages
    PROVE  Kept
<1>1. TypeOK /\ DataInv /\ CtlInv /\ functors \in Seq(Functor)
  BY DEF IInv, CtlInv, TypeOK
<1>2. q \in Seq(Functor)
  BY <1>1, HeadTailProperties
<1>3. /\ DataInv'
      /\ outputBuffer' \in Seq(B) /\ wire' \in Seq(B) /\ accepted' \in Seq(B)
      /\ writing' \in BOOLEAN /\ added' \in BOOLEAN /\ warned' \in 0..1
      /\ peer' \in {"open", "finished", "reset", "dead"}
      /\ \/ functors' = q
         \/ \E o \in {"writeComplete", "highWaterMark"} : functors' = Append(q, [op |-> o])
      /\ writing' => writing \/ state # kDisconnected
      /\ added => added'
  BY <1>1, <1>2, SendKeeps
<1>4. PICK k \in {0, 1} : Shifted(k)
  <2>1. \/ functors' = q
        \/ \E f \in Functor : f.op \notin Once /\ functors' = Append(q, f)
    BY <1>3, FunctorTypes DEF Once
  <2>2. CASE q = functors
    <3>1. Shifted(0)
      BY <1>1, <2>1, <2>2, ShiftedSame, ShiftedAppend
    <3>. QED  BY <3>1
  <2>3. CASE functors # <<>> /\ q = Tail(functors)
    <3>1. Shifted(1)
      BY <1>1, <2>1, <2>3, ShiftedTail
    <3>. QED  BY <3>1
  <2>. QED  BY <2>2, <2>3
<1>5. CtlInv'
  BY <1>1, <1>3, <1>4, CalmStep DEF control
<1>6. TypeOK'
  <2>1. functors' \in Seq(Functor)
    BY <1>4 DEF Shifted
  <2>2. outputBuffer' \in Seq(Messages \X Nat) /\ wire' \in Seq(Messages \X Nat) /\ accepted' \in Seq(Messages \X Nat)
    BY <1>3 DEF B
  <2>. QED  BY <1>1, <1>3, <2>1, <2>2 DEF TypeOK, control
<1>. QED  BY <1>3, <1>5, <1>6 DEF Kept, FinLast

(* So does the functor at the head of the queue.                           *)
LEMMA FunctorSteps ==
    ASSUME IInv, failed = "none", RunFunctor
    PROVE  Kept
<1> USE DEF conn, control, kernel
<1>1. TypeOK /\ DataInv /\ CtlInv /\ functors \in Seq(Functor)
  BY DEF IInv, CtlInv, TypeOK
<1>2. functors # <<>> /\ Tail(functors) \in Seq(Functor) /\ Head(functors) \in Functor
  <2>1. functors # <<>>
    BY DEF RunFunctor, ConnectEstablished, ConnectDestroyedUp, ConnectDestroyed, RunSend,
           RunShutdown, RunNotice, Run
  <2>. QED  BY <1>1, <2>1, HeadTailProperties
<1>3. CASE ConnectEstablished
  <2>1. CtlInv' /\ calls' \in Seq({"up", "message", "down"}) /\ Down' = Down
    BY <1>1, <1>3, EstablishedStep
  <2>2. DataInv'
    BY <1>1, <1>3, <2>1, DataAside DEF ConnectEstablished
  <2>3. TypeOK'
    BY <1>1, <1>2, <1>3, <2>1 DEF TypeOK, ConnectEstablished, CallUser
  <2>. QED  BY <1>3, <2>1, <2>2, <2>3 DEF Kept, FinLast, ConnectEstablished
<1>4. CASE ConnectDestroyedUp
  <2>1. CtlInv' /\ calls' \in Seq({"up", "message", "down"}) /\ Down'
    BY <1>1, <1>4, DestroyedUpStep
  <2>2. DataInv'
    BY <1>1, <1>4, <2>1, DataAside DEF ConnectDestroyedUp
  <2>3. TypeOK'
    BY <1>1, <1>2, <1>4, <2>1 DEF TypeOK, ConnectDestroyedUp, CallUser, AfterDisableAll
  <2>. QED  BY <1>4, <2>1, <2>2, <2>3 DEF Kept, FinLast, ConnectDestroyedUp
<1>5. CASE ConnectDestroyed
  <2>1. CtlInv'
    BY <1>1, <1>5, DestroyedStep
  <2>2. DataInv'
    BY <1>1, <1>5, <2>1, DataAside DEF ConnectDestroyed, Down
  <2>3. TypeOK'
    <3>1. added' \in BOOLEAN /\ functors' \in Seq(Functor)
      BY <1>2, <1>5 DEF ConnectDestroyed, RemoveChannel
    <3>2. UNCHANGED <<state, reading, writing, outputBuffer, pc, back, todo, peer, fin, wire, reads,
                      tpc, owner, raced, fresh, accepted, warned, calls>>
      BY <1>5 DEF ConnectDestroyed
    <3>. QED  BY <1>1, <3>1, <3>2 DEF TypeOK
  <2>. QED  BY <1>5, <2>1, <2>2, <2>3 DEF Kept, FinLast, ConnectDestroyed
<1>6. CASE RunSend
  <2>1. Head(functors).op = "sendInLoop" /\ calls # <<>>
    BY <1>1, <1>6, RunLater DEF RunSend, Run
  <2>2. PICK m \in Messages : m = Head(functors).msg
    BY <1>2, <2>1, FunctorTypes
  <2>3. fresh' \subseteq Messages
    BY <1>1, <1>6 DEF RunSend, TypeOK
  <2>4. SendInLoop(m, Tail(functors))
    BY <1>6, <2>2 DEF RunSend
  <2>5. UNCHANGED <<state, reading, control, fin, reads, tpc, owner, raced, calls, failed>>
    BY <1>6 DEF RunSend
  <2>. QED  BY <1>2, <2>1, <2>3, <2>4, <2>5, SendStep
<1>7. CASE RunShutdown
  <2>1. calls # <<>> /\ Shifted(1)
    BY <1>1, <1>7, RunLater, RunShifts DEF RunShutdown
  <2>2. \A k \in {0, 1} : k = 1 => CtlInv'
    BY <1>1, <1>7, <2>1, CalmStep DEF RunShutdown
  <2>3. DataInv'
    BY <1>1, <1>7, DataAside DEF RunShutdown, Down
  <2>4. TypeOK'
    BY <1>1, <1>2, <1>7 DEF TypeOK, RunShutdown, FinAfterShutdown
  <2>5. FinLast
    BY <1>1, <1>7 DEF FinLast, RunShutdown, FinAfterShutdown, DataInv, WritingIffBuffered, TypeOK
  <2>. QED  BY <2>2, <2>3, <2>4, <2>5 DEF Kept
<1>8. CASE RunNotice
  <2>1. CtlInv'
    BY <1>1, <1>8, NoticeStep
  <2>2. DataInv'
    BY <1>1, <1>8, DataAside DEF RunNotice, Down
  <2>3. TypeOK'
    BY <1>1, <1>2, <1>8 DEF TypeOK, RunNotice
  <2>. QED  BY <1>8, <2>1, <2>2, <2>3 DEF Kept, FinLast, RunNotice
<1>. QED  BY <1>3, <1>4, <1>5, <1>6, <1>7, <1>8 DEF RunFunctor

(* So do send() and shutdown() in a callback.                              *)
LEMMA UserSteps ==
    ASSUME IInv, UserShutdown \/ \E m \in Messages : UserSend(m)
    PROVE  Kept
<1> USE DEF conn, control, kernel
<1>1. TypeOK /\ DataInv /\ CtlInv /\ functors \in Seq(Functor) /\ calls # <<>>
  BY DEF IInv, CtlInv, TypeOK, UserShutdown, UserSend, FirstInv
<1>2. ASSUME UNCHANGED functors PROVE Shifted(0)
  BY <1>1, <1>2, ShiftedSame
<1>3. CASE UserShutdown
  <2>1. CtlInv'
    <3>1. raced' = (raced \/ state # kConnected)
      BY <1>1, <1>3 DEF UserShutdown, TypeOK
    <3>. QED  BY <1>1, <1>2, <1>3, <3>1, CallStep DEF UserShutdown
  <2>2. DataInv'
    BY <1>1, <1>3, DataAside DEF UserShutdown, Down
  <2>3. TypeOK'
    BY <1>1, <1>3 DEF TypeOK, UserShutdown, FinAfterShutdown
  <2>4. FinLast
    BY <1>1, <1>3 DEF FinLast, UserShutdown, FinAfterShutdown, DataInv, WritingIffBuffered, TypeOK
  <2>. QED  BY <2>1, <2>2, <2>3, <2>4 DEF Kept
<1>4. ASSUME NEW m \in Messages, UserSend(m) PROVE Kept
  <2>0. fresh' \subseteq Messages
    BY <1>1, <1>4 DEF UserSend, TypeOK
  <2>1. CASE state = kConnected
    BY <1>1, <1>4, <2>0, <2>1, SendStep DEF UserSend
  <2>2. CASE state # kConnected
    <3>1. /\ UNCHANGED <<functors, writing, added, outputBuffer, wire, peer, accepted, warned>>
          /\ UNCHANGED <<state, reading, control, fin, reads, tpc, owner, raced, calls, failed>>
      BY <1>4, <2>2 DEF UserSend
    <3>2. CtlInv'
      BY <1>1, <1>2, <3>1, CallStep
    <3>3. DataInv'
      BY <1>1, <3>1, DataAside DEF Down
    <3>4. TypeOK'
      BY <1>1, <2>0, <3>1 DEF TypeOK
    <3>. QED  BY <3>1, <3>2, <3>3, <3>4 DEF Kept, FinLast
  <2>. QED  BY <2>1, <2>2
<1>. QED  BY <1>3, <1>4

(* So do send() and shutdown() of another thread, at each of their steps.  *)
LEMMA ThreadSteps ==
    ASSUME IInv, NEW t \in Threads,
           ThreadStep(t) \/ ThreadShutdown(t) \/ \E m \in Messages : ThreadSend(t, m)
    PROVE  Kept
<1> USE DEF conn, control, kernel, othersUnchanged
<1> DEFINE TPC == {[at |-> a] : a \in {"idle", "setState", "queueShutdown"}}
                  \cup {[at |-> "send", msg |-> m] : m \in Messages}
<1>1. /\ TypeOK /\ DataInv /\ CtlInv /\ functors \in Seq(Functor) /\ raced \in BOOLEAN
      /\ tpc \in [Threads -> TPC]
  BY DEF IInv, CtlInv, TypeOK
<1>2. calls # <<>>
  <2>1. tpc[t].at # "idle" => calls # <<>>
    BY <1>1 DEF CtlInv, FirstInv
  <2>. QED  BY <2>1 DEF ThreadStep, ThreadQueuesSend, ThreadSetsState, ThreadQueuesShutdown,
                       ThreadShutdown, ThreadSend
<1>3. othersUnchanged
  BY DEF ThreadStep, ThreadQueuesSend, ThreadSetsState, ThreadQueuesShutdown, ThreadShutdown, ThreadSend
<1>4. tpc[t].at = "send" => tpc[t].msg \in Messages
  <2>1. tpc[t] \in TPC
    BY <1>1
  <2>. QED  BY <2>1
<1>5. Shifted(0)
  <2>1. ASSUME UNCHANGED functors PROVE Shifted(0)
    BY <1>1, <2>1, ShiftedSame
  <2>2. CASE ThreadQueuesSend(t)
    <3>1. [op |-> "sendInLoop", msg |-> tpc[t].msg] \in Functor
      BY <1>4, <2>2, FunctorTypes DEF ThreadQueuesSend
    <3>2. [op |-> "sendInLoop", msg |-> tpc[t].msg].op \notin Once
      BY DEF Once
    <3>. QED  BY <1>1, <2>2, <3>1, <3>2, ShiftedAppend DEF ThreadQueuesSend
  <2>3. CASE ThreadQueuesShutdown(t)
    <3>1. [op |-> "shutdownInLoop"] \in Functor /\ [op |-> "shutdownInLoop"].op \notin Once
      BY FunctorTypes DEF Once
    <3>. QED  BY <1>1, <2>3, <3>1, ShiftedAppend DEF ThreadQueuesShutdown
  <2>. QED  BY <2>1, <2>2, <2>3 DEF ThreadStep, ThreadSetsState, ThreadShutdown, ThreadSend
<1>6. \/ UNCHANGED <<state, raced>>
      \/ state' = kDisconnecting /\ raced' = (raced \/ state # kConnected)
  BY DEF ThreadStep, ThreadQueuesSend, ThreadSetsState, ThreadQueuesShutdown, ThreadShutdown, ThreadSend
<1>7. CtlInv'
  BY <1>1, <1>2, <1>3, <1>5, <1>6, CallStep
<1>8. DataInv'
  BY <1>1, <1>3, DataAside DEF Down
<1>9. tpc' \in [Threads -> TPC]
  <2>1. \E x \in TPC : tpc' = [tpc EXCEPT ![t] = x]
    BY <1>1 DEF ThreadStep, ThreadQueuesSend, ThreadSetsState, ThreadQueuesShutdown, ThreadShutdown,
                ThreadSend, Goto
  <2>. QED  BY <1>1, <2>1
<1>10. fresh' \subseteq Messages
  BY <1>1 DEF TypeOK, ThreadStep, ThreadQueuesSend, ThreadSetsState, ThreadQueuesShutdown,
              ThreadShutdown, ThreadSend
<1>11. TypeOK'
  <2>1. functors' \in Seq(Functor) /\ raced' \in BOOLEAN
    BY <1>1, <1>5, <1>6 DEF Shifted
  <2>2. state' \in {kConnecting, kConnected, kDisconnecting, kDisconnected}
    BY <1>1, <1>6 DEF TypeOK
  <2>. QED  BY <1>1, <1>3, <1>9, <1>10, <2>1, <2>2 DEF TypeOK
<1>. QED  BY <1>3, <1>7, <1>8, <1>11 DEF Kept, FinLast

(* So do the owner, the peer and stuttering.                               *)
LEMMA OtherSteps ==
    ASSUME IInv, OwnerLetsGo \/ PeerEnds \/ UNCHANGED vars
    PROVE  Kept
<1> USE DEF conn, control, kernel
<1>1. TypeOK /\ DataInv /\ CtlInv /\ functors \in Seq(Functor)
  BY DEF IInv, CtlInv, TypeOK
<1>2. CASE OwnerLetsGo
  <2>1. CtlInv' /\ functors' \in Seq(Functor)
    BY <1>1, <1>2, OwnerStep
  <2>2. DataInv'
    BY <1>1, <1>2, DataAside DEF OwnerLetsGo, Down
  <2>3. TypeOK'
    BY <1>1, <1>2, <2>1 DEF TypeOK, OwnerLetsGo
  <2>. QED  BY <1>2, <2>1, <2>2, <2>3 DEF Kept, FinLast, OwnerLetsGo
<1>3. CASE PeerEnds \/ UNCHANGED vars
  <2>1. /\ UNCHANGED <<conn, control, fin, wire, reads, functors, tpc, owner, raced, fresh, accepted,
                       warned, calls, failed>>
        /\ peer' \in {"open", "finished", "reset", "dead"}
    BY <1>1, <1>3 DEF PeerEnds, vars, TypeOK
  <2>2. CtlInv'
    BY <1>1, <2>1, CalmStep, ShiftedSame
  <2>3. DataInv'
    BY <1>1, <2>1, DataAside DEF Down
  <2>4. TypeOK'
    BY <1>1, <2>1 DEF TypeOK
  <2>. QED  BY <2>1, <2>2, <2>3, <2>4 DEF Kept, FinLast
<1>. QED  BY <1>2, <1>3
-----------------------------------------------------------------------------
(* Every step keeps the inductive invariant.                               *)
LEMMA StepKeeps ==
    ASSUME IInv, [Next]_vars
    PROVE  IInv' /\ FinLast
<1>1. Kept
  <2>1. CASE UNCHANGED vars
    BY <2>1, OtherSteps
  <2>2. CASE Next
    BY <2>2, EventSteps, WriteStep, FunctorSteps, UserSteps, ThreadSteps, OtherSteps DEF Next, Dispatch
  <2>. QED  BY <2>1, <2>2
<1>. QED  BY <1>1 DEF Kept, IInv, CtlInv

(* The initial state satisfies the invariant.                              *)
LEMMA InitHolds ==
    ASSUME Init
    PROVE  IInv
<1> USE DEF Init
<1>1. ~Down
  BY NoDomain DEF Down
<1>2. functors \in Seq(Functor) /\ DOMAIN functors = {1} /\ functors[1].op = "connectEstablished"
  BY FunctorTypes
<1>3. TypeOK
  <2>1. tpc \in [Threads -> {[at |-> a] : a \in {"idle", "setState", "queueShutdown"}}
                            \cup {[at |-> "send", msg |-> m] : m \in Messages}]
    OBVIOUS
  <2>2. reads \in 0..MaxReads
    BY MaxReadsAssumption
  <2>3. /\ \A S : <<>> \in Seq(S)
        /\ outputBuffer = <<>> /\ todo = <<>> /\ wire = <<>> /\ accepted = <<>> /\ calls = <<>>
    OBVIOUS
  <2>4. /\ outputBuffer \in Seq(Messages \X Nat) /\ wire \in Seq(Messages \X Nat)
        /\ accepted \in Seq(Messages \X Nat) /\ todo \in Seq({"close", "error", "read", "write"})
        /\ calls \in Seq({"up", "message", "down"})
    BY <2>3
  <2>5. /\ reading \in BOOLEAN /\ writing \in BOOLEAN /\ added \in BOOLEAN /\ fin \in BOOLEAN
        /\ raced \in BOOLEAN
    OBVIOUS
  <2>. QED  BY <1>2, <2>1, <2>2, <2>4, <2>5 DEF TypeOK
<1>4. DataInv
  <2>1. wire \o outputBuffer = accepted
    BY ConcatEmptySeq, EmptySeq
  <2>2. Len(outputBuffer) = 0
    BY EmptySeq
  <2>. QED  BY <2>1, <2>2, HighWaterMarkAssumption
            DEF DataInv, BytesInOrder, WarnedOncePerExcursion, WritingIffBuffered
<1>5. FirstInv /\ StateInv
  BY <1>1, <1>2 DEF FirstInv, StateInv
<1>6. TodoInv
  BY NoDomain DEF TodoInv
<1>7. OwnerInv
  BY <1>1, <1>2 DEF OwnerInv, Destroys
<1>. QED  BY <1>3, <1>4, <1>5, <1>6, <1>7 DEF IInv, CallbackProtocol, AssertionsHold

(* IInv holds in every state the connection reaches.                       *)
THEOREM Invariance == Spec => []IInv
BY InitHolds, StepKeeps, PTL DEF Spec

(* Whatever write() takes and whoever sends, the bytes on the wire and     *)
(* then the output buffer are the accepted messages, in order.             *)
THEOREM NoByteLost == Spec => []BytesInOrder
BY Invariance, PTL DEF IInv, DataInv

(* The channel waits for POLLOUT exactly while bytes are buffered, until   *)
(* the connection is down.                                                 *)
THEOREM WritesWhileBuffered == Spec => []WritingIffBuffered
BY Invariance, PTL DEF IInv, DataInv

(* The high water callback is queued once for each time the buffer grows   *)
(* to the mark, for every mark.                                            *)
THEOREM WarnsOnce == Spec => []WarnedOncePerExcursion
BY Invariance, PTL DEF IInv, DataInv

(* The user sees the connection up, messages, and down, each end once,     *)
(* unless a shutdown() of another thread raced with the end.               *)
THEOREM UserSeesProtocol == Spec => []CallbackProtocol
BY Invariance, PTL DEF IInv

(* The assertions in connectEstablished, handleClose, Channel::remove and  *)
(* the call of the TcpServer hold, unless the server was destroyed first   *)
(* or shutdown() raced with the end.                                       *)
THEOREM NoAssertionFails == Spec => []AssertionsHold
BY Invariance, PTL DEF IInv

(* A FIN never overtakes buffered bytes.                                   *)
THEOREM FinComesLast == Spec => FinAfterData
<1>1. IInv /\ [Next]_vars => [fin' /\ ~fin /\ ~Down => outputBuffer' = <<>>]_vars
  BY StepKeeps DEF FinLast
<1>. QED  BY <1>1, Invariance, PTL DEF Spec, FinAfterData
-----------------------------------------------------------------------------
(* The Buffer.  TcpConnection takes outputBuffer_ as the sequence of its   *)
(* readable bytes; what follows shows that a Buffer is that, wherever its  *)
(* bytes lie and whether they are moved or the vector grows.               *)

\* a Buffer of bytes of S between two calls
IsBuffer(b, S) ==
    /\ b \in [mem : Seq(S), reader : Nat, writer : Nat]
    /\ CheapPrepend <= b.reader /\ BufferOK(b)

(* What the bytes from m + 1 to n of a sequence are.                       *)
LEMMA PartIs ==
    ASSUME NEW S, NEW s \in Seq(S), NEW m \in Nat, NEW n \in Nat, m <= n, n <= Len(s)
    PROVE  /\ SubSeq(s, m + 1, n) \in Seq(S) /\ Len(SubSeq(s, m + 1, n)) = n - m
           /\ \A i \in 1 .. n - m : SubSeq(s, m + 1, n)[i] = s[m + i]
<1>1. m + 1 \in Int /\ n \in Int /\ \A i \in m + 1 .. n : s[i] \in S
  OBVIOUS
<1>2. PICK t : t = SubSeq(s, m + 1, n)
  OBVIOUS
<1>3. /\ t \in Seq(S) /\ Len(t) = IF m + 1 <= n THEN n - (m + 1) + 1 ELSE 0
      /\ \A i \in 1 .. n - (m + 1) + 1 : t[i] = s[m + 1 + i - 1]
  BY <1>1, <1>2, SubSeqProperties
<1>4. Len(t) = n - m
  BY <1>3
<1>5. ASSUME NEW i \in 1 .. n - m PROVE t[i] = s[m + i]
  <2>1. i \in 1 .. n - (m + 1) + 1 /\ m + 1 + i - 1 = m + i
    OBVIOUS
  <2>. QED  BY <1>3, <2>1
<1>. QED  BY <1>2, <1>3, <1>4, <1>5

(* The bytes of a concatenation.                                           *)
LEMMA ConcatIs ==
    ASSUME NEW S, NEW s \in Seq(S), NEW t \in Seq(S)
    PROVE  /\ s \o t \in Seq(S) /\ Len(s \o t) = Len(s) + Len(t)
           /\ \A i \in 1 .. Len(s) : (s \o t)[i] = s[i]
           /\ \A i \in 1 .. Len(t) : (s \o t)[Len(s) + i] = t[i]
BY ConcatProperties

(* std::copy changes the bytes it copies to, if they fit.                  *)
LEMMA CopyIs ==
    ASSUME NEW S, NEW mem \in Seq(S), NEW at \in Nat, NEW data \in Seq(S),
           at + Len(data) <= Len(mem)
    PROVE  /\ Copy(mem, at, data) \in Seq(S) /\ Len(Copy(mem, at, data)) = Len(mem)
           /\ \A i \in 1 .. at : Copy(mem, at, data)[i] = mem[i]
           /\ \A i \in 1 .. Len(data) : Copy(mem, at, data)[at + i] = data[i]
<1>1. PICK k \in Nat : k = Len(data)
  OBVIOUS
<1>2. PICK n \in Nat : n = Len(mem)
  OBVIOUS
<1>3. PICK c \in Nat : c = at + k
  OBVIOUS
<1>4. PICK x \in Seq(S) : x = SubSeq(mem, 1, at)
  <2>1. SubSeq(mem, 0 + 1, at) \in Seq(S)
    BY <1>1, <1>2, <1>3, PartIs
  <2>2. 0 + 1 = 1
    OBVIOUS
  <2>. QED  BY <2>1, <2>2
<1>5. Len(x) = at /\ \A i \in 1 .. at : x[i] = mem[i]
  <2>1. 0 \in Nat /\ 0 <= at /\ at <= Len(mem)
    BY <1>1, <1>2, <1>3
  <2>2. x = SubSeq(mem, 0 + 1, at)
    BY <1>4
  <2>3. Len(x) = at - 0 /\ \A i \in 1 .. at - 0 : x[i] = mem[0 + i]
    BY <2>1, <2>2, PartIs
  <2>4. at - 0 = at /\ \A i \in 1 .. at : 0 + i = i
    OBVIOUS
  <2>. QED  BY <2>3, <2>4
<1>0. c <= n /\ n <= Len(mem)
  BY <1>1, <1>2, <1>3
<1>6. PICK z \in Seq(S) : z = SubSeq(mem, c + 1, n)
  BY <1>0, PartIs
<1>7. Len(z) = n - c
  BY <1>0, <1>6, PartIs
<1>8. PICK y \in Seq(S) : y = x \o data
  BY ConcatIs
<1>9. /\ Len(y) = c /\ \A i \in 1 .. at : y[i] = mem[i]
      /\ \A i \in 1 .. k : y[at + i] = data[i]
  <2>1. /\ Len(y) = Len(x) + Len(data) /\ \A i \in 1 .. Len(x) : y[i] = x[i]
        /\ \A i \in 1 .. Len(data) : y[Len(x) + i] = data[i]
    BY <1>8, ConcatIs
  <2>. QED  BY <1>1, <1>3, <1>5, <2>1
<1>10. PICK w \in Seq(S) : w = y \o z
  BY ConcatIs
<1>11. Len(w) = n /\ \A i \in 1 .. c : w[i] = y[i]
  BY <1>1, <1>2, <1>3, <1>7, <1>9, <1>10, ConcatIs
<1>12. SubSeq(w, 1, n) = w
  <2>1. 1 \in Int /\ n \in Int /\ \A i \in 1 .. n : w[i] \in S
    BY <1>11
  <2>2. PICK v \in Seq(S) : v = SubSeq(w, 1, n)
    BY <2>1, SubSeqProperties
  <2>3. Len(v) = n /\ \A i \in 1 .. n : v[i] = w[i]
    <3>1. Len(v) = IF 1 <= n THEN n - 1 + 1 ELSE 0
      BY <2>1, <2>2, SubSeqProperties
    <3>2. \A i \in 1 .. n - 1 + 1 : v[i] = w[1 + i - 1]
      BY <2>1, <2>2, SubSeqProperties
    <3>3. n - 1 + 1 = n /\ \A i \in 1 .. n : 1 + i - 1 = i
      OBVIOUS
    <3>. QED  BY <3>1, <3>2, <3>3
  <2>. QED  BY <1>11, <2>2, <2>3, SeqEqual
<1>13. Copy(mem, at, data) = w
  BY <1>1, <1>2, <1>3, <1>4, <1>6, <1>8, <1>10, <1>12 DEF Copy
<1>14. \A i \in 1 .. at : i \in 1 .. c
  BY <1>3
<1>15. \A i \in 1 .. k : at + i \in 1 .. c
  BY <1>3
<1>. QED  BY <1>1, <1>2, <1>9, <1>11, <1>13, <1>14, <1>15

(* Two sequences have n elements and agree in each of them.                *)
Agree(s, t, n) == Len(s) = n /\ Len(t) = n /\ \A i \in 1 .. n : s[i] = t[i]

(* Such sequences are equal.                                               *)
LEMMA SameElements ==
    ASSUME NEW S, NEW s \in Seq(S), NEW t \in Seq(S), NEW n \in Nat, Agree(s, t, n)
    PROVE  s = t
BY SeqEqual DEF Agree

(* The members of a Buffer.                                                *)
LEMMA BufferFields ==
    ASSUME NEW S, NEW b, IsBuffer(b, S)
    PROVE  /\ b.mem \in Seq(S) /\ b.reader \in Nat /\ b.writer \in Nat /\ Len(b.mem) \in Nat
           /\ CheapPrepend \in Nat /\ CheapPrepend <= b.reader
           /\ b.reader <= b.writer /\ b.writer <= Len(b.mem)
BY BufferAssumption DEF IsBuffer, BufferOK, BufferSize

(* The readable bytes, one by one.                                         *)
LEMMA PeekIs ==
    ASSUME NEW S, NEW b, IsBuffer(b, S)
    PROVE  /\ Peek(b) \in Seq(S) /\ Len(Peek(b)) = b.writer - b.reader
           /\ \A i \in 1 .. b.writer - b.reader : Peek(b)[i] = b.mem[b.reader + i]
<1>1. /\ b.mem \in Seq(S) /\ b.reader \in Nat /\ b.writer \in Nat
      /\ b.reader <= b.writer /\ b.writer <= Len(b.mem)
  BY BufferFields
<1>2. Peek(b) = SubSeq(b.mem, b.reader + 1, b.writer)
  BY Zenon DEF Peek
<1>3. PICK m \in Seq(S), r \in Nat, w \in Nat : m = b.mem /\ r = b.reader /\ w = b.writer
  BY <1>1
<1>4. r <= w /\ w <= Len(m) /\ Peek(b) = SubSeq(m, r + 1, w)
  BY <1>1, <1>2, <1>3
<1>5. /\ SubSeq(m, r + 1, w) \in Seq(S) /\ Len(SubSeq(m, r + 1, w)) = w - r
      /\ \A i \in 1 .. w - r : SubSeq(m, r + 1, w)[i] = m[r + i]
  BY <1>4, PartIs
<1>. QED  BY <1>3, <1>4, <1>5, Zenon

(* A Buffer with given members.                                            *)
LEMMA MakeBuffer ==
    ASSUME NEW S, NEW b, NEW m \in Seq(S), NEW r \in Nat, NEW w \in Nat,
           b = [mem |-> m, reader |-> r, writer |-> w],
           CheapPrepend <= r, r <= w, w <= Len(m)
    PROVE  IsBuffer(b, S) /\ b.mem = m /\ b.reader = r /\ b.writer = w
BY DEF IsBuffer, BufferOK, BufferSize

(* Bytes that nobody wrote.                                                *)
LEMMA ZerosIs ==
    ASSUME NEW S, Unwritten \in S, NEW n \in Nat
    PROVE  Zeros(n) \in Seq(S) /\ Len(Zeros(n)) = n
<1>1. Zeros(n) \in [1 .. n -> S]
  BY DEF Zeros
<1>. QED  BY <1>1

(* A new Buffer is empty.                                                  *)
LEMMA NewBufferIs ==
    ASSUME NEW S, Unwritten \in S
    PROVE  IsBuffer(NewBuffer, S) /\ Peek(NewBuffer) = <<>>
<1>1. PICK n \in Nat : n = CheapPrepend + InitialSize
  BY BufferAssumption
<1>2. PICK m \in Seq(S) : m = Zeros(n)
  BY ZerosIs
<1>3. Len(m) = n
  BY <1>2, ZerosIs
<1>4. NewBuffer = [mem |-> m, reader |-> CheapPrepend, writer |-> CheapPrepend]
  BY <1>1, <1>2 DEF NewBuffer
<1>5. CheapPrepend \in Nat /\ CheapPrepend <= n
  BY <1>1, BufferAssumption
<1>6. IsBuffer(NewBuffer, S) /\ NewBuffer.writer - NewBuffer.reader = 0
  BY <1>3, <1>4, <1>5, MakeBuffer
<1>. QED  BY <1>6, PeekIs, EmptySeq

(* retrieve() takes the first bytes.                                       *)
LEMMA RetrieveIs ==
    ASSUME NEW S, NEW b, IsBuffer(b, S), NEW n \in Nat, n <= ReadableBytes(b)
    PROVE  /\ IsBuffer(Retrieve(b, n), S)
           /\ Peek(Retrieve(b, n)) = SubSeq(Peek(b), n + 1, Len(Peek(b)))
<1>0. /\ b.mem \in Seq(S) /\ b.reader \in Nat /\ b.writer \in Nat /\ Len(b.mem) \in Nat
      /\ CheapPrepend \in Nat /\ CheapPrepend <= b.reader
      /\ b.reader <= b.writer /\ b.writer <= Len(b.mem)
      /\ b \in [mem : Seq(S), reader : Nat, writer : Nat]
  BY BufferFields DEF IsBuffer
<1>1. PICK p : p = Retrieve(b, n)
  OBVIOUS
<1>2. PICK s \in Seq(S) : s = Peek(b)
  BY PeekIs
<1>3. PICK k \in Nat : k = b.writer - b.reader
  BY <1>0
<1>4. Len(s) = k /\ n <= k /\ \A i \in 1 .. k : s[i] = b.mem[b.reader + i]
  BY <1>2, <1>3, PeekIs DEF ReadableBytes
<1>. k <= Len(s) /\ n <= k
  BY <1>4
<1>5. PICK t \in Seq(S) : t = SubSeq(s, n + 1, k)
  BY PartIs
<1>6. Len(t) = k - n /\ \A i \in 1 .. k - n : t[i] = s[n + i]
  BY <1>4, <1>5, PartIs
<1>7. CASE n < k
  <2>1. p = [b EXCEPT !.reader = b.reader + n]
    BY <1>1, <1>3, <1>7 DEF Retrieve, ReadableBytes
  <2>2. PICK r \in Nat : r = b.reader + n
    BY <1>0
  <2>3. p.mem = b.mem /\ p.reader = r /\ p.writer = b.writer
        /\ p \in [mem : Seq(S), reader : Nat, writer : Nat]
    BY <1>0, <2>1, <2>2
  <2>4. IsBuffer(p, S)
    BY <1>0, <1>3, <1>7, <2>2, <2>3 DEF IsBuffer, BufferOK, BufferSize
  <2>5. PICK u \in Seq(S) : u = Peek(p)
    BY <2>4, PeekIs
  <2>6. Len(u) = p.writer - p.reader /\ \A i \in 1 .. p.writer - p.reader : u[i] = p.mem[p.reader + i]
    BY <2>4, <2>5, PeekIs
  <2>7. p.writer - p.reader = k - n /\ k - n \in Nat
    <3>1. b.writer - r = k - n /\ k - n \in Nat
      BY <1>0, <1>3, <1>7, <2>2, SMTT(30)
    <3>. QED  BY <2>3, <3>1
  <2>8. ASSUME NEW i \in 1 .. k - n PROVE u[i] = t[i]
    <3>1. n + i \in 1 .. k /\ r + i = b.reader + (n + i)
      BY <1>0, <1>7, <2>2
    <3>2. u[i] = b.mem[r + i]
      BY <2>3, <2>6, <2>7
    <3>3. s[n + i] = b.mem[b.reader + (n + i)]
      BY <1>4, <3>1
    <3>4. t[i] = s[n + i]
      BY <1>6
    <3>. QED  BY <3>1, <3>2, <3>3, <3>4
  <2>9. u = t
    <3>1. PICK j \in Nat : j = k - n
      BY <2>7
    <3>2. Len(u) = j /\ Len(t) = j
      BY <1>6, <2>6, <2>7, <3>1
    <3>3. \A i \in 1 .. j : u[i] = t[i]
      BY <2>8, <3>1
    <3>4. Agree(u, t, j)
      BY <3>2, <3>3, Zenon DEF Agree
    <3>. QED  BY <3>4, SameElements
  <2>. QED  BY <1>1, <1>2, <1>4, <1>5, <2>4, <2>5, <2>9
<1>8. CASE n = k
  <2>1. p = [b EXCEPT !.reader = CheapPrepend, !.writer = CheapPrepend]
    BY <1>1, <1>3, <1>8 DEF Retrieve, RetrieveAll, ReadableBytes
  <2>2. p.mem = b.mem /\ p.reader = CheapPrepend /\ p.writer = CheapPrepend
        /\ p \in [mem : Seq(S), reader : Nat, writer : Nat]
    BY <1>0, <2>1
  <2>3. IsBuffer(p, S)
    BY <1>0, <2>2 DEF IsBuffer, BufferOK, BufferSize
  <2>4. Peek(p) \in Seq(S) /\ Len(Peek(p)) = 0
    BY <1>0, <2>2, <2>3, PeekIs
  <2>5. t = <<>> /\ Peek(p) = <<>>
    BY <1>6, <1>8, <2>4, EmptySeq
  <2>. QED  BY <1>1, <1>2, <1>4, <1>5, <2>3, <2>5
<1>. QED  BY <1>4, <1>7, <1>8

(* Bytes that fit are put behind the others.                               *)
LEMMA PutIs ==
    ASSUME NEW S, NEW b, IsBuffer(b, S), NEW data \in Seq(S), NEW p,
           Len(data) <= WritableBytes(b),
           p = [b EXCEPT !.mem = Copy(@, b.writer, data), !.writer = @ + Len(data)]
    PROVE  IsBuffer(p, S) /\ Peek(p) = Peek(b) \o data
<1>0. /\ b.mem \in Seq(S) /\ b.reader \in Nat /\ b.writer \in Nat /\ Len(b.mem) \in Nat
      /\ CheapPrepend \in Nat /\ CheapPrepend <= b.reader
      /\ b.reader <= b.writer /\ b.writer <= Len(b.mem)
      /\ b \in [mem : Seq(S), reader : Nat, writer : Nat]
  BY BufferFields DEF IsBuffer
<1>1. PICK n \in Nat : n = Len(data)
  OBVIOUS
<1>2. b.writer + n <= Len(b.mem)
  BY <1>0, <1>1 DEF WritableBytes, BufferSize
<1>3. PICK m \in Seq(S) : m = Copy(b.mem, b.writer, data)
  BY <1>0, <1>1, <1>2, CopyIs
<1>4. /\ Len(m) = Len(b.mem) /\ \A i \in 1 .. b.writer : m[i] = b.mem[i]
      /\ \A i \in 1 .. n : m[b.writer + i] = data[i]
  <2>1. b.writer + Len(data) <= Len(b.mem)
    BY <1>1, <1>2
  <2>2. /\ Len(m) = Len(b.mem) /\ \A i \in 1 .. b.writer : m[i] = b.mem[i]
        /\ \A i \in 1 .. Len(data) : m[b.writer + i] = data[i]
    BY <1>0, <1>3, <2>1, CopyIs
  <2>. QED  BY <1>1, <2>2
<1>5. PICK w \in Nat : w = b.writer + n
  BY <1>0
<1>6. p = [b EXCEPT !.mem = m, !.writer = w]
  BY <1>1, <1>3, <1>5, Zenon
<1>7. p.mem = m /\ p.reader = b.reader /\ p.writer = w
      /\ p \in [mem : Seq(S), reader : Nat, writer : Nat]
  BY <1>0, <1>6
<1>8. IsBuffer(p, S)
  <2>1. b.reader <= w /\ w <= Len(m)
    BY <1>0, <1>2, <1>4, <1>5
  <2>. QED  BY <1>0, <1>7, <2>1 DEF IsBuffer, BufferOK, BufferSize
<1>9. PICK u \in Seq(S) : u = Peek(p)
  BY <1>8, PeekIs
<1>10. Len(u) = p.writer - p.reader /\ \A i \in 1 .. p.writer - p.reader : u[i] = p.mem[p.reader + i]
  BY <1>8, <1>9, PeekIs, ZenonT(30)
<1>11. PICK s \in Seq(S) : s = Peek(b)
  BY PeekIs
<1>12. PICK k \in Nat : k = b.writer - b.reader
  BY <1>0
<1>13. Len(s) = k /\ \A i \in 1 .. k : s[i] = b.mem[b.reader + i]
  BY <1>11, <1>12, PeekIs
<1>14. PICK t \in Seq(S) : t = s \o data
  BY ConcatIs
<1>15. /\ Len(t) = k + n /\ \A i \in 1 .. k : t[i] = s[i]
       /\ \A i \in 1 .. n : t[k + i] = data[i]
  <2>1. /\ Len(t) = Len(s) + Len(data) /\ \A i \in 1 .. Len(s) : t[i] = s[i]
        /\ \A i \in 1 .. Len(data) : t[Len(s) + i] = data[i]
    BY <1>14, ConcatIs
  <2>. QED  BY <1>1, <1>13, <2>1
<1>16. p.writer - p.reader = k + n
  BY <1>0, <1>5, <1>7, <1>12
<1>. b.reader \in Nat /\ b.writer \in Nat /\ b.writer = b.reader + k
  BY <1>0, <1>12
<1>17. ASSUME NEW i \in 1 .. k + n PROVE u[i] = t[i]
  <2>1. u[i] = m[b.reader + i]
    BY <1>7, <1>10, <1>16
  <2>2. CASE i <= k
    <3>1. i \in 1 .. k /\ b.reader + i \in 1 .. b.writer
      BY <2>2, SMTT(30)
    <3>2. m[b.reader + i] = b.mem[b.reader + i]
      BY <1>4, <3>1
    <3>3. s[i] = b.mem[b.reader + i] /\ t[i] = s[i]
      BY <1>13, <1>15, <3>1
    <3>. QED  BY <2>1, <3>2, <3>3
  <2>3. CASE i > k
    <3>1. PICK j \in 1 .. n : i = k + j
      <4>1. i - k \in 1 .. n /\ i = k + (i - k)
        BY <2>3
      <4>. QED  BY <4>1
    <3>2. b.reader + i = b.writer + j
      BY <3>1, SMTT(30)
    <3>3. u[i] = data[j]
      <4>1. m[b.writer + j] = data[j]
        BY <1>4
      <4>. QED  BY <2>1, <3>2, <4>1
    <3>4. t[k + j] = data[j]
      BY <1>15
    <3>. QED  BY <3>1, <3>3, <3>4
  <2>. QED  BY <2>2, <2>3
<1>18. u = t
  <2>1. PICK j \in Nat : j = k + n
    OBVIOUS
  <2>2. Len(u) = j /\ Len(t) = j
    BY <1>10, <1>15, <1>16, <2>1
  <2>3. \A i \in 1 .. j : u[i] = t[i]
    BY <1>17, <2>1
  <2>4. Agree(u, t, j)
    BY <2>2, <2>3, Zenon DEF Agree
  <2>. QED  BY <2>4, SameElements
<1>. QED  BY <1>8, <1>9, <1>11, <1>14, <1>18

(* A Buffer with the readable bytes of another one.                        *)
LEMMA SamePeek ==
    ASSUME NEW S, NEW b, IsBuffer(b, S), NEW p, IsBuffer(p, S),
           p.writer - p.reader = b.writer - b.reader,
           \A i \in 1 .. b.writer - b.reader : p.mem[p.reader + i] = b.mem[b.reader + i]
    PROVE  Peek(p) = Peek(b)
<1>1. PICK k \in Nat : k = b.writer - b.reader
  BY BufferFields
<1>2. PICK s \in Seq(S) : s = Peek(b)
  BY PeekIs
<1>3. PICK u \in Seq(S) : u = Peek(p)
  BY PeekIs
<1>4. Len(s) = k /\ \A i \in 1 .. k : s[i] = b.mem[b.reader + i]
  BY <1>1, <1>2, PeekIs
<1>5. Len(u) = k /\ \A i \in 1 .. k : u[i] = p.mem[p.reader + i]
  BY <1>1, <1>3, PeekIs
<1>6. u = s
  <2>1. Agree(u, s, k)
    BY <1>1, <1>4, <1>5 DEF Agree
  <2>. QED  BY <2>1, SameElements
<1>. QED  BY <1>2, <1>3, <1>6

(* makeSpace() keeps the readable bytes, has room for n more, and moves    *)
(* the bytes only to the front.                                            *)
LEMMA MakeSpaceIs ==
    ASSUME NEW S, Unwritten \in S, NEW b, IsBuffer(b, S), NEW n \in Nat, WritableBytes(b) < n
    PROVE  /\ IsBuffer(MakeSpace(b, n), S) /\ Peek(MakeSpace(b, n)) = Peek(b)
           /\ n <= WritableBytes(MakeSpace(b, n))
           /\ ~Grows(b, n) => CheapPrepend < b.reader
<1>0. /\ b.mem \in Seq(S) /\ b.reader \in Nat /\ b.writer \in Nat /\ Len(b.mem) \in Nat
      /\ CheapPrepend \in Nat /\ CheapPrepend <= b.reader
      /\ b.reader <= b.writer /\ b.writer <= Len(b.mem)
      /\ b \in [mem : Seq(S), reader : Nat, writer : Nat]
  BY BufferFields DEF IsBuffer
<1>1. PICK p : p = MakeSpace(b, n)
  OBVIOUS
<1>2. Len(b.mem) - b.writer < n
  BY DEF WritableBytes, BufferSize
<1>3. PICK k \in Nat : k = b.writer - b.reader
  BY <1>0
<1>4. CASE Grows(b, n)
  <2>1. PICK j \in Nat : j = b.writer + n - Len(b.mem)
    BY <1>0, <1>2
  <2>2. PICK z \in Seq(S) : z = Zeros(j)
    BY ZerosIs
  <2>3. Len(z) = j
    BY <2>2, ZerosIs
  <2>4. PICK m \in Seq(S) : m = b.mem \o z
    BY <1>0, ConcatIs
  <2>5. Len(m) = Len(b.mem) + Len(z) /\ \A i \in 1 .. Len(b.mem) : m[i] = b.mem[i]
    BY <1>0, <2>4, ConcatIs
  <2>6. p = [b EXCEPT !.mem = m]
    BY <1>1, <1>4, <2>1, <2>2, <2>4, Zenon DEF MakeSpace, BufferSize
  <2>7. /\ p.mem = m /\ p.reader = b.reader /\ p.writer = b.writer
        /\ p \in [mem : Seq(S), reader : Nat, writer : Nat]
    BY <1>0, <2>6
  <2>8. Len(m) = b.writer + n
    BY <1>0, <2>1, <2>3, <2>5
  <2>9. IsBuffer(p, S) /\ n <= WritableBytes(p)
    BY <1>0, <2>7, <2>8 DEF IsBuffer, BufferOK, BufferSize, WritableBytes
  <2>10. ASSUME NEW i \in 1 .. b.writer - b.reader PROVE p.mem[p.reader + i] = b.mem[b.reader + i]
    <3>1. b.reader + i \in 1 .. Len(b.mem)
      BY <1>0
    <3>. QED  BY <2>5, <2>7, <3>1
  <2>11. Peek(p) = Peek(b)
    BY <2>7, <2>9, <2>10, SamePeek
  <2>. QED  BY <1>1, <1>4, <2>9, <2>11
<1>5. CASE ~Grows(b, n)
  <2>1. n + CheapPrepend <= Len(b.mem) - b.writer + b.reader
    BY <1>0, <1>5 DEF Grows, WritableBytes, PrependableBytes, BufferSize
  <2>2. PICK s \in Seq(S) : s = Peek(b)
    BY PeekIs
  <2>3. Len(s) = k /\ \A i \in 1 .. k : s[i] = b.mem[b.reader + i]
    BY <1>3, <2>2, PeekIs
  <2>4. CheapPrepend + Len(s) <= Len(b.mem)
    BY <1>0, <1>3, <2>3
  <2>5. PICK m \in Seq(S) : m = Copy(b.mem, CheapPrepend, s)
    BY <1>0, <2>4, CopyIs
  <2>6. Len(m) = Len(b.mem) /\ \A i \in 1 .. Len(s) : m[CheapPrepend + i] = s[i]
    BY <1>0, <2>4, <2>5, CopyIs
  <2>7. PICK w \in Nat : w = CheapPrepend + k
    BY <1>0
  <2>8. p = [mem |-> m, reader |-> CheapPrepend, writer |-> w]
    BY <1>1, <1>3, <1>5, <2>2, <2>5, <2>7, Zenon DEF MakeSpace, ReadableBytes
  <2>9. w <= Len(m) /\ CheapPrepend <= w
    BY <1>0, <2>3, <2>4, <2>6, <2>7
  <2>10. IsBuffer(p, S) /\ p.mem = m /\ p.reader = CheapPrepend /\ p.writer = w
    BY <1>0, <2>8, <2>9, MakeBuffer
  <2>11. n <= WritableBytes(p)
    <3>1. n <= Len(m) - w
      <4>1. PICK c \in Nat, v \in Nat, z \in Nat, l \in Nat :
               c = CheapPrepend /\ v = b.reader /\ z = b.writer /\ l = Len(b.mem)
        BY <1>0
      <4>2. n + c <= l - z + v /\ k = z - v /\ w = c + k /\ Len(m) = l
        BY <1>3, <2>1, <2>6, <2>7, <4>1
      <4>. QED  BY <4>2
    <3>. QED  BY <2>10, <3>1 DEF WritableBytes, BufferSize
  <2>12. p.writer - p.reader = b.writer - b.reader
    BY <1>0, <1>3, <2>7, <2>10
  <2>13. ASSUME NEW i \in 1 .. b.writer - b.reader PROVE p.mem[p.reader + i] = b.mem[b.reader + i]
    BY <1>3, <2>3, <2>6, <2>10
  <2>14. Peek(p) = Peek(b)
    BY <2>10, <2>12, <2>13, SamePeek
  <2>15. CheapPrepend < b.reader
    BY <1>0, <1>2, <2>1
  <2>. QED  BY <1>1, <2>10, <2>11, <2>14, <2>15
<1>. QED  BY <1>4, <1>5

(* append() puts bytes behind the others.                                  *)
LEMMA AppendDataIs ==
    ASSUME NEW S, Unwritten \in S, NEW b, IsBuffer(b, S), NEW data \in Seq(S)
    PROVE  /\ IsBuffer(AppendData(b, data), S)
           /\ Peek(AppendData(b, data)) = Peek(b) \o data
<1>1. PICK n \in Nat : n = Len(data)
  OBVIOUS
<1>2. PICK e : e = EnsureWritableBytes(b, n)
  OBVIOUS
<1>3. WritableBytes(b) \in Nat
  BY BufferFields DEF WritableBytes, BufferSize
<1>4. IsBuffer(e, S) /\ Peek(e) = Peek(b) /\ n <= WritableBytes(e)
  <2>1. CASE WritableBytes(b) < n
    BY <1>2, <2>1, MakeSpaceIs DEF EnsureWritableBytes
  <2>2. CASE ~(WritableBytes(b) < n)
    BY <1>2, <1>3, <2>2 DEF EnsureWritableBytes
  <2>. QED  BY <2>1, <2>2
<1>5. PICK p : p = AppendData(b, data)
  OBVIOUS
<1>6. p = [e EXCEPT !.mem = Copy(@, e.writer, data), !.writer = @ + Len(data)]
  BY <1>1, <1>2, <1>5, Zenon DEF AppendData
<1>7. Len(data) <= WritableBytes(e)
  BY <1>1, <1>4
<1>8. IsBuffer(p, S) /\ Peek(p) = Peek(e) \o data
  BY <1>4, <1>6, <1>7, PutIs
<1>. QED  BY <1>4, <1>5, <1>8

(* readFd() puts what was read behind the others, also what readv had to   *)
(* put into extrabuf.                                                      *)
LEMMA ReadFdIs ==
    ASSUME NEW S, Unwritten \in S, NEW b, IsBuffer(b, S), NEW data \in Seq(S)
    PROVE  IsBuffer(ReadFd(b, data), S) /\ Peek(ReadFd(b, data)) = Peek(b) \o data
<1>0. /\ b.mem \in Seq(S) /\ b.reader \in Nat /\ b.writer \in Nat /\ Len(b.mem) \in Nat
      /\ b.writer <= Len(b.mem)
  BY BufferFields
<1>1. PICK n \in Nat : n = WritableBytes(b)
  BY <1>0 DEF WritableBytes, BufferSize
<1>2. PICK p : p = ReadFd(b, data)
  OBVIOUS
<1>3. CASE Len(data) <= n
  <2>1. p = [b EXCEPT !.mem = Copy(@, b.writer, data), !.writer = @ + Len(data)]
    BY <1>1, <1>2, <1>3, Zenon DEF ReadFd
  <2>. QED  BY <1>1, <1>2, <1>3, <2>1, PutIs
<1>4. CASE ~(Len(data) <= n)
  <2>1. PICK k \in Nat : k = Len(data)
    OBVIOUS
  <2>2. n < k /\ n <= k /\ k <= Len(data) /\ 0 <= n /\ n <= Len(data)
    BY <1>4, <2>1
  <2>3. PICK x \in Seq(S) : x = SubSeq(data, 0 + 1, n)
    BY <2>2, PartIs
  <2>4. Len(x) = n - 0 /\ \A i \in 1 .. n - 0 : x[i] = data[0 + i]
    BY <2>2, <2>3, PartIs
  <2>5. Len(x) = n /\ x = SubSeq(data, 1, n) /\ \A i \in 1 .. n : x[i] = data[i]
    BY <2>3, <2>4
  <2>6. PICK y \in Seq(S) : y = Overflow(data, n)
    <3>1. SubSeq(data, n + 1, k) \in Seq(S)
      BY <2>2, PartIs
    <3>. QED  BY <2>1, <3>1 DEF Overflow
  <2>7. Len(y) = k - n /\ \A i \in 1 .. k - n : y[i] = data[n + i]
    <3>1. y = SubSeq(data, n + 1, k)
      BY <2>1, <2>6 DEF Overflow
    <3>. QED  BY <2>2, <3>1, PartIs
  <2>8. x \o y = data
    <3>1. PICK z \in Seq(S) : z = x \o y
      BY ConcatIs
    <3>2. /\ Len(z) = Len(x) + Len(y) /\ \A i \in 1 .. Len(x) : z[i] = x[i]
          /\ \A i \in 1 .. Len(y) : z[Len(x) + i] = y[i]
      BY <3>1, ConcatIs
    <3>3. Len(z) = k
      BY <2>2, <2>5, <2>7, <3>2
    <3>4. ASSUME NEW i \in 1 .. k PROVE z[i] = data[i]
      <4>1. CASE i <= n
        BY <2>5, <3>2, <4>1
      <4>2. CASE i > n
        <5>1. i - n \in 1 .. k - n /\ n + (i - n) = i
          BY <2>2, <4>2
        <5>2. PICK j \in 1 .. k - n : n + j = i
          BY <5>1
        <5>. QED  BY <2>5, <2>7, <3>2, <5>2
      <4>. QED  BY <4>1, <4>2
    <3>5. Agree(z, data, k)
      BY <2>1, <3>3, <3>4 DEF Agree
    <3>. QED  BY <3>1, <3>5, SameElements
  <2>9. PICK q : q = [b EXCEPT !.mem = Copy(@, b.writer, x), !.writer = @ + Len(x)]
    OBVIOUS
  <2>10. Len(x) <= WritableBytes(b)
    BY <1>1, <2>5
  <2>11. IsBuffer(q, S) /\ Peek(q) = Peek(b) \o x
    BY <2>9, <2>10, PutIs
  <2>12. BufferSize(b) = b.writer + Len(x)
    BY <1>0, <1>1, <2>5 DEF WritableBytes, BufferSize
  <2>13. p = AppendData(q, y)
    BY <1>1, <1>2, <1>4, <2>5, <2>6, <2>9, <2>12, Zenon DEF ReadFd
  <2>14. IsBuffer(p, S) /\ Peek(p) = Peek(q) \o y
    BY <2>11, <2>13, AppendDataIs
  <2>15. (Peek(b) \o x) \o y = Peek(b) \o (x \o y)
    <3>1. PICK s \in Seq(S) : s = Peek(b)
      BY PeekIs
    <3>2. (s \o x) \o y = s \o (x \o y)
      BY ConcatAssociative
    <3>. QED  BY <3>1, <3>2
  <2>. QED  BY <1>2, <2>8, <2>11, <2>14, <2>15
<1>. QED  BY <1>3, <1>4

(* What a Buffer does, whatever it holds and however large it is: it is a  *)
(* queue of bytes.  append() and readFd() put bytes at its end, also those *)
(* that only fit after the others were moved or the vector has grown,      *)
(* retrieve() takes them from the front, and neither an index nor an       *)
(* assertion of ensureWritableBytes() and makeSpace() fails.               *)
THEOREM BufferIsByteQueue ==
    ASSUME NEW S, Unwritten \in S
    PROVE  /\ IsBuffer(NewBuffer, S) /\ Peek(NewBuffer) = <<>>
           /\ \A b : IsBuffer(b, S) =>
                /\ \A data \in Seq(S) :
                     /\ IsBuffer(AppendData(b, data), S)
                     /\ Peek(AppendData(b, data)) = Peek(b) \o data
                     /\ IsBuffer(ReadFd(b, data), S)
                     /\ Peek(ReadFd(b, data)) = Peek(b) \o data
                /\ \A n \in 0 .. ReadableBytes(b) :
                     /\ IsBuffer(Retrieve(b, n), S)
                     /\ Peek(Retrieve(b, n)) = SubSeq(Peek(b), n + 1, Len(Peek(b)))
                /\ \A n \in Nat :
                     /\ n <= WritableBytes(EnsureWritableBytes(b, n))
                     /\ WritableBytes(b) < n /\ ~Grows(b, n) => CheapPrepend < b.reader
<1>1. IsBuffer(NewBuffer, S) /\ Peek(NewBuffer) = <<>>
  BY NewBufferIs
<1>2. ASSUME NEW b, IsBuffer(b, S)
      PROVE  /\ \A data \in Seq(S) :
                  /\ IsBuffer(AppendData(b, data), S)
                  /\ Peek(AppendData(b, data)) = Peek(b) \o data
                  /\ IsBuffer(ReadFd(b, data), S)
                  /\ Peek(ReadFd(b, data)) = Peek(b) \o data
             /\ \A n \in 0 .. ReadableBytes(b) :
                  /\ IsBuffer(Retrieve(b, n), S)
                  /\ Peek(Retrieve(b, n)) = SubSeq(Peek(b), n + 1, Len(Peek(b)))
             /\ \A n \in Nat :
                  /\ n <= WritableBytes(EnsureWritableBytes(b, n))
                  /\ WritableBytes(b) < n /\ ~Grows(b, n) => CheapPrepend < b.reader
  <2>1. WritableBytes(b) \in Nat /\ ReadableBytes(b) \in Nat
    BY <1>2, BufferFields DEF WritableBytes, ReadableBytes, BufferSize
  <2>2. ASSUME NEW data \in Seq(S)
        PROVE  /\ IsBuffer(AppendData(b, data), S)
               /\ Peek(AppendData(b, data)) = Peek(b) \o data
               /\ IsBuffer(ReadFd(b, data), S)
               /\ Peek(ReadFd(b, data)) = Peek(b) \o data
    BY <1>2, AppendDataIs, ReadFdIs
  <2>3. ASSUME NEW n \in 0 .. ReadableBytes(b)
        PROVE  /\ IsBuffer(Retrieve(b, n), S)
               /\ Peek(Retrieve(b, n)) = SubSeq(Peek(b), n + 1, Len(Peek(b)))
    <3>1. n \in Nat /\ n <= ReadableBytes(b)
      BY <2>1
    <3>. QED  BY <1>2, <3>1, RetrieveIs
  <2>4. ASSUME NEW n \in Nat
        PROVE  /\ n <= WritableBytes(EnsureWritableBytes(b, n))
               /\ WritableBytes(b) < n /\ ~Grows(b, n) => CheapPrepend < b.reader
    <3>1. CASE WritableBytes(b) < n
      BY <1>2, <3>1, MakeSpaceIs DEF EnsureWritableBytes
    <3>2. CASE ~(WritableBytes(b) < n)
      BY <2>1, <3>2 DEF EnsureWritableBytes
    <3>. QED  BY <3>1, <3>2
  <2>. QED  BY <2>2, <2>3, <2>4
<1>. QED  BY <1>1, <1>2
-----------------------------------------------------------------------------
(* The codec of the RPC, which cuts the bytes of a connection into frames. *)

(* The bytes of a frame.                                                   *)
LEMMA EncodeIs ==
    ASSUME NEW S, NEW payload \in Seq(S), Tag \in S, NEW k \in Nat, k = Len(payload),
           Length(k + 2) \in S, NEW sum \in S, sum = Checksum(<<Tag>> \o payload)
    PROVE  /\ Encode(payload) \in Seq(S) /\ Len(Encode(payload)) = k + 3
           /\ <<Tag>> \o payload \in Seq(S) /\ Len(<<Tag>> \o payload) = k + 1
           /\ Encode(payload)[1] = Length(k + 2)
           /\ \A i \in 1 .. k + 1 : Encode(payload)[1 + i] = (<<Tag>> \o payload)[i]
           /\ Encode(payload)[k + 3] = sum
           /\ (<<Tag>> \o payload)[1] = Tag
           /\ \A i \in 1 .. k : (<<Tag>> \o payload)[1 + i] = payload[i]
<1>0. <<Tag>> \in Seq(S) /\ <<sum>> \in Seq(S) /\ <<Length(k + 2)>> \in Seq(S)
  OBVIOUS
<1>1. PICK g \in Seq(S) : g = <<Tag>>
  BY <1>0
<1>2. Len(g) = 1 /\ g[1] = Tag
  BY <1>1
<1>3. PICK x \in Seq(S) : x = g \o payload
  BY ConcatIs
<1>4. Len(x) = k + 1 /\ x[1] = Tag /\ \A i \in 1 .. k : x[1 + i] = payload[i]
  <2>1. /\ Len(x) = Len(g) + Len(payload) /\ \A i \in 1 .. Len(g) : x[i] = g[i]
        /\ \A i \in 1 .. Len(payload) : x[Len(g) + i] = payload[i]
    BY <1>3, ConcatIs
  <2>. QED  BY <1>2, <2>1
<1>5. PICK c \in Seq(S) : c = <<sum>>
  BY <1>0
<1>6. Len(c) = 1 /\ c[1] = sum
  BY <1>5
<1>7. PICK y \in Seq(S) : y = x \o c
  BY ConcatIs
<1>8. Len(y) = k + 2 /\ y[k + 2] = sum /\ \A i \in 1 .. k + 1 : y[i] = x[i]
  <2>1. /\ Len(y) = Len(x) + Len(c) /\ \A i \in 1 .. Len(x) : y[i] = x[i]
        /\ \A i \in 1 .. Len(c) : y[Len(x) + i] = c[i]
    BY <1>7, ConcatIs
  <2>2. 1 \in 1 .. Len(c) /\ Len(x) + 1 = k + 2
    BY <1>4, <1>6
  <2>3. y[k + 2] = sum
    BY <1>6, <2>1, <2>2
  <2>. QED  BY <1>4, <1>6, <2>1, <2>3
<1>9. PICK h \in Seq(S) : h = <<Length(k + 2)>>
  BY <1>0
<1>10. Len(h) = 1 /\ h[1] = Length(k + 2)
  BY <1>9
<1>11. PICK f \in Seq(S) : f = h \o y
  BY ConcatIs
<1>12. /\ Len(f) = k + 3 /\ f[1] = Length(k + 2)
       /\ \A i \in 1 .. k + 2 : f[1 + i] = y[i]
  <2>1. /\ Len(f) = Len(h) + Len(y) /\ \A i \in 1 .. Len(h) : f[i] = h[i]
        /\ \A i \in 1 .. Len(y) : f[Len(h) + i] = y[i]
    BY <1>11, ConcatIs
  <2>2. 1 \in 1 .. Len(h)
    BY <1>10
  <2>3. f[1] = Length(k + 2)
    BY <1>10, <2>1, <2>2
  <2>. QED  BY <1>8, <1>10, <2>1, <2>3
<1>13. Encode(payload) = f
  BY <1>1, <1>3, <1>5, <1>7, <1>8, <1>9, <1>11, Zenon DEF Encode
<1>14. f[k + 3] = sum
  <2>1. k + 2 \in 1 .. k + 2 /\ 1 + (k + 2) = k + 3
    OBVIOUS
  <2>. QED  BY <1>8, <1>12, <2>1
<1>15. \A i \in 1 .. k + 1 : f[1 + i] = x[i]
  BY <1>8, <1>12
<1>. QED  BY <1>1, <1>3, <1>4, <1>12, <1>13, <1>14, <1>15

(* A frame of k bytes at the front of the stream b is recognised and taken *)
(* whole, and the rest of the stream stays.                                *)
FrameTaken(b, k, payload, rest) ==
    /\ HasHeader(b) /\ PeekInt32(b) = k + 2 /\ HasFrame(b)
    /\ ParseError(Body(b)) = "kNoError" /\ Payload(Body(b)) = payload
    /\ FrameRetrieved(b) = rest

(* The codec takes what it encoded.                                        *)
LEMMA WholeFrame ==
    ASSUME NEW S, NEW payload \in Seq(S), NEW rest \in Seq(S), Tag \in S, NEW k \in Nat,
           k = Len(payload), Length(k + 2) \in S,
           NEW sum \in S, sum = Checksum(<<Tag>> \o payload),
           NEW f, f = Encode(payload), NEW b, b = f \o rest
    PROVE  FrameTaken(b, k, payload, rest)
<1>1. sum = Checksum(<<Tag>> \o payload)
  OBVIOUS
<1>2. PICK x : x = <<Tag>> \o payload
  OBVIOUS
<1>3. f = Encode(payload)
  OBVIOUS
<1>4. /\ f \in Seq(S) /\ Len(f) = k + 3 /\ x \in Seq(S) /\ Len(x) = k + 1
      /\ f[1] = Length(k + 2) /\ \A i \in 1 .. k + 1 : f[1 + i] = x[i]
      /\ f[k + 3] = sum /\ x[1] = Tag /\ \A i \in 1 .. k : x[1 + i] = payload[i]
  <2>1. /\ Encode(payload) \in Seq(S) /\ Len(Encode(payload)) = k + 3
        /\ <<Tag>> \o payload \in Seq(S) /\ Len(<<Tag>> \o payload) = k + 1
        /\ Encode(payload)[1] = Length(k + 2)
        /\ \A i \in 1 .. k + 1 : Encode(payload)[1 + i] = (<<Tag>> \o payload)[i]
        /\ Encode(payload)[k + 3] = sum
        /\ (<<Tag>> \o payload)[1] = Tag
        /\ \A i \in 1 .. k : (<<Tag>> \o payload)[1 + i] = payload[i]
    BY <1>1, EncodeIs, SMTT(30)
  <2>. QED  BY <1>2, <1>3, <2>1, Zenon
<1>5. b \in Seq(S)
  BY <1>3, <1>4, ConcatIs
<1>6. /\ Len(b) = k + 3 + Len(rest) /\ \A i \in 1 .. k + 3 : b[i] = f[i]
      /\ \A i \in 1 .. Len(rest) : b[k + 3 + i] = rest[i]
  <2>1. f \in Seq(S) /\ b = f \o rest
    BY <1>3, <1>4
  <2>2. /\ Len(b) = Len(f) + Len(rest) /\ \A i \in 1 .. Len(f) : b[i] = f[i]
        /\ \A i \in 1 .. Len(rest) : b[Len(f) + i] = rest[i]
    BY <2>1, ConcatIs
  <2>. QED  BY <1>4, <2>2
<1>7. PICK r \in Nat : r = Len(rest)
  OBVIOUS
<1>8. PeekInt32(b) = k + 2
  <2>1. Head(b) = b[1] /\ b[1] = f[1]
    <3>1. b # <<>> /\ 1 \in 1 .. k + 3
      BY <1>5, <1>6, <1>7
    <3>. QED  BY <1>5, <1>6, <3>1
  <2>2. Length(k + 2).kind = "int" /\ Length(k + 2).v = k + 2
    BY DEF Length, Byte
  <2>. QED  BY <1>4, <2>1, <2>2 DEF PeekInt32
<1>9. HasHeader(b) /\ HasFrame(b)
  BY <1>6, <1>7, <1>8 DEF HasHeader, HasFrame, HeaderLen, MinMessageLen
<1>. Body(b) = SubSeq(b, 1 + 1, k + 3)
  <2>1. HeaderLen + 1 = 1 + 1 /\ HeaderLen + PeekInt32(b) = k + 3
    BY <1>8 DEF HeaderLen
  <2>. QED  BY <2>1 DEF Body
<1>10. PICK y \in Seq(S) : y = Body(b)
  <2>1. SubSeq(b, 1 + 1, k + 3) \in Seq(S)
    BY <1>5, <1>6, <1>7, PartIs
  <2>. QED  BY <2>1
<1>11. Len(y) = k + 2 /\ y[k + 2] = sum /\ \A i \in 1 .. k + 1 : y[i] = x[i]
  <2>1. y = SubSeq(b, 1 + 1, k + 3)
    BY <1>10
  <2>2. 1 \in Nat /\ k + 3 \in Nat /\ 1 <= k + 3 /\ k + 3 <= Len(b)
    BY <1>6, <1>7
  <2>3. Len(y) = k + 3 - 1 /\ \A i \in 1 .. k + 3 - 1 : y[i] = b[1 + i]
    BY <1>5, <2>1, <2>2, PartIs
  <2>4. Len(y) = k + 2 /\ \A i \in 1 .. k + 2 : y[i] = f[1 + i]
    <3>1. k + 3 - 1 = k + 2 /\ \A i \in 1 .. k + 2 : 1 + i \in 1 .. k + 3
      OBVIOUS
    <3>. QED  BY <1>6, <2>3, <3>1
  <2>5. k + 2 \in 1 .. k + 2 /\ 1 + (k + 2) = k + 3
    OBVIOUS
  <2>6. y[k + 2] = sum
    BY <1>4, <2>4, <2>5
  <2>7. \A i \in 1 .. k + 1 : i \in 1 .. k + 2
    OBVIOUS
  <2>8. \A i \in 1 .. k + 1 : y[i] = x[i]
    BY <1>4, <2>4, <2>7
  <2>. QED  BY <2>4, <2>6, <2>8
<1>12. SubSeq(y, 1, k + 1) = x
  <2>1. 0 \in Nat /\ k + 1 \in Nat /\ 0 <= k + 1 /\ k + 1 <= Len(y) /\ 0 + 1 = 1 /\ k + 1 - 0 = k + 1
    BY <1>11
  <2>2. PICK u \in Seq(S) : u = SubSeq(y, 0 + 1, k + 1)
    BY <2>1, PartIs
  <2>3. Len(u) = k + 1 - 0 /\ \A i \in 1 .. k + 1 - 0 : u[i] = y[0 + i]
    BY <2>1, <2>2, PartIs
  <2>4. Len(u) = k + 1 /\ \A i \in 1 .. k + 1 : u[i] = x[i]
    BY <1>11, <2>3
  <2>5. u = x
    <3>1. PICK j \in Nat : j = k + 1
      BY <2>1
    <3>2. Agree(u, x, j)
      BY <1>4, <2>4, <3>1 DEF Agree
    <3>. QED  BY <1>4, <3>2, SameElements
  <2>. QED  BY <2>1, <2>2, <2>5
<1>13. Head(y) = Tag
  <2>1. y # <<>> /\ 1 \in 1 .. k + 1
    BY <1>11
  <2>. QED  BY <1>4, <1>11, <2>1
<1>14. ParseError(y) = "kNoError"
  <2>1. y[Len(y)] = Checksum(SubSeq(y, 1, Len(y) - HeaderLen))
    <3>1. Len(y) - HeaderLen = k + 1
      BY <1>11 DEF HeaderLen
    <3>. QED  BY <1>1, <1>2, <1>11, <1>12, <3>1
  <2>. QED  BY <1>13, <2>1 DEF ParseError
<1>15. Payload(y) = payload
  <2>1. 1 \in Nat /\ k + 1 \in Nat /\ 1 <= k + 1 /\ k + 1 <= Len(y) /\ k + 1 - 1 = k
    BY <1>11
  <2>2. PICK u \in Seq(S) : u = SubSeq(y, 1 + 1, k + 1)
    BY <2>1, PartIs
  <2>3. Len(u) = k + 1 - 1 /\ \A i \in 1 .. k + 1 - 1 : u[i] = y[1 + i]
    BY <2>1, <2>2, PartIs
  <2>4. \A i \in 1 .. k : 1 + i \in 1 .. k + 1
    OBVIOUS
  <2>5. Len(u) = k /\ \A i \in 1 .. k : u[i] = payload[i]
    BY <1>4, <1>11, <2>1, <2>3, <2>4
  <2>6. u = payload
    <3>1. Len(payload) = k
      OBVIOUS
    <3>2. Agree(u, payload, k)
      BY <2>5, <3>1, Zenon DEF Agree
    <3>. QED  BY <3>2, SameElements
  <2>7. Len(y) - HeaderLen = k + 1
    BY <1>11 DEF HeaderLen
  <2>. QED  BY <2>2, <2>6, <2>7 DEF Payload, HeaderLen
<1>16. FrameRetrieved(b) = rest
  <2>1. k + 3 \in Nat /\ Len(b) \in Nat /\ k + 3 <= Len(b) /\ Len(b) <= Len(b) /\ Len(b) - (k + 3) = r
    BY <1>6, <1>7
  <2>. DEFINE u == SubSeq(b, k + 3 + 1, Len(b))
  <2>. HIDE DEF u
  <2>2. PICK m \in Nat, n \in Nat : m = k + 3 /\ n = Len(b)
    BY <2>1
  <2>3. u = SubSeq(b, m + 1, n)
    BY <2>2 DEF u
  <2>4. m <= n /\ n <= Len(b)
    BY <2>1, <2>2
  <2>5. u \in Seq(S) /\ Len(u) = n - m /\ \A i \in 1 .. n - m : u[i] = b[m + i]
    BY <1>5, <2>3, <2>4, PartIs, SMTT(20)
  <2>6. u = rest
    <3>1. Len(u) = r /\ Len(rest) = r /\ \A i \in 1 .. r : u[i] = rest[i]
      <4>1. n - m = r
        BY <2>1, <2>2
      <4>2. Len(u) = r /\ \A i \in 1 .. r : u[i] = b[m + i]
        BY <2>5, <4>1
      <4>3. \A i \in 1 .. r : b[m + i] = rest[i]
        BY <1>6, <1>7, <2>2
      <4>. QED  BY <1>7, <4>2, <4>3
    <3>2. Agree(u, rest, r)
      BY <3>1, Zenon DEF Agree
    <3>. QED  BY <2>5, <3>2, SameElements
  <2>7. HeaderLen + PeekInt32(b) + 1 = k + 3 + 1
    BY <1>8 DEF HeaderLen
  <2>. QED  BY <2>6, <2>7, Zenon DEF FrameRetrieved, u
<1>. QED  BY <1>8, <1>9, <1>10, <1>14, <1>15, <1>16, Zenon DEF FrameTaken

(* A part of a frame is not taken for a whole one.                         *)
LEMMA PartOfFrame ==
    ASSUME NEW S, NEW payload \in Seq(S), Tag \in S, NEW k \in Nat,
           k = Len(payload), Length(k + 2) \in S, Checksum(<<Tag>> \o payload) \in S,
           NEW n \in Nat, n < Len(Encode(payload)), NEW b, b = SubSeq(Encode(payload), 1, n)
    PROVE  HasHeader(b) => PeekInt32(b) = k + 2 /\ ~HasFrame(b)
<1>1. PICK f : f = Encode(payload)
  OBVIOUS
<1>2. f \in Seq(S) /\ Len(f) = k + 3 /\ f[1] = Length(k + 2)
  BY <1>1, EncodeIs, SMTT(20)
<1>3. 0 \in Nat /\ 0 <= n /\ n <= Len(f) /\ n < k + 3 /\ 0 + 1 = 1 /\ n - 0 = n
  BY <1>1, <1>2
<1>4. b = SubSeq(f, 0 + 1, n)
  BY <1>1, <1>3
<1>5. b \in Seq(S) /\ Len(b) = n - 0 /\ \A i \in 1 .. n - 0 : b[i] = f[0 + i]
  BY <1>2, <1>3, <1>4, PartIs
<1>6. ASSUME HasHeader(b) PROVE PeekInt32(b) = k + 2 /\ ~HasFrame(b)
  <2>1. n >= 3
    BY <1>3, <1>5, <1>6 DEF HasHeader, MinMessageLen, HeaderLen
  <2>2. Head(b) = b[1] /\ b[1] = f[1]
    <3>1. 1 \in 1 .. n - 0 /\ 0 + 1 = 1 /\ Len(b) # 0
      BY <1>5, <2>1
    <3>. QED  BY <1>5, <3>1
  <2>3. PeekInt32(b) = k + 2
    <3>1. Length(k + 2).kind = "int" /\ Length(k + 2).v = k + 2
      BY DEF Length, Byte
    <3>. QED  BY <1>2, <2>2, <3>1 DEF PeekInt32
  <2>. QED  BY <1>3, <1>5, <2>3 DEF HasFrame, HeaderLen
<1>. QED  BY <1>6

(* Whatever bytes follow it, the codec finds a frame it has sent with the  *)
(* payload that was sent, accepts it and leaves exactly those bytes; and   *)
(* wherever the stream is cut inside the frame it waits for the rest.      *)
THEOREM FrameIsFoundAgain ==
    ASSUME NEW P, NEW payload \in Seq(P), Len(payload) + MinMessageLen <= MaxMessageLen
    PROVE  /\ \A rest \in Seq(P) :
                LET b == Encode(payload) \o rest
                IN  /\ HasHeader(b) /\ ValidLength(PeekInt32(b)) /\ HasFrame(b)
                    /\ ParseError(Body(b)) = "kNoError" /\ Payload(Body(b)) = payload
                    /\ FrameRetrieved(b) = rest
           /\ \A n \in 0 .. Len(Encode(payload)) - 1 :
                LET b == SubSeq(Encode(payload), 1, n)
                IN  HasHeader(b) => ValidLength(PeekInt32(b)) /\ ~HasFrame(b)
<1>1. PICK k \in Nat : k = Len(payload)
  OBVIOUS
<1>2. PICK S : S = P \cup {Tag, Length(k + 2), Checksum(<<Tag>> \o payload)}
  OBVIOUS
<1>3. /\ payload \in Seq(S) /\ Tag \in S /\ Length(k + 2) \in S
      /\ Checksum(<<Tag>> \o payload) \in S /\ P \subseteq S
  <2>1. P \subseteq S
    BY <1>2
  <2>. QED  BY <1>2, <2>1, SeqMonotonic
<1>4. ValidLength(k + 2)
  BY <1>1, CodecAssumption DEF ValidLength, MinMessageLen, HeaderLen
<1>5. ASSUME NEW rest \in Seq(P), NEW b, b = Encode(payload) \o rest
      PROVE  /\ HasHeader(b) /\ ValidLength(PeekInt32(b)) /\ HasFrame(b)
             /\ ParseError(Body(b)) = "kNoError" /\ Payload(Body(b)) = payload
             /\ FrameRetrieved(b) = rest
  <2>1. rest \in Seq(S)
    BY <1>3, SeqMonotonic
  <2>2. /\ HasHeader(b) /\ PeekInt32(b) = k + 2 /\ HasFrame(b)
        /\ ParseError(Body(b)) = "kNoError" /\ Payload(Body(b)) = payload
        /\ FrameRetrieved(b) = rest
    <3>1. PICK z \in Seq(S) : z = rest
      BY <2>1
    <3>2. PICK sum \in S : sum = Checksum(<<Tag>> \o payload)
      BY <1>3
    <3>3. PICK f : f = Encode(payload)
      OBVIOUS
    <3>4. b = f \o z
      BY <1>5, <3>1, <3>3
    <3>5. FrameTaken(b, k, payload, z)
      BY <1>1, <1>3, <3>2, <3>3, <3>4, WholeFrame
    <3>. QED  BY <3>1, <3>5 DEF FrameTaken
  <2>. QED  BY <1>4, <2>2
<1>6. ASSUME NEW n \in 0 .. Len(Encode(payload)) - 1, NEW b, b = SubSeq(Encode(payload), 1, n)
      PROVE  HasHeader(b) => ValidLength(PeekInt32(b)) /\ ~HasFrame(b)
  <2>1. PICK j \in Nat : j = Len(Encode(payload))
    BY <1>1, <1>3, EncodeIs
  <2>2. n \in Nat /\ n < Len(Encode(payload))
    BY <2>1
  <2>3. HasHeader(b) => PeekInt32(b) = k + 2 /\ ~HasFrame(b)
    BY <1>1, <1>3, <1>6, <2>2, PartOfFrame, Zenon
  <2>. QED  BY <1>4, <2>3
<1>. QED  BY <1>5, <1>6
=============================================================================
