-------------------------- MODULE TcpServerProofs --------------------------
(***************************************************************************)
(* Proofs about TcpServer, for any number of connections and of I/O loops: *)
(* no event reaches a deleted channel, the user sees every connection up   *)
(* and down, the map has every live connection, the pool shares them       *)
(* evenly, and no assertion fails before the server is destroyed.          *)
(*                                                                         *)
(* The inductive invariant follows a connection c through the queues of    *)
(* the loops: where the functors about c are (Fun), what state_, the       *)
(* channel and the history say of each other (Life), and who still has c   *)
(* (Own): until connectDestroyed ran, the map, a queued connectDestroyed,  *)
(* or a loop that has exited.                                              *)
(***************************************************************************)
EXTENDS TcpServer, FiniteSetTheorems, TLAPS

Ops == {"connectEstablished", "connectDestroyed", "removeConnectionInLoop"}

\* the functors loop l still has to run, in their order
Q(l) == batch[l] \o pending[l]

\* the i-th is op of connection c
At(l, i, op, c) == i \in DOMAIN Q(l) /\ Q(l)[i].op = op /\ Q(l)[i].c = c

Has(l, op, c) == \E i \in Nat : At(l, i, op, c)

ListenQueued(l) == \E i \in DOMAIN Q(l) : Q(l)[i].op = "listen"

\* the destructor has not begun
Serving == server \in {"alive", "starting"}

IsUp(c) == state[c] \in {"kConnected", "kDisconnecting"}

LoopInv ==
    /\ \A l \in Loops : phase[l] # "run" => batch[l] = <<>>
    /\ \A l \in Loops : phase[l] = "exited" => quit[l] /\ pending[l] = <<>>
    /\ \A l \in Loops : quit[l] => server \in {"joining", "dead"} /\ l # Base
    /\ \A i \in DOMAIN pool : pool[i] # Base
    /\ server \in {"joining", "dead"} => connections = {}

StartInv ==
    /\ listening \/ server = "starting" \/ pool # <<>> => started
    /\ \A l \in Loops : ListenQueued(l) => started
    /\ ~started => nextConnId = 1

Life(c) ==
    /\ state[c] = "none" <=> c >= nextConnId
    /\ state[c] \in {"none", "kConnecting"} =>
           ups[c] = 0 /\ downs[c] = 0 /\ ~interest[c] /\ ~added[c] /\ ~destroyed[c]
    /\ IsUp(c) => ups[c] = 1 /\ downs[c] = 0 /\ (~destroyed[c] => interest[c] /\ added[c])
    /\ state[c] = "kDisconnected" =>
           ups[c] = 1 /\ downs[c] = 1 /\ ~interest[c] /\ (~destroyed[c] => added[c])
    /\ destroyed[c] => /\ ~added[c] /\ state[c] # "kConnected"
                       /\ failed = "none" => state[c] = "kDisconnected"

Fun(c) ==
    /\ \A l \in Loops, i \in Nat : At(l, i, "connectEstablished", c) =>
           loop[c] = l /\ state[c] = "kConnecting"
    /\ \A l \in Loops, i \in Nat : At(l, i, "removeConnectionInLoop", c) =>
           /\ l = Base /\ loop[c] # Base /\ state[c] = "kDisconnected"
           /\ Serving => c \in connections
    /\ \A l \in Loops, i \in Nat : At(l, i, "connectDestroyed", c) =>
           /\ loop[c] = l /\ state[c] # "none" /\ c \notin connections /\ ~destroyed[c]
           /\ ~interest[c] \/ (~Serving /\ l # Base)
           /\ state[c] = "kConnecting" => \E j \in Nat : j < i /\ At(l, j, "connectEstablished", c)
    /\ \A l \in Loops, i, j \in Nat, op \in Ops : At(l, i, op, c) /\ At(l, j, op, c) => i = j

Own(c) ==
    /\ c \in connections => state[c] # "none" /\ ~destroyed[c]
    /\ state[c] = "kConnecting" =>
           loop[c] # Base /\ (phase[loop[c]] # "exited" => Has(loop[c], "connectEstablished", c))
    /\ state[c] # "none" /\ ~destroyed[c] =>
           c \in connections \/ Has(loop[c], "connectDestroyed", c) \/ phase[loop[c]] = "exited"
    /\ Serving /\ (IsUp(c) \/ state[c] = "kConnecting") => c \in connections

ConnInv == \A c \in Conns : Life(c) /\ Fun(c) /\ Own(c)

FailInv == failed \notin {"none", "abortNotInLoopThread"} => ~Serving

OnLoop(i) == {c \in Conns : state[c] # "none" /\ loop[c] = pool[i]}

\* the loops before next have had one connection more than the others
PoolInv ==
    /\ next \in 1..Len(pool) \/ (pool = <<>> /\ next = 1)
    /\ Len(pool) <= Len(IoLoops)
    /\ \A i, j \in DOMAIN pool : pool[i] = pool[j] => i = j
    /\ \E q \in Nat : \A i \in DOMAIN pool : Cardinality(OnLoop(i)) = IF i < next THEN q + 1 ELSE q

IInv == TypeOK /\ LoopInv /\ StartInv /\ ConnInv /\ FailInv /\ PoolInv
-----------------------------------------------------------------------------
(* Queues.                                                                 *)

(* A functor behind a concatenation is behind its second part.             *)
LEMMA ConcatAppend ==
    ASSUME NEW S, NEW b \in Seq(S), NEW p \in Seq(S), NEW f \in S
    PROVE  b \o Append(p, f) = Append(b \o p, f)
<1>. DEFINE x == b \o Append(p, f)  y == Append(b \o p, f)
<1>1. x \in Seq(S) /\ y \in Seq(S) /\ Len(x) = Len(b) + Len(p) + 1 /\ Len(y) = Len(x)
  OBVIOUS
<1>2. \A i \in 1..Len(x) : x[i] = y[i]
  OBVIOUS
<1>. QED
  BY <1>1, <1>2

(* ToldToGo adds one functor.                                              *)
LEMMA ConcatOne ==
    ASSUME NEW S, NEW p \in Seq(S), NEW f \in S
    PROVE  p \o <<f>> = Append(p, f)
OBVIOUS

(* The first functor of a batch is the first of all.                       *)
LEMMA ConcatTail ==
    ASSUME NEW S, NEW b \in Seq(S), NEW p \in Seq(S), b # <<>>
    PROVE  /\ Tail(b) \o p = Tail(b \o p) /\ Head(b \o p) = Head(b) /\ b \o p # <<>>
           /\ Tail(b) \in Seq(S) /\ Head(b) \in S
<1>. DEFINE x == Tail(b) \o p  y == Tail(b \o p)
<1>1. Len(b) \in Nat /\ Len(b) >= 1 /\ Tail(b) \in Seq(S) /\ Len(Tail(b)) = Len(b) - 1
  OBVIOUS
<1>2. b \o p \in Seq(S) /\ Len(b \o p) = Len(b) + Len(p) /\ b \o p # <<>> /\ (b \o p)[1] = b[1]
  BY <1>1
<1>3. x \in Seq(S) /\ y \in Seq(S) /\ Len(x) = Len(b) + Len(p) - 1 /\ Len(y) = Len(x)
  BY <1>1, <1>2
<1>4. \A i \in 1..Len(x) : x[i] = y[i]
  BY <1>1, <1>2, <1>3
<1>5. x = y
  BY <1>3, <1>4
<1>. QED
  BY <1>1, <1>2, <1>5

(* What queueInLoop of op for c changes in what At says.                   *)
LEMMA AtAppend ==
    ASSUME NEW l \in Loops, NEW n \in Nat, NEW op \in Ops, NEW c \in Conns,
           NEW f, f.op = op, f.c = c, Q(l) \in Seq(Functor), f \in Functor,
           Q(l)' = Append(Q(l), f), n = Len(Q(l)) + 1
    PROVE  /\ \A i \in Nat, o \in Ops, d \in Conns :
                  At(l, i, o, d)' <=> At(l, i, o, d) \/ (i = n /\ o = op /\ d = c)
           /\ \A i \in Nat, o \in Ops, d \in Conns : At(l, i, o, d) => i < n /\ i >= 1
           /\ ListenQueued(l)' => ListenQueued(l)
<1>1. /\ DOMAIN Q(l) = 1..(n - 1) /\ DOMAIN Q(l)' = 1..n /\ Q(l)'[n] = f
      /\ \A i \in 1..(n - 1) : Q(l)'[i] = Q(l)[i]
  OBVIOUS
<1>2. 1..n = 1..(n - 1) \cup {n} /\ n \notin 1..(n - 1) /\ n >= 1
  OBVIOUS
<1>3. op # "listen"
  BY DEF Ops
<1>. QED
  BY <1>1, <1>2, <1>3 DEF At, ListenQueued

(* What running the first functor changes in it.                           *)
LEMMA AtTail ==
    ASSUME NEW l \in Loops, Q(l) \in Seq(Functor), Q(l) # <<>>, Q(l)' = Tail(Q(l))
    PROVE  /\ \A i \in Nat, o \in Ops, d \in Conns : At(l, i, o, d)' <=> i >= 1 /\ At(l, i + 1, o, d)
           /\ \A i \in Nat, o \in Ops, d \in Conns : At(l, i, o, d) => i >= 1
           /\ ListenQueued(l)' => ListenQueued(l)
<1>1. /\ Len(Q(l)) \in Nat /\ Len(Q(l)) >= 1 /\ DOMAIN Q(l) = 1..Len(Q(l))
      /\ DOMAIN Q(l)' = 1..(Len(Q(l)) - 1) /\ \A i \in 1..(Len(Q(l)) - 1) : Q(l)'[i] = Q(l)[i + 1]
  OBVIOUS
<1>2. \A i \in Nat : i \in DOMAIN Q(l)' <=> i >= 1 /\ i + 1 \in DOMAIN Q(l)
  BY <1>1
<1>3. \A i \in DOMAIN Q(l)' : i \in Nat /\ Q(l)'[i] = Q(l)[i + 1] /\ i + 1 \in DOMAIN Q(l)
  BY <1>1
<1>. QED
  BY <1>1, <1>2, <1>3 DEF At, ListenQueued

(* A queue that stays as it is.                                            *)
LEMMA AtSame ==
    ASSUME NEW l \in Loops, Q(l)' = Q(l)
    PROVE  /\ \A i \in Nat, o \in Ops, d \in Conns : At(l, i, o, d)' = At(l, i, o, d)
           /\ ListenQueued(l)' = ListenQueued(l)
BY DEF At, ListenQueued

(* An empty queue.                                                         *)
LEMMA AtEmpty ==
    ASSUME NEW l \in Loops, Q(l) = <<>>
    PROVE  /\ \A i \in Nat, o \in Ops, d \in Conns : ~At(l, i, o, d)
           /\ ~ListenQueued(l)
<1>1. DOMAIN Q(l) = {}
  OBVIOUS
<1>. QED
  BY <1>1 DEF At, ListenQueued

(* The types of the queues.                                                *)
LEMMA QType == ASSUME TypeOK, NEW l \in Loops
               PROVE  Q(l) \in Seq(Functor) /\ batch[l] \in Seq(Functor) /\ pending[l] \in Seq(Functor)
<1>1. batch[l] \in Seq(Functor) /\ pending[l] \in Seq(Functor)
  BY DEF TypeOK
<1>. QED
  BY <1>1 DEF Q

(* queueInLoop appends to the queue of one loop.                           *)
LEMMA PushQ ==
    ASSUME TypeOK, NEW l \in Loops, NEW f \in Functor, Push(l, f), batch'[l] = batch[l]
    PROVE  /\ Q(l)' = Append(Q(l), f) /\ \A k \in Loops : k # l /\ batch'[k] = batch[k] => Q(k)' = Q(k)
           /\ pending' \in [Loops -> Seq(Functor)]
           /\ \A k \in Loops : k # l => pending'[k] = pending[k]
<1>1. pending' = [pending EXCEPT ![l] = Append(pending[l], f)] /\ pending \in [Loops -> Seq(Functor)]
  BY DEF Push, TypeOK
<1>2. batch[l] \in Seq(Functor) /\ pending[l] \in Seq(Functor)
  BY QType
<1>3. Append(pending[l], f) \in Seq(Functor)
  BY <1>2
<1>4. pending' \in [Loops -> Seq(Functor)] /\ pending'[l] = Append(pending[l], f)
      /\ \A k \in Loops : k # l => pending'[k] = pending[k]
  BY <1>1, <1>3
<1>5. Q(l)' = Append(Q(l), f)
  <2>1. batch[l] \o Append(pending[l], f) = Append(batch[l] \o pending[l], f)
    <3>1. \A b, p \in Seq(Functor) : b \o Append(p, f) = Append(b \o p, f)
      BY ConcatAppend
    <3>. QED
      BY <1>2, <3>1, Zenon
  <2>. QED
    BY <1>4, <2>1 DEF Q
<1>. QED
  BY <1>4, <1>5 DEF Q

(* Running a functor takes the first one of the queue.                     *)
LEMMA TakeQ ==
    ASSUME TypeOK, NEW l \in Loops, Taken(l), batch[l] # <<>>
    PROVE  /\ batch' \in [Loops -> Seq(Functor)] /\ Q(l) # <<>> /\ Head(Q(l)) = Head(batch[l])
           /\ Head(batch[l]) \in Functor
           /\ pending'[l] = pending[l] => Q(l)' = Tail(Q(l))
           /\ \A k \in Loops : k # l => batch'[k] = batch[k]
<1>1. batch' = [batch EXCEPT ![l] = Tail(batch[l])] /\ batch \in [Loops -> Seq(Functor)]
  BY DEF Taken, TypeOK
<1>2. batch[l] \in Seq(Functor) /\ pending[l] \in Seq(Functor)
  BY QType
<1>3. /\ Tail(batch[l]) \o pending[l] = Tail(Q(l)) /\ Head(Q(l)) = Head(batch[l]) /\ Q(l) # <<>>
      /\ Tail(batch[l]) \in Seq(Functor) /\ Head(batch[l]) \in Functor
  BY <1>2, ConcatTail DEF Q
<1>4. batch' \in [Loops -> Seq(Functor)] /\ batch'[l] = Tail(batch[l])
      /\ \A k \in Loops : k # l => batch'[k] = batch[k]
  BY <1>1, <1>3
<1>. QED
  BY <1>3, <1>4 DEF Q

(* The first functor of a queue, in the words of At.                       *)
LEMMA HeadAt ==
    ASSUME NEW l \in Loops, Q(l) \in Seq(Functor), Q(l) # <<>>, NEW op \in Ops, Head(Q(l)).op = op
    PROVE  /\ Head(Q(l)).c \in Conns /\ At(l, 1, op, Head(Q(l)).c)
           /\ \A o \in Ops, d \in Conns : At(l, 1, o, d) => o = op /\ d = Head(Q(l)).c
<1>1. 1 \in DOMAIN Q(l) /\ Q(l)[1] = Head(Q(l)) /\ Head(Q(l)) \in Functor
  OBVIOUS
<1>2. op # "listen"
  BY DEF Ops
<1>3. Head(Q(l)).c \in Conns
  BY <1>1, <1>2 DEF Functor
<1>. QED
  BY <1>1, <1>3 DEF At

(* Nothing of connection d changes.                                        *)
SameConn(d) ==
    /\ state'[d] = state[d] /\ loop'[d] = loop[d] /\ interest'[d] = interest[d]
    /\ added'[d] = added[d] /\ ups'[d] = ups[d] /\ downs'[d] = downs[d]
    /\ destroyed'[d] = destroyed[d]
    /\ d \in connections' <=> d \in connections

\* the functors of d stay in their places in the queue of k, or move up by one
SameAt(k, d) == \A i \in Nat, o \in Ops : At(k, i, o, d)' <=> At(k, i, o, d)

MovedUp(k, d) ==
    /\ \A i \in Nat, o \in Ops : At(k, i, o, d)' <=> i >= 1 /\ At(k, i + 1, o, d)
    /\ \A o \in Ops : ~At(k, 1, o, d)
    /\ \A i \in Nat, o \in Ops : At(k, i, o, d) => i >= 1

(* A functor that moves up is still there.                                 *)
LEMMA HasKept ==
    ASSUME NEW k \in Loops, NEW d \in Conns, SameAt(k, d) \/ MovedUp(k, d), NEW o \in Ops
    PROVE  Has(k, o, d)' <=> Has(k, o, d)
<1>1. CASE SameAt(k, d)
  BY <1>1 DEF SameAt, Has
<1>2. CASE MovedUp(k, d)
  <2>1. ASSUME NEW i \in Nat, At(k, i, o, d)' PROVE Has(k, o, d)
    <3>1. i + 1 \in Nat /\ At(k, i + 1, o, d)
      BY <1>2, <2>1 DEF MovedUp
    <3>. QED
      BY <3>1 DEF Has
  <2>2. ASSUME NEW i \in Nat, At(k, i, o, d) PROVE Has(k, o, d)'
    <3>1. i >= 1 /\ i # 1
      BY <1>2, <2>2 DEF MovedUp
    <3>2. i - 1 \in Nat /\ i - 1 >= 1 /\ (i - 1) + 1 = i
      BY <3>1
    <3>3. At(k, i - 1, o, d)'
      BY <1>2, <2>2, <3>2 DEF MovedUp
    <3>. QED
      BY <3>2, <3>3 DEF Has
  <2>. QED
    BY <2>1, <2>2 DEF Has
<1>. QED
  BY <1>1, <1>2

(* The part of the invariant that is about d is kept by a step that leaves *)
(* d alone and takes at most functors of other connections.                *)
LEMMA FunKept ==
    ASSUME NEW d \in Conns, Fun(d), SameConn(d), Serving' => Serving,
           \A k \in Loops : SameAt(k, d) \/ MovedUp(k, d)
    PROVE  Fun(d)'
<1>1. ASSUME NEW k \in Loops, NEW i \in Nat, NEW o \in Ops, At(k, i, o, d)'
      PROVE  \E j \in {i, i + 1} : At(k, j, o, d)
  BY <1>1 DEF SameAt, MovedUp
<1>2. ASSUME NEW k \in Loops, NEW i \in Nat, At(k, i, "connectEstablished", d)'
      PROVE  loop'[d] = k /\ state'[d] = "kConnecting"
  <2>1. PICK j \in {i, i + 1} : At(k, j, "connectEstablished", d)
    BY <1>1, <1>2 DEF Ops
  <2>. QED
    BY <2>1 DEF Fun, SameConn
<1>3. ASSUME NEW k \in Loops, NEW i \in Nat, At(k, i, "removeConnectionInLoop", d)'
      PROVE  /\ k = Base /\ loop'[d] # Base /\ state'[d] = "kDisconnected"
             /\ Serving' => d \in connections'
  <2>1. PICK j \in {i, i + 1} : At(k, j, "removeConnectionInLoop", d)
    BY <1>1, <1>3 DEF Ops
  <2>. QED
    BY <2>1 DEF Fun, SameConn
<1>4. ASSUME NEW k \in Loops, NEW i \in Nat, At(k, i, "connectDestroyed", d)'
      PROVE  /\ loop'[d] = k /\ state'[d] # "none" /\ d \notin connections' /\ ~destroyed'[d]
             /\ ~interest'[d] \/ (~Serving' /\ k # Base)
             /\ state'[d] = "kConnecting" => \E j \in Nat : j < i /\ At(k, j, "connectEstablished", d)'
  <2>1. PICK j \in {i, i + 1} : At(k, j, "connectDestroyed", d)
    BY <1>1, <1>4 DEF Ops
  <2>2. /\ loop'[d] = k /\ state'[d] # "none" /\ d \notin connections' /\ ~destroyed'[d]
        /\ ~interest'[d] \/ (~Serving' /\ k # Base)
    BY <2>1 DEF Fun, SameConn
  <2>3. ASSUME state'[d] = "kConnecting"
        PROVE  \E m \in Nat : m < i /\ At(k, m, "connectEstablished", d)'
    <3>1. CASE SameAt(k, d)
      <4>1. At(k, i, "connectDestroyed", d)
        BY <1>4, <3>1 DEF SameAt, Ops
      <4>2. PICK m \in Nat : m < i /\ At(k, m, "connectEstablished", d)
        BY <2>3, <4>1 DEF Fun, SameConn
      <4>. QED
        BY <3>1, <4>2 DEF SameAt, Ops
    <3>2. CASE MovedUp(k, d)
      <4>1. i + 1 \in Nat /\ At(k, i + 1, "connectDestroyed", d)
        BY <1>4, <3>2 DEF MovedUp, Ops
      <4>2. PICK m \in Nat : m < i + 1 /\ At(k, m, "connectEstablished", d)
        BY <2>3, <4>1 DEF Fun, SameConn
      <4>3. m >= 1 /\ m # 1
        BY <3>2, <4>2 DEF MovedUp, Ops
      <4>4. m - 1 \in Nat /\ m - 1 >= 1 /\ (m - 1) + 1 = m /\ m - 1 < i
        BY <4>2, <4>3
      <4>5. At(k, m - 1, "connectEstablished", d)'
        BY <3>2, <4>2, <4>4 DEF MovedUp, Ops
      <4>. QED
        BY <4>4, <4>5
    <3>. QED
      BY <3>1, <3>2
  <2>. QED
    BY <2>2, <2>3
<1>5. ASSUME NEW k \in Loops, NEW i \in Nat, NEW j \in Nat, NEW op \in Ops,
             At(k, i, op, d)', At(k, j, op, d)'
      PROVE  i = j
  <2>1. CASE SameAt(k, d)
    BY <1>5, <2>1 DEF SameAt, Fun
  <2>2. CASE MovedUp(k, d)
    <3>1. i + 1 \in Nat /\ j + 1 \in Nat /\ At(k, i + 1, op, d) /\ At(k, j + 1, op, d)
      BY <1>5, <2>2 DEF MovedUp
    <3>2. i + 1 = j + 1
      BY <3>1 DEF Fun
    <3>. QED
      BY <3>2
  <2>. QED
    BY <2>1, <2>2
<1>. QED
  BY <1>2, <1>3, <1>4, <1>5 DEF Fun

(* The same for all that the invariant says of d.                          *)
LEMMA ConnKept ==
    ASSUME TypeOK, NEW d \in Conns, Life(d), Fun(d), Own(d), SameConn(d),
           d >= nextConnId' <=> d >= nextConnId,
           failed' = "none" => failed = "none",
           Serving' => Serving,
           phase'[loop[d]] = "exited" <=> phase[loop[d]] = "exited",
           \A k \in Loops : SameAt(k, d) \/ MovedUp(k, d)
    PROVE  Life(d)' /\ Fun(d)' /\ Own(d)'
<1>1. Life(d)'
  BY DEF Life, SameConn, IsUp
<1>2. Fun(d)'
  BY FunKept
<1>3. Own(d)'
  <2>1. PICK l \in Loops : l = loop[d]
    BY DEF TypeOK
  <2>2. \A o \in Ops : Has(l, o, d)' <=> Has(l, o, d)
    BY HasKept
  <2>3. loop'[d] = l
    BY <2>1 DEF SameConn
  <2>4. Has(loop[d], "connectEstablished", d)' <=> Has(l, "connectEstablished", d)'
    BY <2>3 DEF Has, At, Q
  <2>5. Has(loop[d], "connectDestroyed", d)' <=> Has(l, "connectDestroyed", d)'
    BY <2>3 DEF Has, At, Q
  <2>6. /\ Has(loop[d], "connectEstablished", d)' <=> Has(loop[d], "connectEstablished", d)
        /\ Has(loop[d], "connectDestroyed", d)' <=> Has(loop[d], "connectDestroyed", d)
    BY <2>1, <2>2, <2>4, <2>5 DEF Ops
  <2>. QED
    BY <2>1, <2>3, <2>6 DEF Own, SameConn, IsUp
<1>. QED
  BY <1>1, <1>2, <1>3
-----------------------------------------------------------------------------
(* Steps that leave the connections alone.                                 *)

(* The counts of the pool change with a new connection only.               *)
LEMMA PoolKept ==
    ASSUME TypeOK, PoolInv, UNCHANGED <<pool, next, loop>>,
           \A c \in Conns : state'[c] = "none" <=> state[c] = "none"
    PROVE  PoolInv'
<1>1. \A i \in DOMAIN pool : OnLoop(i)' = OnLoop(i)
  BY DEF OnLoop
<1>. QED
  BY <1>1 DEF PoolInv

(* A step that touches no queue and no connection keeps them all.          *)
LEMMA QuietConns ==
    ASSUME TypeOK, ConnInv, UNCHANGED <<connections, nextConnId, conns>>,
           \A k \in Loops : Q(k)' = Q(k),
           \A k \in Loops : phase'[k] = "exited" <=> phase[k] = "exited",
           failed' = "none" => failed = "none", Serving' => Serving
    PROVE  ConnInv'
<1>. SUFFICES ASSUME NEW d \in Conns PROVE Life(d)' /\ Fun(d)' /\ Own(d)'
  BY DEF ConnInv
<1>1. Life(d) /\ Fun(d) /\ Own(d)
  BY DEF ConnInv
<1>2. SameConn(d)
  BY DEF SameConn, conns
<1>3. \A k \in Loops : SameAt(k, d)
  BY AtSame DEF SameAt
<1>4. loop[d] \in Loops
  BY DEF TypeOK
<1>. QED
  BY <1>1, <1>2, <1>3, <1>4, ConnKept

(* start() up to the thread pool: there are no connections yet.            *)
LEMMA StartPoolStep ==
    ASSUME IInv, NEW n \in 0..Len(IoLoops), StartPool(n), failed = "none"
    PROVE  IInv'
<1>. USE DEF IInv
<1>1. /\ server = "alive" /\ ~started /\ started' = TRUE /\ server' = "starting"
      /\ pool' = SubSeq(IoLoops, 1, n)
      /\ UNCHANGED <<listening, next, nextConnId, connections, phase, pending, batch, quit, told, conns, failed>>
  BY DEF StartPool, counters, loops
<1>2. \A k \in Loops : Q(k)' = Q(k)
  BY <1>1 DEF Q
<1>3. ConnInv'
  BY <1>1, <1>2, QuietConns DEF Serving
<1>4. /\ Len(IoLoops) \in Nat /\ DOMAIN IoLoops = 1..Len(IoLoops) /\ n \in Nat /\ n <= Len(IoLoops)
      /\ Len(pool') = n /\ DOMAIN pool' = 1..n /\ \A i \in 1..n : i \in DOMAIN IoLoops /\ pool'[i] = IoLoops[i]
  BY <1>1, LoopsAssumption
<1>5. pool' \in Seq(Loops)
  <2>1. IoLoops \in Seq(Loops)
    <3>1. \A i \in DOMAIN IoLoops : IoLoops[i] \in Loops
      BY DEF Loops
    <3>. QED
      BY <3>1, LoopsAssumption
  <2>. QED
    BY <1>1, <1>4, <2>1
<1>6. TypeOK'
  BY <1>1, <1>5 DEF TypeOK, conns
<1>7. LoopInv'
  BY <1>1, <1>4, LoopsAssumption DEF LoopInv
<1>8. StartInv'
  BY <1>1 DEF StartInv
<1>9. FailInv'
  BY <1>1 DEF FailInv
<1>10. PoolInv'
  <2>1. pool = <<>> /\ nextConnId = 1
    BY <1>1 DEF StartInv
  <2>2. next = 1
    <3>1. Len(pool) = 0
      BY <2>1
    <3>. QED
      BY <3>1 DEF PoolInv
  <2>3. \A c \in Conns : state[c] = "none"
    BY <2>1 DEF ConnInv, Life, Conns
  <2>4. \A i \in DOMAIN pool' : OnLoop(i)' = {}
    BY <1>1, <2>3 DEF OnLoop, conns
  <2>5. \A i \in DOMAIN pool' : Cardinality(OnLoop(i)') = 0
    BY <2>4, FS_EmptySet
  <2>6. next' = 1 /\ \A i \in DOMAIN pool' : ~(i < next')
    BY <2>2, <1>1, <1>4
  <2>7. next' \in 1..Len(pool') \/ (pool' = <<>> /\ next' = 1)
    BY <2>6, <1>4, <1>5
  <2>8. \A i, j \in DOMAIN pool' : pool'[i] = pool'[j] => i = j
    BY <1>4, LoopsAssumption
  <2>9. \A i \in DOMAIN pool' : Cardinality(OnLoop(i)') = IF i < next' THEN 0 + 1 ELSE 0
    BY <2>5, <2>6
  <2>. QED
    BY <1>4, <2>7, <2>8, <2>9 DEF PoolInv
<1>. QED
  BY <1>3, <1>6, <1>7, <1>8, <1>9, <1>10

(* The other steps of start() and of the destructor that touch no          *)
(* connection, and stuttering.                                             *)
LEMMA QuietSteps ==
    ASSUME IInv,
           \/ /\ failed = "none"
              /\ \/ ListenInLoop \/ StartOutsideFirst \/ DestroyServer \/ DestroyPool \/ Joined
                 \/ \E i \in DOMAIN pool : QuitLoop(i)
           \/ UNCHANGED vars
    PROVE  IInv'
<1>. USE DEF IInv
<1>1. /\ UNCHANGED <<pool, next, nextConnId, connections, phase, pending, batch, conns>>
      /\ failed' = "none" => failed = "none"
      /\ Serving' => Serving
  BY DEF ListenInLoop, StartOutsideFirst, DestroyServer, DestroyPool, Joined, QuitLoop, vars, loops,
         setup, counters, Serving
<1>2. \A k \in Loops : Q(k)' = Q(k)
  BY <1>1 DEF Q
<1>3. ConnInv'
  BY <1>1, <1>2, QuietConns
<1>4. PoolInv'
  BY <1>1, PoolKept DEF conns
<1>5. \A l \in Loops : ListenQueued(l)' = ListenQueued(l)
  BY <1>2, AtSame
<1>6. TypeOK' /\ LoopInv' /\ StartInv' /\ FailInv'
  <2>1. CASE ListenInLoop /\ failed = "none"
    BY <2>1, <1>1, <1>5 DEF ListenInLoop, TypeOK, LoopInv, StartInv, FailInv, Serving, loops, setup, counters, conns
  <2>2. CASE StartOutsideFirst /\ failed = "none"
    BY <2>2, <1>1, <1>5 DEF StartOutsideFirst, TypeOK, LoopInv, StartInv, FailInv, Serving, loops, setup, counters, conns
  <2>3. CASE (DestroyServer \/ DestroyPool \/ Joined) /\ failed = "none"
    <3>1. UNCHANGED <<started, listening, quit, told, failed>>
      BY <2>3 DEF DestroyServer, DestroyPool, Joined, setup, loops
    <3>2. server' \in {"destroying", "joining", "dead"}
      BY <2>3 DEF DestroyServer, DestroyPool, Joined
    <3>3. LoopInv'
      BY <2>3, <3>1, <1>1 DEF LoopInv, DestroyServer, DestroyPool, Joined
    <3>. QED
      BY <3>1, <3>2, <3>3, <1>1, <1>5 DEF TypeOK, StartInv, FailInv, Serving, conns
  <2>4. CASE (\E i \in DOMAIN pool : QuitLoop(i)) /\ failed = "none"
    <3>1. PICK i \in DOMAIN pool : QuitLoop(i)
      BY <2>4
    <3>2. pool[i] \in Loops /\ pool[i] # Base
      BY DEF TypeOK, LoopInv
    <3>3. server = "joining" /\ quit' = [quit EXCEPT ![pool[i]] = TRUE]
          /\ told' = [told EXCEPT ![pool[i]] = TRUE]
          /\ UNCHANGED <<server, started, listening, failed>>
      BY <3>1 DEF QuitLoop, setup
    <3>4. LoopInv'
      BY <3>2, <3>3, <1>1 DEF LoopInv, TypeOK
    <3>. QED
      BY <3>3, <3>4, <1>1, <1>5 DEF TypeOK, StartInv, FailInv, Serving, conns
  <2>5. CASE UNCHANGED vars
    BY <2>5, <1>5 DEF vars, TypeOK, LoopInv, StartInv, FailInv, Serving, loops, setup, counters, conns
  <2>. QED
    BY <2>1, <2>2, <2>3, <2>4, <2>5
<1>. QED
  BY <1>3, <1>4, <1>6

(* A thread of the pool enters loop(), which takes back a quit() that came *)
(* before.                                                                 *)
LEMMA EnterLoopStep ==
    ASSUME IInv, NEW l \in Loops, EnterLoop(l)
    PROVE  IInv'
<1>. USE DEF IInv
<1>1. /\ phase[l] = "entering" /\ phase' = [phase EXCEPT ![l] = "events"]
      /\ quit' = [quit EXCEPT ![l] = FALSE]
      /\ UNCHANGED <<server, started, listening, pool, next, nextConnId, connections, pending, batch, told,
                     conns, failed>>
  BY DEF EnterLoop, setup, counters
<1>2. /\ phase'[l] = "events" /\ ~quit'[l]
      /\ \A k \in Loops : k # l => phase'[k] = phase[k] /\ quit'[k] = quit[k]
  BY <1>1 DEF TypeOK
<1>3. \A k \in Loops : Q(k)' = Q(k)
  BY <1>1 DEF Q
<1>4. \A k \in Loops : phase'[k] = "exited" <=> phase[k] = "exited"
  BY <1>1, <1>2
<1>5. ConnInv'
  BY <1>1, <1>3, <1>4, QuietConns DEF Serving
<1>6. PoolInv'
  BY <1>1, PoolKept DEF conns
<1>7. TypeOK'
  BY <1>1 DEF TypeOK, conns
<1>8. LoopInv'
  BY <1>1, <1>2, <1>4 DEF LoopInv
<1>9. StartInv'
  BY <1>1, <1>3, AtSame DEF StartInv
<1>10. FailInv'
  BY <1>1 DEF FailInv, Serving
<1>. QED
  BY <1>5, <1>6, <1>7, <1>8, <1>9, <1>10

(* The swap moves the queue from pending to batch.                         *)
LEMMA SwapStep ==
    ASSUME IInv, NEW l \in Loops, Swap(l)
    PROVE  IInv'
<1>. USE DEF IInv
<1>1. /\ phase[l] = "events" /\ phase' = [phase EXCEPT ![l] = "run"]
      /\ batch' = [batch EXCEPT ![l] = pending[l]] /\ pending' = [pending EXCEPT ![l] = <<>>]
      /\ UNCHANGED <<server, started, listening, pool, next, nextConnId, connections, quit, told, conns, failed>>
  BY DEF Swap, setup, counters
<1>2. batch[l] = <<>> /\ pending[l] \in Seq(Functor) /\ batch[l] \in Seq(Functor)
  BY <1>1, QType DEF LoopInv
<1>3. /\ batch'[l] = pending[l] /\ pending'[l] = <<>>
      /\ \A k \in Loops : k # l => batch'[k] = batch[k] /\ pending'[k] = pending[k] /\ phase'[k] = phase[k]
      /\ phase'[l] = "run"
  BY <1>1 DEF TypeOK
<1>4. \A k \in Loops : Q(k)' = Q(k)
  <2>1. pending[l] \o <<>> = <<>> \o pending[l]
    BY <1>2
  <2>2. Q(l)' = Q(l)
    BY <2>1, <1>2, <1>3 DEF Q
  <2>. QED
    BY <2>2, <1>3 DEF Q
<1>5. \A k \in Loops : phase'[k] = "exited" <=> phase[k] = "exited"
  BY <1>1, <1>3
<1>6. ConnInv'
  BY <1>1, <1>4, <1>5, QuietConns DEF Serving
<1>7. PoolInv'
  BY <1>1, PoolKept DEF conns
<1>8. TypeOK'
  <2>1. <<>> \in Seq(Functor)
    OBVIOUS
  <2>2. batch' \in [Loops -> Seq(Functor)] /\ pending' \in [Loops -> Seq(Functor)]
    BY <2>1, <1>1, <1>2 DEF TypeOK
  <2>3. phase' \in [Loops -> {"entering", "events", "run", "exited"}]
    BY <1>1 DEF TypeOK
  <2>. QED
    BY <2>2, <2>3, <1>1 DEF TypeOK, conns
<1>9. LoopInv'
  BY <1>1, <1>3, <1>5 DEF LoopInv
<1>10. StartInv'
  BY <1>1, <1>4, AtSame DEF StartInv
<1>11. FailInv'
  BY <1>1 DEF FailInv, Serving
<1>. QED
  BY <1>6, <1>7, <1>8, <1>9, <1>10, <1>11

(* The end of an iteration; a loop that quits takes its functors along.    *)
LEMMA EndBatchStep ==
    ASSUME IInv, NEW l \in Loops, EndBatch(l)
    PROVE  IInv'
<1>. USE DEF IInv
<1>1. /\ phase[l] = "run" /\ batch[l] = <<>>
      /\ phase' = [phase EXCEPT ![l] = IF quit[l] THEN "exited" ELSE "events"]
      /\ pending' = [pending EXCEPT ![l] = IF quit[l] THEN <<>> ELSE pending[l]]
      /\ UNCHANGED <<server, started, listening, pool, next, nextConnId, connections, batch, quit, told, conns, failed>>
  BY DEF EndBatch, Exits, setup, counters
<1>2. /\ \A k \in Loops : k # l => pending'[k] = pending[k] /\ phase'[k] = phase[k] /\ Q(k)' = Q(k)
      /\ pending'[l] = IF quit[l] THEN <<>> ELSE pending[l]
      /\ phase'[l] = IF quit[l] THEN "exited" ELSE "events"
  BY <1>1 DEF TypeOK, Q
<1>3. TypeOK'
  <2>1. <<>> \in Seq(Functor) /\ pending[l] \in Seq(Functor)
    BY QType
  <2>2. pending' \in [Loops -> Seq(Functor)] /\ phase' \in [Loops -> {"entering", "events", "run", "exited"}]
    BY <2>1, <1>1 DEF TypeOK
  <2>. QED
    BY <2>2, <1>1 DEF TypeOK, conns
<1>4. LoopInv'
  BY <1>1, <1>2 DEF LoopInv, TypeOK
<1>5. PoolInv'
  BY <1>1, PoolKept DEF conns
<1>6. FailInv'
  BY <1>1 DEF FailInv, Serving
<1>7. CASE ~quit[l]
  <2>1. \A k \in Loops : Q(k)' = Q(k)
    BY <1>1, <1>2, <1>7 DEF Q
  <2>2. \A k \in Loops : phase'[k] = "exited" <=> phase[k] = "exited"
    BY <1>1, <1>2, <1>7
  <2>3. ConnInv'
    BY <1>1, <2>1, <2>2, QuietConns DEF Serving
  <2>4. StartInv'
    BY <1>1, <2>1, AtSame DEF StartInv
  <2>. QED
    BY <2>3, <2>4, <1>3, <1>4, <1>5, <1>6
<1>8. CASE quit[l]
  <2>1. Q(l)' = <<>>
    <3>1. batch'[l] = <<>> /\ pending'[l] = <<>>
      BY <1>1, <1>2, <1>8
    <3>. QED
      BY <3>1 DEF Q
  <2>2. (\A i \in Nat, o \in Ops, d \in Conns : ~At(l, i, o, d)') /\ ~ListenQueued(l)'
    <3>1. DOMAIN Q(l)' = {}
      BY <2>1
    <3>. QED
      BY <3>1 DEF At, ListenQueued
  <2>3. \A k \in Loops : k # l => /\ \A i \in Nat, o \in Ops, d \in Conns : At(k, i, o, d)' = At(k, i, o, d)
                                  /\ ListenQueued(k)' = ListenQueued(k)
    BY <1>2, AtSame
  <2>4. StartInv'
    BY <1>1, <2>2, <2>3 DEF StartInv
  <2>5. ConnInv'
    <3>. SUFFICES ASSUME NEW d \in Conns PROVE Life(d)' /\ Fun(d)' /\ Own(d)'
      BY DEF ConnInv
    <3>1. Life(d) /\ Fun(d) /\ Own(d) /\ SameConn(d)
      BY <1>1 DEF ConnInv, SameConn, conns
    <3>2. Serving' = Serving
      BY <1>1 DEF Serving
    <3>3. CASE loop[d] # l
      <4>1. SameAt(l, d) \/ MovedUp(l, d)
        <5>1. \A i \in Nat, o \in Ops : ~At(l, i, o, d)
          <6>1. l # Base
            BY <1>8 DEF LoopInv
          <6>. QED
            BY <3>1, <3>3, <6>1 DEF Fun, Ops
        <5>. QED
          BY <2>2, <5>1 DEF SameAt
      <4>2. \A k \in Loops : SameAt(k, d) \/ MovedUp(k, d)
        BY <4>1, <2>3 DEF SameAt
      <4>3. phase'[loop[d]] = "exited" <=> phase[loop[d]] = "exited"
        BY <3>3, <1>2 DEF TypeOK
      <4>. QED
        BY <1>1, <3>1, <3>2, <4>2, <4>3, ConnKept
    <3>4. CASE loop[d] = l
      <4>1. Life(d)'
        BY <1>1, <3>1 DEF Life, SameConn, IsUp
      <4>2. Own(d)'
        <5>1. loop'[d] = l /\ phase'[loop'[d]] = "exited"
          BY <1>2, <1>8, <3>1, <3>4 DEF SameConn
        <5>. QED
          BY <5>1, <3>1, <3>2 DEF Own, SameConn, IsUp
      <4>3. Fun(d)'
        <5>1. ASSUME NEW k \in Loops, NEW i \in Nat, NEW o \in Ops, At(k, i, o, d)'
              PROVE  k # l /\ At(k, i, o, d)
          BY <5>1, <2>2, <2>3
        <5>2. \A k \in Loops, i \in Nat : ~At(k, i, "connectEstablished", d)' /\ ~At(k, i, "connectDestroyed", d)'
          BY <5>1, <3>1, <3>4 DEF Fun, Ops
        <5>3. \A k \in Loops, i \in Nat : At(k, i, "removeConnectionInLoop", d)' =>
                 /\ k = Base /\ loop'[d] # Base /\ state'[d] = "kDisconnected"
                 /\ Serving' => d \in connections'
          BY <5>1, <3>1, <3>2 DEF Fun, Ops, SameConn
        <5>4. \A k \in Loops, i, j \in Nat, op \in Ops : At(k, i, op, d)' /\ At(k, j, op, d)' => i = j
          BY <5>1, <3>1 DEF Fun
        <5>. QED
          BY <5>2, <5>3, <5>4 DEF Fun
      <4>. QED
        BY <4>1, <4>2, <4>3
    <3>. QED
      BY <3>3, <3>4
  <2>. QED
    BY <2>4, <2>5, <1>3, <1>4, <1>5, <1>6
<1>. QED
  BY <1>7, <1>8 DEF TypeOK

(* The acceptor's functor is about no connection.                          *)
LEMMA RunListenStep ==
    ASSUME IInv, RunListen, failed = "none"
    PROVE  IInv'
<1>. USE DEF IInv
<1>0. Base \in Loops
  BY DEF Loops
<1>1. /\ phase[Base] = "run" /\ batch[Base] # <<>> /\ Head(batch[Base]).op = "listen" /\ Taken(Base)
      /\ \/ server = "alive" /\ listening' = TRUE /\ failed' = failed
         \/ server = "dead" /\ listening' = listening /\ failed' = "listen: no acceptor"
      /\ UNCHANGED <<server, started, pool, next, nextConnId, connections, phase, pending, quit, told, conns>>
  BY DEF RunListen, Runs, counters
<1>2. /\ batch' \in [Loops -> Seq(Functor)] /\ Q(Base) # <<>> /\ Head(Q(Base)) = Head(batch[Base])
      /\ Q(Base)' = Tail(Q(Base)) /\ \A k \in Loops : k # Base => batch'[k] = batch[k]
  BY <1>0, <1>1, TakeQ
<1>3. \A k \in Loops : k # Base => Q(k)' = Q(k)
  BY <1>1, <1>2 DEF Q
<1>4. Q(Base) \in Seq(Functor)
  BY <1>0, QType
<1>5. /\ \A i \in Nat, o \in Ops, d \in Conns : At(Base, i, o, d)' <=> i >= 1 /\ At(Base, i + 1, o, d)
      /\ \A i \in Nat, o \in Ops, d \in Conns : At(Base, i, o, d) => i >= 1
      /\ ListenQueued(Base)' => ListenQueued(Base)
  BY <1>0, <1>2, <1>4, AtTail
<1>6. ListenQueued(Base) /\ \A o \in Ops, d \in Conns : ~At(Base, 1, o, d)
  <2>1. Q(Base)[1] = Head(Q(Base)) /\ 1 \in DOMAIN Q(Base)
    BY <1>2, <1>4
  <2>. QED
    BY <2>1, <1>1, <1>2 DEF At, ListenQueued, Ops
<1>7. Serving' = Serving /\ (failed' = "none" => failed = "none")
  BY <1>1 DEF Serving
<1>8. ConnInv'
  <2>. SUFFICES ASSUME NEW d \in Conns PROVE Life(d)' /\ Fun(d)' /\ Own(d)'
    BY DEF ConnInv
  <2>1. Life(d) /\ Fun(d) /\ Own(d) /\ SameConn(d)
    BY <1>1 DEF ConnInv, SameConn, conns
  <2>2. \A k \in Loops : SameAt(k, d) \/ MovedUp(k, d)
    <3>1. MovedUp(Base, d)
      BY <1>5, <1>6 DEF MovedUp
    <3>2. \A k \in Loops : k # Base => SameAt(k, d)
      BY <1>3, AtSame DEF SameAt
    <3>. QED
      BY <3>1, <3>2
  <2>. QED
    BY <1>1, <1>7, <2>1, <2>2, ConnKept
<1>9. TypeOK'
  BY <1>1, <1>2 DEF TypeOK, conns
<1>10. LoopInv'
  BY <1>1, <1>2 DEF LoopInv
<1>11. StartInv'
  <2>1. started
    BY <1>0, <1>6 DEF StartInv
  <2>. QED
    BY <2>1, <1>1 DEF StartInv
<1>12. PoolInv'
  BY <1>1, PoolKept DEF conns
<1>13. FailInv'
  BY <1>1 DEF FailInv, Serving
<1>. QED
  BY <1>8, <1>9, <1>10, <1>11, <1>12, <1>13

(* A second start() in another thread queues listen.                       *)
LEMMA StartAgainStep ==
    ASSUME IInv, StartOutsideAgain
    PROVE  IInv'
<1>. USE DEF IInv
<1>. DEFINE f == [op |-> "listen"]
<1>0. Base \in Loops /\ f \in Functor
  BY DEF Loops, Functor
<1>1. /\ server = "starting" /\ Push(Base, f)
      /\ UNCHANGED <<server, started, listening, pool, next, nextConnId, connections, phase, batch, quit, told, conns, failed>>
  BY DEF StartOutsideAgain, setup, counters
<1>2. f.op = "listen"
  OBVIOUS
<1>. HIDE DEF f
<1>3. /\ Q(Base)' = Append(Q(Base), f) /\ \A k \in Loops : k # Base => Q(k)' = Q(k)
      /\ pending' \in [Loops -> Seq(Functor)]
      /\ \A k \in Loops : k # Base => pending'[k] = pending[k]
  BY <1>0, <1>1, PushQ
<1>4. \A i \in Nat, o \in Ops, d \in Conns : At(Base, i, o, d)' <=> At(Base, i, o, d)
  <2>1. Q(Base) \in Seq(Functor)
    BY <1>0, QType
  <2>2. PICK n \in Nat : n = Len(Q(Base))
    BY <2>1
  <2>3. DOMAIN Q(Base) = 1..n /\ DOMAIN Q(Base)' = 1..(n + 1) /\ Q(Base)'[n + 1] = f
        /\ \A i \in 1..n : Q(Base)'[i] = Q(Base)[i]
    BY <2>1, <2>2, <1>0, <1>3
  <2>4. 1..(n + 1) = 1..n \cup {n + 1} /\ n + 1 \notin 1..n
    OBVIOUS
  <2>. QED
    BY <2>3, <2>4, <1>2 DEF At, Ops
<1>5. ConnInv'
  <2>. SUFFICES ASSUME NEW d \in Conns PROVE Life(d)' /\ Fun(d)' /\ Own(d)'
    BY DEF ConnInv
  <2>1. Life(d) /\ Fun(d) /\ Own(d) /\ SameConn(d)
    BY <1>1 DEF ConnInv, SameConn, conns
  <2>2. \A k \in Loops : SameAt(k, d) \/ MovedUp(k, d)
    BY <1>3, <1>4, AtSame DEF SameAt
  <2>. QED
    BY <1>1, <2>1, <2>2, ConnKept DEF Serving
<1>6. TypeOK'
  BY <1>1, <1>3 DEF TypeOK, conns
<1>7. LoopInv'
  <2>1. phase[Base] # "exited"
    BY <1>0 DEF LoopInv
  <2>. QED
    BY <2>1, <1>1, <1>3 DEF LoopInv
<1>8. StartInv'
  BY <1>1 DEF StartInv
<1>9. PoolInv'
  BY <1>1, PoolKept DEF conns
<1>10. FailInv'
  BY <1>1 DEF FailInv, Serving
<1>. QED
  BY <1>5, <1>6, <1>7, <1>8, <1>9, <1>10
-----------------------------------------------------------------------------
(* Steps of a connection.                                                  *)

(* A step about connection c keeps what is said of the others, if it takes *)
(* no functor of theirs.                                                   *)
LEMMA OthersKept ==
    ASSUME TypeOK, ConnInv, NEW c \in Conns,
           \A d \in Conns \ {c} : SameConn(d),
           \A d \in Conns \ {c} : d >= nextConnId' <=> d >= nextConnId,
           \A d \in Conns \ {c}, k \in Loops : SameAt(k, d) \/ MovedUp(k, d),
           failed' = "none" => failed = "none", Serving' => Serving, phase' = phase,
           Life(c)' /\ Fun(c)' /\ Own(c)'
    PROVE  ConnInv'
<1>. SUFFICES ASSUME NEW d \in Conns, d # c PROVE Life(d)' /\ Fun(d)' /\ Own(d)'
  BY DEF ConnInv
<1>1. Life(d) /\ Fun(d) /\ Own(d)
  BY DEF ConnInv
<1>. QED
  BY <1>1, ConnKept

(* What is known when the first functor of loop l is op of connection c.   *)
LEMMA TakeFacts ==
    ASSUME IInv, NEW l \in Loops, NEW op \in Ops, Runs(l, op), Taken(l), pending'[l] = pending[l],
           \A k \in Loops : k # l => pending'[k] = pending[k]
    PROVE  LET c == Head(batch[l]).c
           IN  /\ c \in Conns /\ At(l, 1, op, c) /\ Life(c) /\ Fun(c) /\ Own(c)
               /\ batch' \in [Loops -> Seq(Functor)]
               /\ \A i \in Nat, o \in Ops, d \in Conns : At(l, i, o, d)' <=> i >= 1 /\ At(l, i + 1, o, d)
               /\ \A i \in Nat, o \in Ops, d \in Conns : At(l, i, o, d) => i >= 1
               /\ \A k \in Loops : k # l =>
                      \A i \in Nat, o \in Ops, d \in Conns : At(k, i, o, d)' <=> At(k, i, o, d)
               /\ \A d \in Conns \ {c}, k \in Loops : SameAt(k, d) \/ MovedUp(k, d)
               /\ \A k \in Loops : ListenQueued(k)' => ListenQueued(k)
               /\ \A k \in Loops : k # l => batch'[k] = batch[k]
               /\ phase[l] = "run" /\ batch[l] # <<>>
<1>. DEFINE c == Head(batch[l]).c
<1>1. TypeOK /\ ConnInv /\ phase[l] = "run" /\ batch[l] # <<>> /\ Head(batch[l]).op = op
  BY DEF IInv, Runs
<1>2. /\ batch' \in [Loops -> Seq(Functor)] /\ Q(l) # <<>> /\ Head(Q(l)) = Head(batch[l])
      /\ Q(l)' = Tail(Q(l)) /\ \A k \in Loops : k # l => batch'[k] = batch[k]
  BY <1>1, TakeQ
<1>3. Q(l) \in Seq(Functor)
  BY <1>1, QType
<1>4. /\ c \in Conns /\ At(l, 1, op, c)
      /\ \A o \in Ops, d \in Conns : At(l, 1, o, d) => o = op /\ d = c
  BY <1>1, <1>2, <1>3, HeadAt
<1>5. /\ \A i \in Nat, o \in Ops, d \in Conns : At(l, i, o, d)' <=> i >= 1 /\ At(l, i + 1, o, d)
      /\ \A i \in Nat, o \in Ops, d \in Conns : At(l, i, o, d) => i >= 1
      /\ ListenQueued(l)' => ListenQueued(l)
  BY <1>2, <1>3, AtTail
<1>6. \A k \in Loops : k # l => Q(k)' = Q(k)
  BY <1>2 DEF Q
<1>7. \A k \in Loops : k # l =>
          /\ \A i \in Nat, o \in Ops, d \in Conns : At(k, i, o, d)' <=> At(k, i, o, d)
          /\ ListenQueued(k)' => ListenQueued(k)
  BY <1>6, AtSame
<1>. HIDE DEF c
<1>8. \A d \in Conns \ {c}, k \in Loops : SameAt(k, d) \/ MovedUp(k, d)
  <2>. TAKE d \in Conns \ {c}, k \in Loops
  <2>1. CASE k = l
    BY <2>1, <1>4, <1>5 DEF MovedUp
  <2>2. CASE k # l
    BY <2>2, <1>7 DEF SameAt
  <2>. QED
    BY <2>1, <2>2
<1>9. Life(c) /\ Fun(c) /\ Own(c)
  BY <1>1, <1>4 DEF ConnInv
<1>10. \A k \in Loops : ListenQueued(k)' => ListenQueued(k)
  BY <1>5, <1>7
<1>. QED
  BY <1>1, <1>2, <1>4, <1>5, <1>7, <1>8, <1>9, <1>10 DEF c

(* A functor of c behind the first one is still there when that one ran.   *)
LEMMA HasBehind ==
    ASSUME NEW l \in Loops, NEW c \in Conns, NEW op \in Ops, NEW o \in Ops, ~At(l, 1, o, c),
           \A i \in Nat : At(l, i, o, c)' <=> i >= 1 /\ At(l, i + 1, o, c),
           \A i \in Nat : At(l, i, o, c) => i >= 1
    PROVE  Has(l, o, c)' <=> Has(l, o, c)
<1>1. ASSUME NEW i \in Nat, At(l, i, o, c)' PROVE Has(l, o, c)
  <2>1. i + 1 \in Nat /\ At(l, i + 1, o, c)
    BY <1>1
  <2>. QED
    BY <2>1 DEF Has
<1>2. ASSUME NEW i \in Nat, At(l, i, o, c) PROVE Has(l, o, c)'
  <2>1. i >= 1 /\ i # 1
    BY <1>2
  <2>2. i - 1 \in Nat /\ i - 1 >= 1 /\ (i - 1) + 1 = i
    BY <2>1
  <2>3. At(l, i - 1, o, c)'
    BY <1>2, <2>2
  <2>. QED
    BY <2>2, <2>3 DEF Has
<1>. QED
  BY <1>1, <1>2 DEF Has

(* connectEstablished finds a connection in kConnecting; if the server is  *)
(* being destroyed, connectDestroyed is behind it.                         *)
LEMMA EstablishedStep ==
    ASSUME IInv, NEW l \in Loops, RunEstablished(l), failed = "none"
    PROVE  IInv'
<1>. USE DEF IInv
<1>0. /\ Runs(l, "connectEstablished") /\ Taken(l) /\ Established(Head(batch[l]).c)
      /\ failed' = IF state[Head(batch[l]).c] = "kConnecting" THEN failed ELSE "connectEstablished: state_"
      /\ UNCHANGED <<server, started, listening, pool, next, nextConnId, connections, phase, pending, quit, told, loop>>
  BY DEF RunEstablished, setup, counters
<1>2. "connectEstablished" \in Ops
  BY DEF Ops
<1>3. PICK c \in Conns :
      /\ c = Head(batch[l]).c
      /\ At(l, 1, "connectEstablished", c) /\ Life(c) /\ Fun(c) /\ Own(c)
      /\ batch' \in [Loops -> Seq(Functor)]
      /\ \A i \in Nat, o \in Ops, d \in Conns : At(l, i, o, d)' <=> i >= 1 /\ At(l, i + 1, o, d)
      /\ \A i \in Nat, o \in Ops, d \in Conns : At(l, i, o, d) => i >= 1
      /\ \A k \in Loops : k # l => \A i \in Nat, o \in Ops, d \in Conns : At(k, i, o, d)' <=> At(k, i, o, d)
      /\ \A d \in Conns \ {c}, k \in Loops : SameAt(k, d) \/ MovedUp(k, d)
      /\ \A k \in Loops : ListenQueued(k)' => ListenQueued(k)
      /\ \A k \in Loops : k # l => batch'[k] = batch[k]
      /\ phase[l] = "run"
  BY <1>0, <1>2, TakeFacts
<1>1. /\ Established(c)
      /\ failed' = IF state[c] = "kConnecting" THEN failed ELSE "connectEstablished: state_"
      /\ UNCHANGED <<server, started, listening, pool, next, nextConnId, connections, phase, pending, quit, told, loop>>
  BY <1>0, <1>3
<1>4. /\ loop[c] = l /\ state[c] = "kConnecting" /\ l # Base /\ ups[c] = 0 /\ downs[c] = 0 /\ ~destroyed[c]
      /\ failed' = "none"
  BY <1>1, <1>3 DEF Fun, Own, Life
<1>5. /\ state' = [state EXCEPT ![c] = "kConnected"] /\ interest' = [interest EXCEPT ![c] = TRUE]
      /\ added' = [added EXCEPT ![c] = TRUE] /\ ups' = [ups EXCEPT ![c] = ups[c] + 1]
      /\ UNCHANGED <<downs, destroyed>>
  BY <1>1 DEF Established
<1>6. TypeOK'
  <2>1. ups' \in [Conns -> 0..1]
    BY <1>4, <1>5 DEF TypeOK
  <2>. QED
    BY <2>1, <1>1, <1>3, <1>5 DEF TypeOK
<1>7. /\ state'[c] = "kConnected" /\ interest'[c] = TRUE /\ added'[c] = TRUE /\ ups'[c] = 1
      /\ downs'[c] = 0 /\ ~destroyed'[c] /\ loop'[c] = l
  BY <1>1, <1>3, <1>4, <1>5 DEF TypeOK
<1>8. Serving' = Serving
  BY <1>1 DEF Serving
<1>9. Life(c)'
  BY <1>1, <1>3, <1>4, <1>7 DEF Life, IsUp
<1>10. Fun(c)'
  <2>1. ASSUME NEW k \in Loops, NEW i \in Nat, NEW o \in Ops, At(k, i, o, c)'
        PROVE  \E j \in {i, i + 1} : At(k, j, o, c) /\ (k = l => j = i + 1 /\ i >= 1)
    BY <2>1, <1>3
  <2>2. \A k \in Loops, i \in Nat : ~At(k, i, "connectEstablished", c)'
    <3>. SUFFICES ASSUME NEW k \in Loops, NEW i \in Nat, At(k, i, "connectEstablished", c)' PROVE FALSE
      OBVIOUS
    <3>1. PICK j \in {i, i + 1} : At(k, j, "connectEstablished", c) /\ (k = l => j = i + 1 /\ i >= 1)
      BY <2>1, <1>2
    <3>2. k = l
      BY <3>1, <1>3, <1>4 DEF Fun
    <3>3. j = 1
      BY <3>1, <3>2, <1>2, <1>3 DEF Fun
    <3>. QED
      BY <3>1, <3>2, <3>3
  <2>3. \A k \in Loops, i \in Nat : ~At(k, i, "removeConnectionInLoop", c)'
    BY <2>1, <1>3, <1>4 DEF Fun, Ops
  <2>4. ASSUME NEW k \in Loops, NEW i \in Nat, At(k, i, "connectDestroyed", c)'
        PROVE  k = l /\ c \notin connections /\ ~Serving
    <3>1. PICK j \in {i, i + 1} : At(k, j, "connectDestroyed", c)
      BY <2>1, <2>4 DEF Ops
    <3>2. k = l /\ c \notin connections
      BY <3>1, <1>3, <1>4 DEF Fun
    <3>. QED
      BY <3>2, <1>3, <1>4 DEF Own
  <2>5. ASSUME NEW k \in Loops, NEW i \in Nat, NEW j \in Nat, NEW o \in Ops,
               At(k, i, o, c)', At(k, j, o, c)'
        PROVE  i = j
    <3>1. CASE k = l
      <4>1. i + 1 \in Nat /\ j + 1 \in Nat /\ At(l, i + 1, o, c) /\ At(l, j + 1, o, c)
        BY <2>5, <3>1, <1>3
      <4>2. i + 1 = j + 1
        BY <4>1, <1>3 DEF Fun
      <4>. QED
        BY <4>2
    <3>2. CASE k # l
      BY <2>5, <3>2, <1>3 DEF Fun
    <3>. QED
      BY <3>1, <3>2
  <2>. QED
    BY <2>2, <2>3, <2>4, <2>5, <1>1, <1>4, <1>7, <1>8 DEF Fun
<1>11. Own(c)'
  <2>1. Has(l, "connectDestroyed", c)' <=> Has(l, "connectDestroyed", c)
    <3>1. ~At(l, 1, "connectDestroyed", c)
      BY <1>3 DEF At
    <3>. QED
      BY <3>1, <1>2, <1>3, HasBehind DEF Ops
  <2>2. Has(loop[c], "connectDestroyed", c)' <=> Has(l, "connectDestroyed", c)'
    BY <1>7 DEF Has, At, Q
  <2>3. c \in connections' \/ Has(loop[c], "connectDestroyed", c)' \/ phase'[loop'[c]] = "exited"
    BY <2>1, <2>2, <1>1, <1>3, <1>4, <1>7 DEF Own
  <2>4. Serving => c \in connections
    BY <1>3, <1>4 DEF Own
  <2>. QED
    BY <2>3, <2>4, <1>1, <1>3, <1>7, <1>8 DEF Own, IsUp
<1>12. ConnInv'
  <2>1. \A d \in Conns \ {c} : SameConn(d)
    BY <1>1, <1>5 DEF SameConn, TypeOK
  <2>. QED
    BY <2>1, <1>1, <1>3, <1>4, <1>8, <1>9, <1>10, <1>11, OthersKept
<1>13. LoopInv'
  BY <1>1, <1>3 DEF LoopInv
<1>14. StartInv'
  BY <1>1, <1>3 DEF StartInv
<1>15. PoolInv'
  <2>1. \A d \in Conns : state'[d] = "none" <=> state[d] = "none"
    BY <1>3, <1>4, <1>5 DEF TypeOK
  <2>. QED
    BY <2>1, <1>1, PoolKept
<1>16. FailInv'
  BY <1>4 DEF FailInv
<1>. QED
  BY <1>6, <1>12, <1>13, <1>14, <1>15, <1>16

(* connectDestroyed of a connection that was established and not destroyed *)
(* yet: it goes down if it was up, the channel leaves the poller, and only *)
(* a connection in kDisconnecting fails the assertion.                     *)
LEMMA DestroyedFacts ==
    ASSUME TypeOK, NEW c \in Conns, Life(c), Destroyed(c), ~destroyed[c],
           state[c] \notin {"none", "kConnecting"}, failed = "none", nextConnId' = nextConnId
    PROVE  /\ Life(c)' /\ destroyed'[c] /\ state'[c] # "none" /\ state'[c] # "kConnecting"
           /\ state[c] = "kDisconnected" => state'[c] = "kDisconnected"
           /\ IsUp(c)' => IsUp(c)
           /\ failed' # "none" => interest[c]
           /\ \A d \in Conns \ {c} : /\ state'[d] = state[d] /\ interest'[d] = interest[d]
                                     /\ added'[d] = added[d] /\ ups'[d] = ups[d] /\ downs'[d] = downs[d]
                                     /\ destroyed'[d] = destroyed[d]
           /\ state' \in [Conns -> {"none", "kConnecting", "kConnected", "kDisconnecting", "kDisconnected"}]
           /\ interest' \in [Conns -> BOOLEAN] /\ added' \in [Conns -> BOOLEAN]
           /\ ups' \in [Conns -> 0..1] /\ downs' \in [Conns -> 0..1] /\ destroyed' \in [Conns -> BOOLEAN]
<1>1. /\ state' = [state EXCEPT ![c] = IF state[c] = "kConnected" THEN "kDisconnected" ELSE state[c]]
      /\ interest' = [interest EXCEPT ![c] = interest[c] /\ state[c] # "kConnected"]
      /\ downs' = [downs EXCEPT ![c] = IF state[c] = "kConnected" THEN downs[c] + 1 ELSE downs[c]]
      /\ added' = [added EXCEPT ![c] = FALSE]
      /\ destroyed' = [destroyed EXCEPT ![c] = TRUE]
      /\ failed' = IF interest'[c] \/ ~added[c] THEN "remove: isNoneEvent()" ELSE failed
      /\ ups' = ups
  BY DEF Destroyed, WasUp
<1>2. state[c] = "kConnected" => downs[c] = 0
  BY DEF Life, IsUp
<1>3. /\ state'[c] = IF state[c] = "kConnected" THEN "kDisconnected" ELSE state[c]
      /\ interest'[c] = (interest[c] /\ state[c] # "kConnected")
      /\ downs'[c] = IF state[c] = "kConnected" THEN 1 ELSE downs[c]
      /\ added'[c] = FALSE /\ destroyed'[c] = TRUE /\ ups'[c] = ups[c]
  <2>1. state'[c] = (IF state[c] = "kConnected" THEN "kDisconnected" ELSE state[c])
    BY <1>1 DEF TypeOK
  <2>2. interest'[c] = (interest[c] /\ state[c] # "kConnected")
    BY <1>1 DEF TypeOK
  <2>3. downs'[c] = IF state[c] = "kConnected" THEN 1 ELSE downs[c]
    <3>1. downs'[c] = IF state[c] = "kConnected" THEN downs[c] + 1 ELSE downs[c]
      BY <1>1 DEF TypeOK
    <3>. QED
      BY <3>1, <1>2
  <2>4. added'[c] = FALSE /\ destroyed'[c] = TRUE /\ ups'[c] = ups[c]
    BY <1>1 DEF TypeOK
  <2>. QED
    BY <2>1, <2>2, <2>3, <2>4
<1>4. interest' \in [Conns -> BOOLEAN] /\ added' \in [Conns -> BOOLEAN] /\ destroyed' \in [Conns -> BOOLEAN]
  BY <1>1 DEF TypeOK
<1>5. downs' \in [Conns -> 0..1] /\ ups' \in [Conns -> 0..1]
  <2>1. PICK n \in 0..1 : n = IF state[c] = "kConnected" THEN downs[c] + 1 ELSE downs[c]
    <3>1. downs[c] \in 0..1
      BY DEF TypeOK
    <3>. QED
      BY <3>1, <1>2
  <2>2. downs' = [downs EXCEPT ![c] = n]
    BY <1>1, <2>1
  <2>3. downs \in [Conns -> 0..1] /\ ups \in [Conns -> 0..1]
    BY DEF TypeOK
  <2>4. downs' \in [Conns -> 0..1]
    BY <2>2, <2>3
  <2>. QED
    BY <2>3, <2>4, <1>1
<1>6. state' \in [Conns -> {"none", "kConnecting", "kConnected", "kDisconnecting", "kDisconnected"}]
  BY <1>1 DEF TypeOK
<1>7. \A d \in Conns \ {c} : /\ state'[d] = state[d] /\ interest'[d] = interest[d]
                             /\ added'[d] = added[d] /\ ups'[d] = ups[d] /\ downs'[d] = downs[d]
                             /\ destroyed'[d] = destroyed[d]
  BY <1>1 DEF TypeOK
<1>8. added[c] /\ (state[c] = "kDisconnecting" => interest[c])
  BY DEF Life, IsUp, TypeOK
<1>9. /\ failed' # "none" => interest[c]
      /\ state[c] = "kDisconnecting" => failed' # "none"
  BY <1>1, <1>3, <1>8
<1>10. Life(c)'
  BY <1>3, <1>8, <1>9 DEF Life, IsUp, TypeOK
<1>. QED
  BY <1>3, <1>4, <1>5, <1>6, <1>7, <1>9, <1>10 DEF IsUp

(* connectDestroyed in a loop: connectEstablished has run before it.       *)
LEMMA DestroyedStep ==
    ASSUME IInv, NEW l \in Loops, RunDestroyed(l), failed = "none"
    PROVE  IInv'
<1>. USE DEF IInv
<1>0. /\ Runs(l, "connectDestroyed") /\ Taken(l) /\ Destroyed(Head(batch[l]).c)
      /\ UNCHANGED <<server, started, listening, pool, next, nextConnId, connections, phase, pending, quit, told, loop>>
  BY DEF RunDestroyed, setup, counters
<1>2. "connectDestroyed" \in Ops
  BY DEF Ops
<1>3. PICK c \in Conns :
      /\ c = Head(batch[l]).c
      /\ At(l, 1, "connectDestroyed", c) /\ Life(c) /\ Fun(c) /\ Own(c)
      /\ batch' \in [Loops -> Seq(Functor)]
      /\ \A i \in Nat, o \in Ops, d \in Conns : At(l, i, o, d)' <=> i >= 1 /\ At(l, i + 1, o, d)
      /\ \A i \in Nat, o \in Ops, d \in Conns : At(l, i, o, d) => i >= 1
      /\ \A k \in Loops : k # l => \A i \in Nat, o \in Ops, d \in Conns : At(k, i, o, d)' <=> At(k, i, o, d)
      /\ \A d \in Conns \ {c}, k \in Loops : SameAt(k, d) \/ MovedUp(k, d)
      /\ \A k \in Loops : ListenQueued(k)' => ListenQueued(k)
      /\ \A k \in Loops : k # l => batch'[k] = batch[k]
      /\ phase[l] = "run"
  BY <1>0, <1>2, TakeFacts
<1>1. /\ Destroyed(c)
      /\ UNCHANGED <<server, started, listening, pool, next, nextConnId, connections, phase, pending, quit, told, loop>>
  BY <1>0, <1>3
<1>4. /\ loop[c] = l /\ state[c] # "none" /\ c \notin connections /\ ~destroyed[c]
      /\ ~interest[c] \/ (~Serving /\ l # Base)
      /\ state[c] # "kConnecting"
  <2>1. /\ loop[c] = l /\ state[c] # "none" /\ c \notin connections /\ ~destroyed[c]
        /\ ~interest[c] \/ (~Serving /\ l # Base)
        /\ state[c] = "kConnecting" => \E j \in Nat : j < 1 /\ At(l, j, "connectEstablished", c)
    BY <1>3 DEF Fun
  <2>2. ASSUME NEW j \in Nat, At(l, j, "connectEstablished", c) PROVE j >= 1
    BY <2>2, <1>3 DEF Ops
  <2>. QED
    BY <2>1, <2>2
<1>5. /\ Life(c)' /\ destroyed'[c] /\ state'[c] # "none" /\ state'[c] # "kConnecting"
      /\ state[c] = "kDisconnected" => state'[c] = "kDisconnected"
      /\ IsUp(c)' => IsUp(c)
      /\ failed' # "none" => interest[c]
      /\ \A d \in Conns \ {c} : /\ state'[d] = state[d] /\ interest'[d] = interest[d]
                                /\ added'[d] = added[d] /\ ups'[d] = ups[d] /\ downs'[d] = downs[d]
                                /\ destroyed'[d] = destroyed[d]
      /\ state' \in [Conns -> {"none", "kConnecting", "kConnected", "kDisconnecting", "kDisconnected"}]
      /\ interest' \in [Conns -> BOOLEAN] /\ added' \in [Conns -> BOOLEAN]
      /\ ups' \in [Conns -> 0..1] /\ downs' \in [Conns -> 0..1] /\ destroyed' \in [Conns -> BOOLEAN]
  BY <1>1, <1>3, <1>4, DestroyedFacts
<1>6. TypeOK'
  BY <1>1, <1>3, <1>5 DEF TypeOK
<1>7. Serving' = Serving /\ (failed' = "none" => failed = "none")
  BY <1>1 DEF Serving
<1>8. Fun(c)'
  <2>1. ASSUME NEW k \in Loops, NEW i \in Nat, NEW o \in Ops, At(k, i, o, c)'
        PROVE  \E j \in {i, i + 1} : At(k, j, o, c) /\ (k = l => j = i + 1 /\ i >= 1)
    <3>1. CASE k = l
      <4>1. i >= 1 /\ At(l, i + 1, o, c)
        BY <2>1, <3>1, <1>3
      <4>. QED
        BY <3>1, <4>1
    <3>2. CASE k # l
      BY <2>1, <3>2, <1>3
    <3>. QED
      BY <3>1, <3>2
  <2>2. \A k \in Loops, i \in Nat : ~At(k, i, "connectDestroyed", c)'
    <3>. SUFFICES ASSUME NEW k \in Loops, NEW i \in Nat, At(k, i, "connectDestroyed", c)' PROVE FALSE
      OBVIOUS
    <3>1. PICK j \in {i, i + 1} : At(k, j, "connectDestroyed", c) /\ (k = l => j = i + 1 /\ i >= 1)
      BY <2>1, <1>2
    <3>2. k = l
      BY <3>1, <1>3, <1>4 DEF Fun
    <3>3. j = 1
      BY <3>1, <3>2, <1>2, <1>3 DEF Fun
    <3>. QED
      BY <3>1, <3>2, <3>3
  <2>3. \A k \in Loops, i \in Nat : ~At(k, i, "connectEstablished", c)'
    BY <2>1, <1>3, <1>4 DEF Fun, Ops
  <2>4. ASSUME NEW k \in Loops, NEW i \in Nat, At(k, i, "removeConnectionInLoop", c)'
        PROVE  k = Base /\ loop[c] # Base /\ state[c] = "kDisconnected" /\ ~Serving
    <3>1. PICK j \in {i, i + 1} : At(k, j, "removeConnectionInLoop", c)
      BY <2>1, <2>4 DEF Ops
    <3>. QED
      BY <3>1, <1>3, <1>4 DEF Fun
  <2>5. ASSUME NEW k \in Loops, NEW i \in Nat, NEW j \in Nat, NEW o \in Ops,
               At(k, i, o, c)', At(k, j, o, c)'
        PROVE  i = j
    <3>1. CASE k = l
      <4>1. i + 1 \in Nat /\ j + 1 \in Nat /\ At(l, i + 1, o, c) /\ At(l, j + 1, o, c)
        BY <2>5, <3>1, <1>3
      <4>2. i + 1 = j + 1
        BY <4>1, <1>3 DEF Fun
      <4>. QED
        BY <4>2
    <3>2. CASE k # l
      BY <2>5, <3>2, <1>3 DEF Fun
    <3>. QED
      BY <3>1, <3>2
  <2>. QED
    BY <2>2, <2>3, <2>4, <2>5, <1>1, <1>5, <1>7 DEF Fun
<1>9. Own(c)'
  BY <1>1, <1>3, <1>4, <1>5, <1>7 DEF Own
<1>10. ConnInv'
  <2>1. \A d \in Conns \ {c} : SameConn(d)
    BY <1>1, <1>5 DEF SameConn
  <2>. QED
    BY <2>1, <1>1, <1>3, <1>5, <1>7, <1>8, <1>9, OthersKept
<1>11. LoopInv'
  BY <1>1, <1>3 DEF LoopInv
<1>12. StartInv'
  BY <1>1, <1>3 DEF StartInv
<1>13. PoolInv'
  <2>1. \A d \in Conns : state'[d] = "none" <=> state[d] = "none"
    BY <1>4, <1>5
  <2>. QED
    BY <2>1, <1>1, PoolKept
<1>14. FailInv'
  BY <1>4, <1>5, <1>7 DEF FailInv
<1>. QED
  BY <1>6, <1>10, <1>11, <1>12, <1>13, <1>14

(* shutdown() of a connection that is up.                                  *)
LEMMA ShutdownStep ==
    ASSUME IInv, NEW c \in Conns, Shutdown(c)
    PROVE  IInv'
<1>. USE DEF IInv
<1>1. /\ state[c] = "kConnected" /\ state' = [state EXCEPT ![c] = "kDisconnecting"]
      /\ UNCHANGED <<server, started, listening, pool, next, nextConnId, connections, phase, pending, batch, quit, told,
                     loop, interest, added, ups, downs, destroyed, failed>>
  BY DEF Shutdown, setup, counters, loops
<1>2. Life(c) /\ Fun(c) /\ Own(c)
  BY DEF ConnInv
<1>3. state'[c] = "kDisconnecting" /\ \A d \in Conns \ {c} : state'[d] = state[d]
  BY <1>1 DEF TypeOK
<1>4. Serving' = Serving
  BY <1>1 DEF Serving
<1>5. \A k \in Loops : Q(k)' = Q(k)
  BY <1>1 DEF Q
<1>6. \A k \in Loops : /\ \A i \in Nat, o \in Ops, d \in Conns : At(k, i, o, d)' = At(k, i, o, d)
                       /\ ListenQueued(k)' = ListenQueued(k)
  BY <1>5, AtSame
<1>7. TypeOK'
  BY <1>1 DEF TypeOK
<1>8. Life(c)'
  BY <1>1, <1>2, <1>3 DEF Life, IsUp
<1>9. Fun(c)'
  <2>1. \A k \in Loops, i \in Nat : ~At(k, i, "connectEstablished", c) /\ ~At(k, i, "removeConnectionInLoop", c)
    BY <1>1, <1>2 DEF Fun
  <2>2. \A k \in Loops, i \in Nat : ~At(k, i, "connectEstablished", c)' /\ ~At(k, i, "removeConnectionInLoop", c)'
    BY <2>1, <1>6 DEF Ops
  <2>3. \A k \in Loops, i \in Nat : At(k, i, "connectDestroyed", c)' => At(k, i, "connectDestroyed", c)
    BY <1>6 DEF Ops
  <2>4. \A k \in Loops, i, j \in Nat, op \in Ops : At(k, i, op, c)' /\ At(k, j, op, c)' => i = j
    BY <1>2, <1>6 DEF Fun
  <2>. QED
    BY <2>2, <2>3, <2>4, <1>1, <1>2, <1>3, <1>4 DEF Fun
<1>10. Own(c)'
  <2>1. Has(loop[c], "connectDestroyed", c)' <=> Has(loop[c], "connectDestroyed", c)
    BY <1>1 DEF Has, At, Q
  <2>. QED
    BY <2>1, <1>1, <1>2, <1>3, <1>4 DEF Own, IsUp
<1>11. ConnInv'
  <2>1. \A d \in Conns \ {c} : SameConn(d)
    BY <1>1, <1>3 DEF SameConn
  <2>2. \A d \in Conns \ {c}, k \in Loops : SameAt(k, d)
    BY <1>6 DEF SameAt
  <2>. QED
    BY <2>1, <2>2, <1>1, <1>4, <1>8, <1>9, <1>10, OthersKept
<1>12. LoopInv'
  BY <1>1 DEF LoopInv
<1>13. StartInv'
  BY <1>1, <1>6 DEF StartInv
<1>14. PoolInv'
  <2>1. \A d \in Conns : state'[d] = "none" <=> state[d] = "none"
    BY <1>1, <1>3
  <2>. QED
    BY <2>1, <1>1, PoolKept
<1>15. FailInv'
  BY <1>1, <1>4 DEF FailInv
<1>. QED
  BY <1>7, <1>11, <1>12, <1>13, <1>14, <1>15

(* What queueInLoop of op for connection c leaves of the queues.           *)
LEMMA PushFacts ==
    ASSUME TypeOK, NEW l \in Loops, NEW op \in Ops, NEW c \in Conns,
           Push(l, [op |-> op, c |-> c]), batch' = batch
    PROVE  \E n \in Nat :
               /\ \A i \in Nat, o \in Ops, d \in Conns :
                      At(l, i, o, d)' <=> At(l, i, o, d) \/ (i = n /\ o = op /\ d = c)
               /\ \A i \in Nat, o \in Ops, d \in Conns : At(l, i, o, d) => i < n
               /\ \A k \in Loops : k # l =>
                      \A i \in Nat, o \in Ops, d \in Conns : At(k, i, o, d)' <=> At(k, i, o, d)
               /\ \A d \in Conns \ {c}, k \in Loops : SameAt(k, d) \/ MovedUp(k, d)
               /\ \A k \in Loops : ListenQueued(k)' => ListenQueued(k)
               /\ pending' \in [Loops -> Seq(Functor)]
               /\ \A k \in Loops : k # l => pending'[k] = pending[k]
<1>. DEFINE f == [op |-> op, c |-> c]
<1>1. f.op = op /\ f.c = c /\ f \in Functor /\ Push(l, f)
  BY DEF Functor, Ops
<1>. HIDE DEF f
<1>2. /\ Q(l)' = Append(Q(l), f) /\ \A k \in Loops : k # l => Q(k)' = Q(k)
      /\ pending' \in [Loops -> Seq(Functor)]
      /\ \A k \in Loops : k # l => pending'[k] = pending[k]
  BY <1>1, PushQ
<1>3. Q(l) \in Seq(Functor)
  BY QType
<1>4. PICK n \in Nat : n = Len(Q(l)) + 1
  BY <1>3
<1>5. /\ \A i \in Nat, o \in Ops, d \in Conns :
             At(l, i, o, d)' <=> At(l, i, o, d) \/ (i = n /\ o = op /\ d = c)
      /\ \A i \in Nat, o \in Ops, d \in Conns : At(l, i, o, d) => i < n
      /\ ListenQueued(l)' => ListenQueued(l)
  BY <1>1, <1>2, <1>3, <1>4, AtAppend, SMTT(30)
<1>6. \A k \in Loops : k # l =>
          /\ \A i \in Nat, o \in Ops, d \in Conns : At(k, i, o, d)' <=> At(k, i, o, d)
          /\ ListenQueued(k)' => ListenQueued(k)
  BY <1>2, AtSame
<1>7. \A d \in Conns \ {c}, k \in Loops : SameAt(k, d)
  BY <1>5, <1>6 DEF SameAt
<1>. QED
  BY <1>2, <1>5, <1>6, <1>7

(* ~TcpServer takes a connection out of the map: connectDestroyed runs in  *)
(* place, or is queued behind connectEstablished.                          *)
LEMMA DestroyConnectionStep ==
    ASSUME IInv, NEW c \in Conns, DestroyConnection(c), failed = "none"
    PROVE  IInv'
<1>. USE DEF IInv
<1>1. /\ server = "destroying" /\ c \in connections /\ connections' = connections \ {c}
      /\ UNCHANGED <<server, started, listening, pool, next, nextConnId, phase, batch, quit, told, loop>>
  BY DEF DestroyConnection, setup, counters
<1>2. Life(c) /\ Fun(c) /\ Own(c)
  BY DEF ConnInv
<1>3. state[c] # "none" /\ ~destroyed[c] /\ \A k \in Loops, i \in Nat : ~At(k, i, "connectDestroyed", c)
  BY <1>1, <1>2 DEF Own, Fun
<1>4. ~Serving /\ ~Serving'
  BY <1>1 DEF Serving
<1>5. PICK l \in Loops : l = loop[c]
  BY DEF TypeOK
<1>6. phase[l] # "exited"
  BY <1>1 DEF LoopInv
<1>7. CASE l = Base
  <2>1. Destroyed(c) /\ pending' = pending
    BY <1>5, <1>7 DEF DestroyConnection, RunsInBase
  <2>2. state[c] # "kConnecting"
    BY <1>2, <1>5, <1>7 DEF Own
  <2>3. /\ Life(c)' /\ destroyed'[c] /\ state'[c] # "none" /\ state'[c] # "kConnecting"
        /\ state[c] = "kDisconnected" => state'[c] = "kDisconnected"
        /\ IsUp(c)' => IsUp(c)
        /\ failed' # "none" => interest[c]
        /\ \A d \in Conns \ {c} : /\ state'[d] = state[d] /\ interest'[d] = interest[d]
                                  /\ added'[d] = added[d] /\ ups'[d] = ups[d] /\ downs'[d] = downs[d]
                                  /\ destroyed'[d] = destroyed[d]
        /\ state' \in [Conns -> {"none", "kConnecting", "kConnected", "kDisconnecting", "kDisconnected"}]
        /\ interest' \in [Conns -> BOOLEAN] /\ added' \in [Conns -> BOOLEAN]
        /\ ups' \in [Conns -> 0..1] /\ downs' \in [Conns -> 0..1] /\ destroyed' \in [Conns -> BOOLEAN]
    BY <1>1, <1>2, <1>3, <2>1, <2>2, DestroyedFacts
  <2>4. \A k \in Loops : Q(k)' = Q(k)
    BY <1>1, <2>1 DEF Q
  <2>5. \A k \in Loops : /\ \A i \in Nat, o \in Ops, d \in Conns : At(k, i, o, d)' = At(k, i, o, d)
                         /\ ListenQueued(k)' = ListenQueued(k)
    BY <2>4, AtSame
  <2>6. \A k \in Loops, i \in Nat, o \in Ops : ~At(k, i, o, c)
    BY <1>2, <1>3, <1>5, <1>7, <2>2 DEF Fun, Ops
  <2>7. Fun(c)'
    <3>1. \A k \in Loops, i \in Nat, o \in Ops : ~At(k, i, o, c)'
      BY <2>5, <2>6
    <3>. QED
      BY <3>1 DEF Fun, Ops
  <2>8. Own(c)'
    BY <1>1, <1>4, <2>3 DEF Own
  <2>9. ConnInv'
    <3>1. \A d \in Conns \ {c} : SameConn(d)
      BY <1>1, <2>3 DEF SameConn
    <3>2. \A d \in Conns \ {c}, k \in Loops : SameAt(k, d)
      BY <2>5 DEF SameAt
    <3>. QED
      BY <3>1, <3>2, <1>1, <1>4, <2>3, <2>7, <2>8, OthersKept
  <2>10. TypeOK'
    BY <1>1, <2>1, <2>3 DEF TypeOK
  <2>11. LoopInv' /\ StartInv'
    BY <1>1, <2>1, <2>5 DEF LoopInv, StartInv
  <2>12. PoolInv'
    <3>1. \A d \in Conns : state'[d] = "none" <=> state[d] = "none"
      BY <1>3, <2>3
    <3>. QED
      BY <3>1, <1>1, PoolKept
  <2>13. FailInv'
    BY <1>4 DEF FailInv
  <2>. QED
    BY <2>9, <2>10, <2>11, <2>12, <2>13
<1>8. CASE l # Base
  <2>1. /\ Push(l, [op |-> "connectDestroyed", c |-> c])
        /\ UNCHANGED <<state, interest, added, ups, downs, destroyed, failed>>
    BY <1>5, <1>8 DEF DestroyConnection, RunsInBase
  <2>0. "connectDestroyed" \in Ops
    BY DEF Ops
  <2>2. PICK n \in Nat :
           /\ \A i \in Nat, o \in Ops, d \in Conns :
                  At(l, i, o, d)' <=> At(l, i, o, d) \/ (i = n /\ o = "connectDestroyed" /\ d = c)
           /\ \A i \in Nat, o \in Ops, d \in Conns : At(l, i, o, d) => i < n
           /\ \A k \in Loops : k # l =>
                  \A i \in Nat, o \in Ops, d \in Conns : At(k, i, o, d)' <=> At(k, i, o, d)
           /\ \A d \in Conns \ {c}, k \in Loops : SameAt(k, d) \/ MovedUp(k, d)
           /\ \A k \in Loops : ListenQueued(k)' => ListenQueued(k)
           /\ pending' \in [Loops -> Seq(Functor)]
           /\ \A k \in Loops : k # l => pending'[k] = pending[k]
    BY <1>1, <2>0, <2>1, PushFacts
  <2>3. Life(c)'
    BY <1>1, <1>2, <2>1 DEF Life, IsUp
  <2>4. Fun(c)'
    <3>1. \A k \in Loops, i \in Nat, o \in Ops : o # "connectDestroyed" => (At(k, i, o, c)' <=> At(k, i, o, c))
      BY <2>2
    <3>2. ASSUME NEW k \in Loops, NEW i \in Nat, At(k, i, "connectDestroyed", c)' PROVE k = l /\ i = n
      BY <3>2, <1>3, <2>0, <2>2
    <3>3. state[c] = "kConnecting" => \E j \in Nat : j < n /\ At(l, j, "connectEstablished", c)
      <4>1. ASSUME state[c] = "kConnecting" PROVE Has(l, "connectEstablished", c)
        BY <4>1, <1>2, <1>5, <1>6 DEF Own
      <4>2. ASSUME NEW j \in Nat, At(l, j, "connectEstablished", c) PROVE j < n
        BY <4>2, <2>2 DEF Ops
      <4>. QED
        BY <4>1, <4>2 DEF Has
    <3>4. state[c] = "kConnecting" => \E j \in Nat : j < n /\ At(l, j, "connectEstablished", c)'
      BY <3>1, <3>3 DEF Ops
    <3>5. \A k \in Loops, i \in Nat : At(k, i, "connectEstablished", c)' => loop[c] = k /\ state[c] = "kConnecting"
      BY <3>1, <1>2 DEF Fun, Ops
    <3>6. \A k \in Loops, i \in Nat : At(k, i, "removeConnectionInLoop", c)' =>
             k = Base /\ loop[c] # Base /\ state[c] = "kDisconnected"
      BY <3>1, <1>2 DEF Fun, Ops
    <3>7. \A k \in Loops, i, j \in Nat, o \in Ops : At(k, i, o, c)' /\ At(k, j, o, c)' => i = j
      BY <3>1, <3>2, <1>2 DEF Fun
    <3>8. ASSUME NEW k \in Loops, NEW i \in Nat, At(k, i, "connectDestroyed", c)'
          PROVE  /\ loop'[c] = k /\ state'[c] # "none" /\ c \notin connections' /\ ~destroyed'[c]
                 /\ ~interest'[c] \/ (~Serving' /\ k # Base)
                 /\ state'[c] = "kConnecting" => \E j \in Nat : j < i /\ At(k, j, "connectEstablished", c)'
      <4>1. k = l /\ i = n
        BY <3>2, <3>8
      <4>. QED
        BY <4>1, <3>4, <1>1, <1>3, <1>4, <1>5, <1>8, <2>1
    <3>. QED
      BY <3>5, <3>6, <3>7, <3>8, <1>1, <1>4, <2>1 DEF Fun
  <2>5. Own(c)'
    <3>1. At(l, n, "connectDestroyed", c)'
      BY <2>0, <2>2
    <3>2. Has(loop[c], "connectDestroyed", c)'
      BY <3>1, <1>1, <1>5 DEF Has, At, Q
    <3>3. ASSUME state[c] = "kConnecting" PROVE Has(loop[c], "connectEstablished", c)'
      <4>1. Has(l, "connectEstablished", c)
        BY <3>3, <1>2, <1>5, <1>6 DEF Own
      <4>2. Has(l, "connectEstablished", c)'
        BY <4>1, <2>2 DEF Has, Ops
      <4>. QED
        BY <4>2, <1>1, <1>5 DEF Has, At, Q
    <3>4. state[c] = "kConnecting" => loop[c] # Base
      BY <1>5, <1>8
    <3>. QED
      BY <3>2, <3>3, <3>4, <1>1, <1>3, <1>4, <2>1 DEF Own
  <2>6. ConnInv'
    <3>1. \A d \in Conns \ {c} : SameConn(d)
      BY <1>1, <2>1 DEF SameConn
    <3>. QED
      BY <3>1, <1>1, <1>4, <2>1, <2>2, <2>3, <2>4, <2>5, OthersKept
  <2>7. TypeOK'
    BY <1>1, <2>1, <2>2 DEF TypeOK
  <2>8. LoopInv'
    BY <1>1, <1>6, <2>2 DEF LoopInv
  <2>9. StartInv'
    BY <1>1, <2>2 DEF StartInv
  <2>10. PoolInv'
    BY <1>1, <2>1, PoolKept
  <2>11. FailInv'
    BY <1>4 DEF FailInv
  <2>. QED
    BY <2>6, <2>7, <2>8, <2>9, <2>10, <2>11
<1>. QED
  BY <1>7, <1>8

(* handleClose: the connection goes down and its channel has no interests  *)
(* any more; it is taken out of the map in place, or the base loop is told *)
(* to do so.                                                               *)
LEMMA HandleCloseStep ==
    ASSUME IInv, NEW c \in Conns, HandleClose(c), failed = "none"
    PROVE  IInv'
<1>. USE DEF IInv
<1>1. /\ Running(loop[c]) /\ phase[loop[c]] = "events" /\ added[c] /\ interest[c]
      /\ state' = [state EXCEPT ![c] = "kDisconnected"] /\ interest' = [interest EXCEPT ![c] = FALSE]
      /\ downs' = [downs EXCEPT ![c] = downs[c] + 1]
      /\ UNCHANGED <<server, started, listening, pool, next, nextConnId, phase, batch, quit, told, loop, added, ups, destroyed>>
  BY DEF HandleClose, InterestAfterClose, setup, counters
<1>2. Life(c) /\ Fun(c) /\ Own(c)
  BY DEF ConnInv
<1>3. IsUp(c) /\ ~destroyed[c] /\ downs[c] = 0 /\ ups[c] = 1
  BY <1>1, <1>2 DEF Life, IsUp, TypeOK
<1>4. /\ state'[c] = "kDisconnected" /\ interest'[c] = FALSE /\ downs'[c] = 1
      /\ \A d \in Conns \ {c} : state'[d] = state[d] /\ interest'[d] = interest[d] /\ downs'[d] = downs[d]
  BY <1>1, <1>3 DEF TypeOK
<1>5. /\ state' \in [Conns -> {"none", "kConnecting", "kConnected", "kDisconnecting", "kDisconnected"}]
      /\ interest' \in [Conns -> BOOLEAN] /\ downs' \in [Conns -> 0..1]
  BY <1>1, <1>3 DEF TypeOK
<1>6. Serving' = Serving /\ Base \in Loops /\ phase[Base] # "exited"
  BY <1>1 DEF Serving, Loops, LoopInv
<1>7. Life(c)'
  BY <1>1, <1>2, <1>3, <1>4 DEF Life, IsUp
<1>8. \A k \in Loops, i \in Nat : ~At(k, i, "connectEstablished", c) /\ ~At(k, i, "removeConnectionInLoop", c)
  BY <1>2, <1>3 DEF Fun, IsUp
<1>9. PoolInv'
  <2>1. \A d \in Conns : state'[d] = "none" <=> state[d] = "none"
    BY <1>3, <1>4 DEF IsUp
  <2>. QED
    BY <2>1, <1>1, PoolKept
<1>10. \A d \in Conns : d # c => (d \in connections' <=> d \in connections)
  BY <1>1 DEF HandleClose, RemoveInLoop, Erased
<1>11. \A d \in Conns \ {c} : SameConn(d)
  BY <1>1, <1>4, <1>10 DEF SameConn
<1>12. state[c] \in {"kConnected", "kDisconnecting"}
  BY <1>3 DEF IsUp
<1>13. CASE loop[c] = Base
  <2>1. c \in connections
    <3>1. server = "alive" \/ server = "dead"
      BY <1>1, <1>13 DEF Running, BaseFree
    <3>2. CASE server = "alive"
      BY <3>2, <1>2, <1>3 DEF Own, Serving
    <3>3. CASE server = "dead"
      <4>1. connections = {} /\ phase[loop[c]] # "exited"
        BY <3>3, <1>1 DEF LoopInv
      <4>2. ~Has(Base, "connectDestroyed", c)
        BY <1>1, <1>2, <1>6 DEF Has, Fun
      <4>3. state[c] # "none"
        BY <1>12
      <4>. QED
        BY <4>1, <4>2, <4>3, <1>2, <1>3, <1>13 DEF Own
    <3>. QED
      BY <3>1, <3>2, <3>3
  <2>2. /\ connections' = connections \ {c} /\ failed' = failed
        /\ pending' = [pending EXCEPT ![Base] = pending[Base] \o <<[op |-> "connectDestroyed", c |-> c]>>]
    BY <1>12, <1>13, <2>1 DEF HandleClose, RunsInBase, RemoveInLoop, Erased, ToldToGo
  <2>3. Push(Base, [op |-> "connectDestroyed", c |-> c])
    <3>1. [op |-> "connectDestroyed", c |-> c] \in Functor /\ pending[Base] \in Seq(Functor)
      BY <1>6, QType DEF Functor
    <3>2. pending[Base] \o <<[op |-> "connectDestroyed", c |-> c]>> = Append(pending[Base], [op |-> "connectDestroyed", c |-> c])
      BY <3>1, ConcatOne
    <3>. QED
      BY <2>2, <3>2 DEF Push
  <2>4. "connectDestroyed" \in Ops
    BY DEF Ops
  <2>5. PICK n \in Nat :
           /\ \A i \in Nat, o \in Ops, d \in Conns :
                  At(Base, i, o, d)' <=> At(Base, i, o, d) \/ (i = n /\ o = "connectDestroyed" /\ d = c)
           /\ \A i \in Nat, o \in Ops, d \in Conns : At(Base, i, o, d) => i < n
           /\ \A k \in Loops : k # Base =>
                  \A i \in Nat, o \in Ops, d \in Conns : At(k, i, o, d)' <=> At(k, i, o, d)
           /\ \A d \in Conns \ {c}, k \in Loops : SameAt(k, d) \/ MovedUp(k, d)
           /\ \A k \in Loops : ListenQueued(k)' => ListenQueued(k)
           /\ pending' \in [Loops -> Seq(Functor)]
           /\ \A k \in Loops : k # Base => pending'[k] = pending[k]
    BY <1>1, <1>6, <2>3, <2>4, PushFacts
  <2>6. \A k \in Loops, i \in Nat : ~At(k, i, "connectDestroyed", c)
    BY <1>2, <2>1 DEF Fun
  <2>7. \A k \in Loops, i \in Nat, o \in Ops : At(k, i, o, c)' => k = Base /\ i = n /\ o = "connectDestroyed"
    BY <1>8, <2>5, <2>6 DEF Ops
  <2>8. Fun(c)'
    <3>1. c \notin connections' /\ ~destroyed'[c] /\ loop'[c] = Base
      BY <1>1, <1>3, <1>13, <2>2
    <3>2. \A k \in Loops, i \in Nat : ~At(k, i, "connectEstablished", c)' /\ ~At(k, i, "removeConnectionInLoop", c)'
      BY <2>7 DEF Ops
    <3>3. \A k \in Loops, i \in Nat : At(k, i, "connectDestroyed", c)' => k = Base
      BY <2>4, <2>7
    <3>4. \A k \in Loops, i, j \in Nat, o \in Ops : At(k, i, o, c)' /\ At(k, j, o, c)' => i = j
      BY <2>7
    <3>. QED
      BY <3>1, <3>2, <3>3, <3>4, <1>4 DEF Fun
  <2>9. Own(c)'
    <3>1. At(Base, n, "connectDestroyed", c)'
      BY <2>4, <2>5
    <3>2. Has(loop[c], "connectDestroyed", c)'
      BY <3>1, <1>1, <1>13 DEF Has, At, Q
    <3>. QED
      BY <3>2, <1>4, <2>2 DEF Own, IsUp
  <2>10. ConnInv'
    BY <1>1, <1>6, <1>7, <1>11, <2>2, <2>5, <2>8, <2>9, OthersKept
  <2>11. TypeOK'
    BY <1>1, <1>5, <2>2, <2>5 DEF TypeOK
  <2>12. LoopInv' /\ StartInv' /\ FailInv'
    BY <1>1, <1>6, <2>2, <2>5 DEF LoopInv, StartInv, FailInv
  <2>. QED
    BY <1>9, <2>10, <2>11, <2>12
<1>14. CASE loop[c] # Base
  <2>1. Push(Base, [op |-> "removeConnectionInLoop", c |-> c]) /\ UNCHANGED <<connections, failed>>
    BY <1>12, <1>14 DEF HandleClose, RunsInBase
  <2>2. "removeConnectionInLoop" \in Ops
    BY DEF Ops
  <2>3. PICK n \in Nat :
           /\ \A i \in Nat, o \in Ops, d \in Conns :
                  At(Base, i, o, d)' <=> At(Base, i, o, d) \/ (i = n /\ o = "removeConnectionInLoop" /\ d = c)
           /\ \A i \in Nat, o \in Ops, d \in Conns : At(Base, i, o, d) => i < n
           /\ \A k \in Loops : k # Base =>
                  \A i \in Nat, o \in Ops, d \in Conns : At(k, i, o, d)' <=> At(k, i, o, d)
           /\ \A d \in Conns \ {c}, k \in Loops : SameAt(k, d) \/ MovedUp(k, d)
           /\ \A k \in Loops : ListenQueued(k)' => ListenQueued(k)
           /\ pending' \in [Loops -> Seq(Functor)]
           /\ \A k \in Loops : k # Base => pending'[k] = pending[k]
    BY <1>1, <1>6, <2>1, <2>2, PushFacts
  <2>4. \A k \in Loops, i \in Nat, o \in Ops :
            o # "removeConnectionInLoop" => (At(k, i, o, c)' <=> At(k, i, o, c))
    BY <2>3
  <2>5. \A k \in Loops, i \in Nat : At(k, i, "removeConnectionInLoop", c)' => k = Base /\ i = n
    BY <1>8, <2>2, <2>3
  <2>6. Fun(c)'
    <3>1. Serving => c \in connections
      BY <1>2, <1>3 DEF Own
    <3>2. \A k \in Loops, i \in Nat : ~At(k, i, "connectEstablished", c)'
      BY <1>8, <2>4 DEF Ops
    <3>3. \A k \in Loops, i \in Nat : At(k, i, "connectDestroyed", c)' => loop[c] = k /\ c \notin connections
      BY <1>2, <2>4 DEF Fun, Ops
    <3>4. \A k \in Loops, i, j \in Nat, o \in Ops : At(k, i, o, c)' /\ At(k, j, o, c)' => i = j
      BY <1>2, <2>4, <2>5 DEF Fun
    <3>. QED
      BY <3>1, <3>2, <3>3, <3>4, <1>1, <1>3, <1>4, <1>6, <1>14, <2>1, <2>5 DEF Fun
  <2>7. Own(c)'
    <3>1. PICK l \in Loops : l = loop[c]
      BY DEF TypeOK
    <3>2. Has(l, "connectDestroyed", c)' <=> Has(l, "connectDestroyed", c)
      BY <2>4, <3>1 DEF Has, Ops
    <3>3. Has(loop[c], "connectDestroyed", c)' <=> Has(l, "connectDestroyed", c)'
      BY <1>1, <3>1 DEF Has, At, Q
    <3>4. c \in connections \/ Has(loop[c], "connectDestroyed", c) \/ phase[loop[c]] = "exited"
      BY <1>2, <1>3, <1>12 DEF Own
    <3>. QED
      BY <3>1, <3>2, <3>3, <3>4, <1>1, <1>3, <1>4, <2>1 DEF Own, IsUp
  <2>8. ConnInv'
    BY <1>1, <1>6, <1>7, <1>11, <2>1, <2>3, <2>6, <2>7, OthersKept
  <2>9. TypeOK'
    BY <1>1, <1>5, <2>1, <2>3 DEF TypeOK
  <2>10. LoopInv' /\ StartInv' /\ FailInv'
    BY <1>1, <1>6, <2>1, <2>3 DEF LoopInv, StartInv, FailInv
  <2>. QED
    BY <1>9, <2>8, <2>9, <2>10
<1>. QED
  BY <1>13, <1>14

(* removeConnectionInLoop in the base loop: the connection leaves the map, *)
(* and its loop is told to run connectDestroyed; without a server there is *)
(* nothing to call.                                                        *)
LEMMA RunRemoveStep ==
    ASSUME IInv, RunRemove, failed = "none"
    PROVE  IInv'
<1>. USE DEF IInv
<1>0. Base \in Loops /\ "removeConnectionInLoop" \in Ops
  BY DEF Loops, Ops
<1>1. /\ Runs(Base, "removeConnectionInLoop") /\ Taken(Base)
      /\ UNCHANGED <<server, started, listening, pool, next, nextConnId, phase, quit, told,
                     loop, state, interest, added, ups, downs, destroyed>>
  BY DEF RunRemove, setup, counters, conns
<1>2. phase[Base] = "run" /\ batch[Base] # <<>> /\ Head(batch[Base]).op = "removeConnectionInLoop"
  BY <1>1 DEF Runs
<1>3. /\ batch' \in [Loops -> Seq(Functor)] /\ Q(Base) # <<>> /\ Head(Q(Base)) = Head(batch[Base])
      /\ pending'[Base] = pending[Base] => Q(Base)' = Tail(Q(Base))
      /\ \A k \in Loops : k # Base => batch'[k] = batch[k]
  BY <1>0, <1>1, <1>2, TakeQ
<1>4. Q(Base) \in Seq(Functor)
  BY <1>0, QType
<1>5. PICK c \in Conns :
      /\ c = Head(batch[Base]).c
      /\ At(Base, 1, "removeConnectionInLoop", c)
      /\ \A o \in Ops, d \in Conns : At(Base, 1, o, d) => o = "removeConnectionInLoop" /\ d = c
  BY <1>0, <1>2, <1>3, <1>4, HeadAt
<1>6. Life(c) /\ Fun(c) /\ Own(c)
  BY DEF ConnInv
<1>7. loop[c] # Base /\ state[c] = "kDisconnected" /\ (Serving => c \in connections) /\ ~interest[c]
  BY <1>0, <1>5, <1>6 DEF Fun, Life
<1>8. Serving' = Serving /\ phase[Base] # "exited"
  BY <1>1, <1>2 DEF Serving
<1>9. PoolInv'
  BY <1>1, PoolKept
<1>10. PICK l \in Loops : l = loop[c]
  BY DEF TypeOK
<1>11. CASE server = "alive"
  <2>1. c \in connections /\ Serving
    BY <1>7, <1>11 DEF Serving
  <2>2. /\ connections' = connections \ {c} /\ failed' = failed
        /\ pending' = [pending EXCEPT ![l] = pending[l] \o <<[op |-> "connectDestroyed", c |-> c]>>]
    BY <1>5, <1>10, <1>11, <2>1 DEF RunRemove, RemoveInLoop, Erased, ToldToGo
  <2>3. PICK f \in Functor : f.op = "connectDestroyed" /\ f.c = c /\ f = [op |-> "connectDestroyed", c |-> c]
    BY DEF Functor
  <2>4. Push(l, f)
    <3>1. pending[l] \in Seq(Functor)
      BY QType
    <3>2. pending[l] \o <<f>> = Append(pending[l], f)
      BY <3>1, ConcatOne
    <3>. QED
      BY <2>2, <2>3, <3>2 DEF Push
  <2>5. l # Base /\ batch'[l] = batch[l]
    BY <1>3, <1>7, <1>10
  <2>6. /\ Q(l)' = Append(Q(l), f) /\ \A k \in Loops : k # l /\ batch'[k] = batch[k] => Q(k)' = Q(k)
        /\ pending' \in [Loops -> Seq(Functor)]
        /\ \A k \in Loops : k # l => pending'[k] = pending[k]
    BY <2>4, <2>5, PushQ
  <2>7. Q(Base)' = Tail(Q(Base))
    BY <1>0, <1>3, <2>5, <2>6
  <2>8. /\ \A i \in Nat, o \in Ops, d \in Conns : At(Base, i, o, d)' <=> i >= 1 /\ At(Base, i + 1, o, d)
        /\ \A i \in Nat, o \in Ops, d \in Conns : At(Base, i, o, d) => i >= 1
        /\ ListenQueued(Base)' => ListenQueued(Base)
    BY <1>0, <1>3, <1>4, <2>7, AtTail
  <2>9. Q(l) \in Seq(Functor) /\ "connectDestroyed" \in Ops
    BY QType DEF Ops
  <2>10. PICK n \in Nat : n = Len(Q(l)) + 1
    BY <2>9
  <2>11. /\ \A i \in Nat, o \in Ops, d \in Conns :
               At(l, i, o, d)' <=> At(l, i, o, d) \/ (i = n /\ o = "connectDestroyed" /\ d = c)
         /\ ListenQueued(l)' => ListenQueued(l)
    BY <2>3, <2>6, <2>9, <2>10, AtAppend, SMTT(30)
  <2>12. \A k \in Loops : k # l /\ k # Base =>
             /\ \A i \in Nat, o \in Ops, d \in Conns : At(k, i, o, d)' <=> At(k, i, o, d)
             /\ ListenQueued(k)' => ListenQueued(k)
    BY <1>3, <2>6, AtSame
  <2>13. \A d \in Conns \ {c}, k \in Loops : SameAt(k, d) \/ MovedUp(k, d)
    <3>. TAKE d \in Conns \ {c}, k \in Loops
    <3>1. CASE k = Base
      BY <3>1, <1>5, <2>8 DEF MovedUp
    <3>2. CASE k = l
      BY <3>2, <2>11 DEF SameAt
    <3>3. CASE k # l /\ k # Base
      BY <3>3, <2>12 DEF SameAt
    <3>. QED
      BY <3>1, <3>2, <3>3
  <2>14. \A k \in Loops, i \in Nat :
             ~At(k, i, "connectEstablished", c) /\ ~At(k, i, "connectDestroyed", c)
    BY <1>6, <1>7, <2>1 DEF Fun
  <2>15. \A k \in Loops, i \in Nat, o \in Ops : At(k, i, o, c)' => k = l /\ i = n /\ o = "connectDestroyed"
    <3>. SUFFICES ASSUME NEW k \in Loops, NEW i \in Nat, NEW o \in Ops, At(k, i, o, c)'
                  PROVE  k = l /\ i = n /\ o = "connectDestroyed"
      OBVIOUS
    <3>1. CASE k = Base
      <4>1. i >= 1 /\ i + 1 \in Nat /\ At(Base, i + 1, o, c)
        BY <3>1, <2>8
      <4>2. o = "removeConnectionInLoop"
        BY <1>0, <4>1, <2>14 DEF Ops
      <4>3. i + 1 = 1
        BY <1>0, <1>5, <1>6, <4>1, <4>2 DEF Fun
      <4>. QED
        BY <4>1, <4>3
    <3>2. CASE k = l
      <4>1. ~At(l, i, o, c)
        BY <1>6, <2>5, <2>14 DEF Fun, Ops
      <4>. QED
        BY <3>2, <4>1, <2>11
    <3>3. CASE k # l /\ k # Base
      <4>1. At(k, i, o, c)
        BY <3>3, <2>12
      <4>. QED
        BY <3>3, <4>1, <1>6, <2>14 DEF Fun, Ops
    <3>. QED
      BY <3>1, <3>2, <3>3
  <2>16. Life(c)'
    BY <1>1, <1>6, <2>2 DEF Life, IsUp
  <2>17. Fun(c)'
    <3>1. c \notin connections' /\ ~destroyed'[c] /\ loop'[c] = l /\ ~interest'[c] /\ state'[c] = "kDisconnected"
      BY <1>1, <1>6, <1>7, <1>10, <2>1, <2>2 DEF Own
    <3>2. \A k \in Loops, i \in Nat : ~At(k, i, "connectEstablished", c)' /\ ~At(k, i, "removeConnectionInLoop", c)'
      BY <2>15 DEF Ops
    <3>3. \A k \in Loops, i \in Nat : At(k, i, "connectDestroyed", c)' => k = l
      BY <2>9, <2>15
    <3>4. \A k \in Loops, i, j \in Nat, o \in Ops : At(k, i, o, c)' /\ At(k, j, o, c)' => i = j
      BY <2>15
    <3>. QED
      BY <3>1, <3>2, <3>3, <3>4 DEF Fun
  <2>18. Own(c)'
    <3>1. At(l, n, "connectDestroyed", c)'
      BY <2>9, <2>11
    <3>2. Has(loop[c], "connectDestroyed", c)'
      BY <3>1, <1>1, <1>10 DEF Has, At, Q
    <3>. QED
      BY <3>2, <1>1, <1>7, <2>2 DEF Own, IsUp
  <2>19. ConnInv'
    <3>1. \A d \in Conns \ {c} : SameConn(d)
      BY <1>1, <2>2 DEF SameConn
    <3>. QED
      BY <3>1, <1>1, <1>8, <2>2, <2>13, <2>16, <2>17, <2>18, OthersKept
  <2>20. TypeOK'
    BY <1>1, <1>3, <2>2, <2>6 DEF TypeOK
  <2>21. LoopInv'
    BY <1>1, <1>2, <1>3, <1>11, <2>2, <2>6 DEF LoopInv
  <2>22. StartInv' /\ FailInv'
    BY <1>1, <1>8, <2>2, <2>8, <2>11, <2>12 DEF StartInv, FailInv
  <2>. QED
    BY <1>9, <2>19, <2>20, <2>21, <2>22
<1>12. CASE server = "dead"
  <2>1. UNCHANGED <<connections, pending>> /\ failed' = "removeConnectionInLoop: no server"
    BY <1>12 DEF RunRemove
  <2>2. /\ \A i \in Nat, o \in Ops, d \in Conns : At(Base, i, o, d)' <=> i >= 1 /\ At(Base, i + 1, o, d)
        /\ \A i \in Nat, o \in Ops, d \in Conns : At(Base, i, o, d) => i >= 1
        /\ ListenQueued(Base)' => ListenQueued(Base)
    <3>1. Q(Base)' = Tail(Q(Base))
      BY <1>3, <2>1
    <3>. QED
      BY <3>1, <1>0, <1>3, <1>4, AtTail
  <2>3. \A k \in Loops : k # Base =>
             /\ \A i \in Nat, o \in Ops, d \in Conns : At(k, i, o, d)' <=> At(k, i, o, d)
             /\ ListenQueued(k)' => ListenQueued(k)
    <3>1. \A k \in Loops : k # Base => Q(k)' = Q(k)
      BY <1>3, <2>1 DEF Q
    <3>. QED
      BY <3>1, AtSame
  <2>4. \A d \in Conns \ {c}, k \in Loops : SameAt(k, d) \/ MovedUp(k, d)
    <3>. TAKE d \in Conns \ {c}, k \in Loops
    <3>1. CASE k = Base
      BY <3>1, <1>5, <2>2 DEF MovedUp
    <3>2. CASE k # Base
      BY <3>2, <2>3 DEF SameAt
    <3>. QED
      BY <3>1, <3>2
  <2>5. ~Serving
    BY <1>12 DEF Serving
  <2>6. \A k \in Loops, i \in Nat, o \in Ops : At(k, i, o, c)' => \E j \in {i, i + 1} : At(k, j, o, c)
    BY <2>2, <2>3
  <2>7. Fun(c)'
    <3>1. \A k \in Loops, i \in Nat : ~At(k, i, "connectEstablished", c)'
      BY <1>6, <1>7, <2>6 DEF Fun, Ops
    <3>2. \A k \in Loops, i \in Nat : At(k, i, "removeConnectionInLoop", c)' => k = Base
      BY <1>0, <1>6, <2>6 DEF Fun
    <3>3. ASSUME NEW k \in Loops, NEW i \in Nat, At(k, i, "connectDestroyed", c)'
          PROVE  k = l /\ c \notin connections /\ ~destroyed[c]
      <4>1. PICK j \in {i, i + 1} : At(k, j, "connectDestroyed", c)
        BY <2>6, <3>3 DEF Ops
      <4>. QED
        BY <4>1, <1>6, <1>10 DEF Fun
    <3>4. ASSUME NEW k \in Loops, NEW i \in Nat, NEW j \in Nat, NEW o \in Ops, At(k, i, o, c)', At(k, j, o, c)'
          PROVE  i = j
      <4>1. CASE k = Base
        <5>1. i + 1 \in Nat /\ j + 1 \in Nat /\ At(Base, i + 1, o, c) /\ At(Base, j + 1, o, c)
          BY <3>4, <4>1, <2>2
        <5>2. i + 1 = j + 1
          BY <5>1, <1>0, <1>6 DEF Fun
        <5>. QED
          BY <5>2
      <4>2. CASE k # Base
        BY <3>4, <4>2, <2>3, <1>6 DEF Fun
      <4>. QED
        BY <4>1, <4>2
    <3>. QED
      BY <3>1, <3>2, <3>3, <3>4, <1>1, <1>7, <1>8, <1>10, <2>1, <2>5 DEF Fun
  <2>8. Own(c)'
    <3>1. Has(l, "connectDestroyed", c)' <=> Has(l, "connectDestroyed", c)
      BY <2>3, <1>7, <1>10 DEF Has, Ops
    <3>2. Has(loop[c], "connectDestroyed", c)' <=> Has(l, "connectDestroyed", c)'
      BY <1>1, <1>10 DEF Has, At, Q
    <3>. QED
      BY <3>1, <3>2, <1>1, <1>6, <1>7, <1>8, <1>10, <2>1, <2>5 DEF Own
  <2>9. ConnInv'
    <3>1. \A d \in Conns \ {c} : SameConn(d)
      BY <1>1, <2>1 DEF SameConn
    <3>2. Life(c)'
      BY <1>1, <1>6, <2>1 DEF Life, IsUp
    <3>. QED
      BY <3>1, <3>2, <1>1, <1>8, <2>1, <2>4, <2>7, <2>8, OthersKept
  <2>10. TypeOK'
    BY <1>1, <1>3, <2>1 DEF TypeOK
  <2>11. LoopInv'
    BY <1>1, <1>2, <1>3, <2>1 DEF LoopInv
  <2>12. StartInv' /\ FailInv'
    BY <1>1, <1>8, <2>1, <2>2, <2>3, <2>5 DEF StartInv, FailInv
  <2>. QED
    BY <1>9, <2>9, <2>10, <2>11, <2>12
<1>. QED
  BY <1>11, <1>12 DEF RunRemove

(* newConnection numbers the connection, puts it in the map, and gives it  *)
(* to the next loop of the pool, or to the base loop.                      *)
LEMMA NewConnectionStep ==
    ASSUME IInv, NEW c \in Conns, NewConnection(c), failed = "none"
    PROVE  IInv'
<1>. USE DEF IInv
<1>1. /\ server = "alive" /\ listening /\ c = nextConnId /\ nextConnId' = c + 1
      /\ connections' = connections \cup {c}
      /\ UNCHANGED <<server, started, listening, pool, phase, batch, quit, told, failed>>
  BY DEF NewConnection
<1>2. Life(c) /\ Fun(c) /\ Own(c)
  BY DEF ConnInv
<1>3. /\ state[c] = "none" /\ ups[c] = 0 /\ downs[c] = 0 /\ ~interest[c] /\ ~added[c] /\ ~destroyed[c]
      /\ c \notin connections
  <2>1. c >= nextConnId
    BY <1>1 DEF TypeOK
  <2>. QED
    BY <2>1, <1>2 DEF Life, Own
<1>4. \A k \in Loops, i \in Nat, o \in Ops : ~At(k, i, o, c)
  BY <1>2, <1>3 DEF Fun, Ops
<1>5. /\ nextConnId' \in 1..(MaxConns + 1) /\ ~(c >= nextConnId')
      /\ \A d \in Conns \ {c} : d >= nextConnId' <=> d >= nextConnId
  BY <1>1, MaxConnsAssumption DEF Conns
<1>6. Serving /\ Serving'
  BY <1>1 DEF Serving
<1>7. \A k \in Loops : phase[k] # "exited"
  BY <1>1 DEF LoopInv
<1>8. connections' \subseteq Conns
  BY <1>1 DEF TypeOK
<1>9. started
  BY <1>1 DEF StartInv
<1>10. CASE pool = <<>>
  <2>1. /\ next' = next /\ loop' = [loop EXCEPT ![c] = Base] /\ pending' = pending
        /\ state' = [state EXCEPT ![c] = "kConnected"] /\ interest' = [interest EXCEPT ![c] = TRUE]
        /\ added' = [added EXCEPT ![c] = TRUE] /\ ups' = [ups EXCEPT ![c] = ups[c] + 1]
        /\ UNCHANGED <<downs, destroyed>>
    BY <1>10 DEF NewConnection, RunsInBase, Established
  <2>2. Base \in Loops
    BY DEF Loops
  <2>3. TypeOK'
    <3>1. ups' \in [Conns -> 0..1]
      BY <1>3, <2>1 DEF TypeOK
    <3>2. loop' \in [Conns -> Loops]
      BY <2>1, <2>2 DEF TypeOK
    <3>. QED
      BY <3>1, <3>2, <1>1, <1>5, <1>8, <2>1 DEF TypeOK
  <2>4. /\ state'[c] = "kConnected" /\ interest'[c] = TRUE /\ added'[c] = TRUE /\ ups'[c] = 1
        /\ downs'[c] = 0 /\ ~destroyed'[c] /\ loop'[c] = Base
    BY <1>3, <2>1 DEF TypeOK
  <2>5. \A d \in Conns \ {c} : SameConn(d)
    BY <1>1, <2>1 DEF SameConn, TypeOK
  <2>6. \A k \in Loops : Q(k)' = Q(k)
    BY <1>1, <2>1 DEF Q
  <2>7. \A k \in Loops : /\ \A i \in Nat, o \in Ops, d \in Conns : At(k, i, o, d)' = At(k, i, o, d)
                         /\ ListenQueued(k)' = ListenQueued(k)
    BY <2>6, AtSame
  <2>8. Life(c)'
    BY <1>5, <2>4 DEF Life, IsUp
  <2>9. Fun(c)'
    <3>1. \A k \in Loops, i \in Nat, o \in Ops : ~At(k, i, o, c)'
      BY <1>4, <2>7
    <3>. QED
      BY <3>1 DEF Fun, Ops
  <2>10. Own(c)'
    BY <1>1, <2>4 DEF Own
  <2>11. ConnInv'
    <3>1. \A d \in Conns \ {c}, k \in Loops : SameAt(k, d)
      BY <2>7 DEF SameAt
    <3>. QED
      BY <3>1, <1>1, <1>5, <1>6, <2>5, <2>8, <2>9, <2>10, OthersKept
  <2>12. LoopInv' /\ StartInv' /\ FailInv'
    BY <1>1, <1>6, <1>9, <2>1, <2>7 DEF LoopInv, StartInv, FailInv
  <2>13. PoolInv'
    <3>1. pool' = <<>> /\ DOMAIN pool' = {} /\ Len(pool) = 0 /\ Len(pool') <= Len(IoLoops)
      BY <1>1, <1>10 DEF PoolInv
    <3>2. next' = 1
      BY <3>1, <2>1 DEF PoolInv
    <3>3. 0 \in Nat /\ \A i \in DOMAIN pool' : Cardinality(OnLoop(i)') = IF i < next' THEN 0 + 1 ELSE 0
      BY <3>1
    <3>4. \E q \in Nat : \A i \in DOMAIN pool' : Cardinality(OnLoop(i)') = IF i < next' THEN q + 1 ELSE q
      BY <3>3
    <3>. QED
      BY <3>1, <3>2, <3>4 DEF PoolInv
  <2>. QED
    BY <2>3, <2>11, <2>12, <2>13
<1>11. CASE pool # <<>>
  <2>1. /\ next \in 1..Len(pool) /\ next \in DOMAIN pool /\ DOMAIN pool = 1..Len(pool) /\ Len(pool) \in Nat
        /\ next \in Nat
    BY <1>11 DEF PoolInv, TypeOK
  <2>2. PICK l \in Loops : l = pool[next] /\ l # Base
    BY <2>1 DEF LoopInv, TypeOK
  <2>3. /\ next' = IF next + 1 > Len(pool) THEN 1 ELSE next + 1
        /\ loop' = [loop EXCEPT ![c] = l]
        /\ state' = [state EXCEPT ![c] = "kConnecting"]
        /\ Push(l, [op |-> "connectEstablished", c |-> c])
        /\ UNCHANGED <<interest, added, ups, downs, destroyed>>
    BY <1>11, <2>2 DEF NewConnection, RunsInBase, Following
  <2>4. "connectEstablished" \in Ops
    BY DEF Ops
  <2>5. PICK n \in Nat :
           /\ \A i \in Nat, o \in Ops, d \in Conns :
                  At(l, i, o, d)' <=> At(l, i, o, d) \/ (i = n /\ o = "connectEstablished" /\ d = c)
           /\ \A i \in Nat, o \in Ops, d \in Conns : At(l, i, o, d) => i < n
           /\ \A k \in Loops : k # l =>
                  \A i \in Nat, o \in Ops, d \in Conns : At(k, i, o, d)' <=> At(k, i, o, d)
           /\ \A d \in Conns \ {c}, k \in Loops : SameAt(k, d) \/ MovedUp(k, d)
           /\ \A k \in Loops : ListenQueued(k)' => ListenQueued(k)
           /\ pending' \in [Loops -> Seq(Functor)]
           /\ \A k \in Loops : k # l => pending'[k] = pending[k]
    <3>1. Push(l, [op |-> "connectEstablished", c |-> c]) /\ batch' = batch
      BY <1>1, <2>3
    <3>. QED
      BY <3>1, <2>4, PushFacts
  <2>6. next' \in 1..Len(pool) /\ next' \in 1..(Len(IoLoops) + 1)
    <3>1. Len(pool) <= Len(IoLoops) /\ Len(IoLoops) \in Nat
      BY LoopsAssumption DEF PoolInv
    <3>. QED
      BY <3>1, <2>1, <2>3
  <2>7. TypeOK'
    BY <1>1, <1>5, <1>8, <2>3, <2>5, <2>6 DEF TypeOK
  <2>8. state'[c] = "kConnecting" /\ loop'[c] = l
    BY <2>3 DEF TypeOK
  <2>9. \A d \in Conns \ {c} : SameConn(d)
    BY <1>1, <2>3 DEF SameConn, TypeOK
  <2>10. Life(c)'
    BY <1>3, <1>5, <2>3, <2>8 DEF Life, IsUp
  <2>11. \A k \in Loops, i \in Nat, o \in Ops : At(k, i, o, c)' => k = l /\ i = n /\ o = "connectEstablished"
    BY <1>4, <2>5
  <2>12. Fun(c)'
    <3>1. \A k \in Loops, i \in Nat : ~At(k, i, "connectDestroyed", c)' /\ ~At(k, i, "removeConnectionInLoop", c)'
      BY <2>11 DEF Ops
    <3>2. \A k \in Loops, i \in Nat : At(k, i, "connectEstablished", c)' => k = l
      BY <2>4, <2>11
    <3>3. \A k \in Loops, i, j \in Nat, o \in Ops : At(k, i, o, c)' /\ At(k, j, o, c)' => i = j
      BY <2>11
    <3>. QED
      BY <3>1, <3>2, <3>3, <2>8 DEF Fun
  <2>13. Own(c)'
    <3>1. At(l, n, "connectEstablished", c)'
      BY <2>4, <2>5
    <3>2. Has(loop[c], "connectEstablished", c)'
      BY <3>1, <2>8 DEF Has, At, Q
    <3>. QED
      BY <3>2, <1>1, <1>3, <2>2, <2>3, <2>8 DEF Own
  <2>14. ConnInv'
    BY <1>1, <1>5, <1>6, <2>5, <2>9, <2>10, <2>12, <2>13, OthersKept
  <2>15. LoopInv' /\ StartInv' /\ FailInv'
    BY <1>1, <1>6, <1>7, <1>9, <2>5 DEF LoopInv, StartInv, FailInv
  <2>16. PoolInv'
    <3>1. PICK q \in Nat : \A i \in DOMAIN pool : Cardinality(OnLoop(i)) = IF i < next THEN q + 1 ELSE q
      BY DEF PoolInv
    <3>2. \A i \in DOMAIN pool : i # next => OnLoop(i)' = OnLoop(i)
      <4>1. \A i \in DOMAIN pool : i # next => pool[i] # l
        BY <2>1, <2>2 DEF PoolInv
      <4>2. \A i \in DOMAIN pool, d \in Conns : i # next =>
                (state'[d] # "none" /\ loop'[d] = pool'[i] <=> state[d] # "none" /\ loop[d] = pool[i])
        BY <4>1, <1>1, <1>3, <2>8, <2>9 DEF SameConn
      <4>. QED
        BY <4>2 DEF OnLoop
    <3>3. OnLoop(next) = {d \in Conns : state[d] # "none" /\ loop[d] = l}
      BY <2>2 DEF OnLoop
    <3>4. PICK m \in DOMAIN pool : m = next
      BY <2>1
    <3>5. OnLoop(m)' = OnLoop(m) \cup {c} /\ c \notin OnLoop(m)
      <4>1. pool'[m] = l /\ pool[m] = l
        BY <1>1, <2>2, <3>4
      <4>2. \A d \in Conns : (state'[d] # "none" /\ loop'[d] = pool'[m])
                <=> (state[d] # "none" /\ loop[d] = pool[m]) \/ d = c
        BY <4>1, <2>8, <2>9 DEF SameConn
      <4>. QED
        BY <4>2, <1>3 DEF OnLoop
    <3>6. IsFiniteSet(OnLoop(m))
      <4>1. IsFiniteSet(Conns)
        BY MaxConnsAssumption, FS_Interval DEF Conns
      <4>2. OnLoop(m) \subseteq Conns
        BY DEF OnLoop
      <4>. QED
        BY <4>1, <4>2, FS_Subset
    <3>7. Cardinality(OnLoop(m)') = q + 1
      <4>1. Cardinality(OnLoop(m)) = q
        BY <3>1, <3>4, <2>1
      <4>2. Cardinality(OnLoop(m) \cup {c}) = Cardinality(OnLoop(m)) + 1
        BY <3>5, <3>6, FS_AddElement
      <4>. QED
        BY <4>1, <4>2, <3>5
    <3>8. \E p \in Nat : \A i \in DOMAIN pool : Cardinality(OnLoop(i)') = IF i < next' THEN p + 1 ELSE p
      <4>1. CASE next + 1 > Len(pool)
        <5>1. next' = 1 /\ \A i \in DOMAIN pool : ~(i < next') /\ (i # m => i < next)
          BY <4>1, <2>1, <2>3, <3>4
        <5>2. \A i \in DOMAIN pool : Cardinality(OnLoop(i)') = q + 1
          BY <5>1, <3>1, <3>2, <3>4, <3>7
        <5>. QED
          BY <5>1, <5>2
      <4>2. CASE ~(next + 1 > Len(pool))
        <5>1. next' = next + 1 /\ \A i \in DOMAIN pool : i # m => (i < next' <=> i < next)
          BY <4>2, <2>1, <2>3, <3>4
        <5>2. m < next'
          BY <5>1, <2>1, <3>4
        <5>3. \A i \in DOMAIN pool : Cardinality(OnLoop(i)') = IF i < next' THEN q + 1 ELSE q
          BY <5>1, <5>2, <3>1, <3>2, <3>4, <3>7
        <5>. QED
          BY <5>3
      <4>. QED
        BY <4>1, <4>2
    <3>. QED
      BY <3>8, <1>1, <2>6 DEF PoolInv
  <2>. QED
    BY <2>7, <2>14, <2>15, <2>16
<1>. QED
  BY <1>10, <1>11
-----------------------------------------------------------------------------
(* The invariant, and what follows from it.                                *)

(* Initially there are no connections and nothing is queued.               *)
LEMMA InitHolds == Init => IInv
<1>. SUFFICES ASSUME Init PROVE IInv
  OBVIOUS
<1>. USE DEF Init
<1>1. Len(IoLoops) \in Nat /\ Base \in Loops
  BY LoopsAssumption DEF Loops
<1>2. TypeOK
  <2>1. <<>> \in Seq(Functor) /\ <<>> \in Seq(Loops)
    OBVIOUS
  <2>2. next \in 1..(Len(IoLoops) + 1) /\ nextConnId \in 1..(MaxConns + 1)
    BY <1>1, MaxConnsAssumption
  <2>3. pending \in [Loops -> Seq(Functor)] /\ batch \in [Loops -> Seq(Functor)]
    BY <2>1
  <2>4. ups \in [Conns -> 0..1] /\ downs \in [Conns -> 0..1]
    OBVIOUS
  <2>5. /\ interest \in [Conns -> BOOLEAN] /\ added \in [Conns -> BOOLEAN] /\ destroyed \in [Conns -> BOOLEAN]
        /\ quit \in [Loops -> BOOLEAN] /\ told \in [Loops -> BOOLEAN]
        /\ started \in BOOLEAN /\ listening \in BOOLEAN
    BY Zenon
  <2>6. /\ pool \in Seq(Loops) /\ connections \subseteq Conns /\ loop \in [Conns -> Loops]
        /\ phase \in [Loops -> {"entering", "events", "run", "exited"}]
        /\ state \in [Conns -> {"none", "kConnecting", "kConnected", "kDisconnecting", "kDisconnected"}]
        /\ server \in {"alive", "starting", "destroying", "joining", "dead"}
    BY <1>1, <2>1
  <2>. QED
    BY <2>2, <2>3, <2>4, <2>5, <2>6, Zenon DEF TypeOK
<1>3. \A k \in Loops : Q(k) = <<>>
  <2>1. \A k \in Loops : batch[k] = <<>> /\ pending[k] = <<>>
    OBVIOUS
  <2>. QED
    BY <2>1 DEF Q
<1>4. \A k \in Loops : /\ \A i \in Nat, o \in Ops, d \in Conns : ~At(k, i, o, d)
                       /\ ~ListenQueued(k)
  BY <1>3, AtEmpty
<1>5. LoopInv
  <2>1. DOMAIN pool = {}
    OBVIOUS
  <2>. QED
    BY <2>1 DEF LoopInv
<1>6. StartInv
  BY <1>4 DEF StartInv
<1>7. ConnInv
  <2>. SUFFICES ASSUME NEW c \in Conns PROVE Life(c) /\ Fun(c) /\ Own(c)
    BY DEF ConnInv
  <2>1. Life(c)
    BY MaxConnsAssumption DEF Life, IsUp, Conns
  <2>2. Fun(c)
    BY <1>4 DEF Fun, Ops
  <2>3. Own(c)
    BY DEF Own, IsUp
  <2>. QED
    BY <2>1, <2>2, <2>3
<1>8. FailInv
  BY DEF FailInv
<1>9. PoolInv
  <2>1. DOMAIN pool = {} /\ Len(pool) = 0 /\ Len(pool) <= Len(IoLoops)
    BY <1>1
  <2>2. 0 \in Nat /\ \A i \in DOMAIN pool : Cardinality(OnLoop(i)) = IF i < next THEN 0 + 1 ELSE 0
    BY <2>1
  <2>. QED
    BY <2>1, <2>2 DEF PoolInv
<1>. QED
  BY <1>2, <1>5, <1>6, <1>7, <1>8, <1>9 DEF IInv

(* Every step keeps the invariant.                                         *)
LEMMA InductiveInvariant == IInv /\ [Next]_vars => IInv'
<1>. SUFFICES ASSUME IInv, [Next]_vars PROVE IInv'
  OBVIOUS
<1>1. CASE UNCHANGED vars
  BY <1>1, QuietSteps
<1>2. CASE Next
  <2>0. failed = "none"
    BY <1>2 DEF Next
  <2>1. CASE \E n \in 0..Len(IoLoops) : StartPool(n)
    BY <2>0, <2>1, StartPoolStep
  <2>2. CASE StartOutsideFirst \/ DestroyServer
    BY <2>0, <2>2, QuietSteps
  <2>3. CASE StartOutsideAgain
    BY <2>0, <2>3, StartAgainStep
  <2>4. CASE \E c \in Conns : NewConnection(c) \/ HandleClose(c) \/ Shutdown(c)
    BY <2>0, <2>4, NewConnectionStep, HandleCloseStep, ShutdownStep
  <2>5. CASE \E l \in Loops : LoopStep(l)
    BY <2>0, <2>5, EnterLoopStep, SwapStep, EndBatchStep, EstablishedStep, DestroyedStep DEF LoopStep
  <2>6. CASE BaseStep
    BY <2>0, <2>6, QuietSteps, RunListenStep, RunRemoveStep DEF BaseStep
  <2>7. CASE Destructor
    <3>1. CASE \E c \in Conns : DestroyConnection(c)
      BY <2>0, <3>1, DestroyConnectionStep
    <3>2. CASE DestroyPool \/ Joined \/ \E i \in DOMAIN pool : QuitLoop(i)
      BY <2>0, <3>2, QuietSteps
    <3>. QED
      BY <2>7, <3>1, <3>2 DEF Destructor
  <2>. QED
    BY <1>2, <2>1, <2>2, <2>3, <2>4, <2>5, <2>6, <2>7 DEF Next
<1>. QED
  BY <1>1, <1>2

(* The invariant holds in every reachable state.                           *)
LEMMA Invariance == Spec => []IInv
BY InitHolds, InductiveInvariant, PTL DEF Spec

(* A member of a concatenation is a member of one of its parts.            *)
LEMMA ConcatSplit ==
    ASSUME NEW S, NEW b \in Seq(S), NEW p \in Seq(S), NEW i \in DOMAIN (b \o p)
    PROVE  \/ i \in DOMAIN b /\ b[i] = (b \o p)[i]
           \/ \E j \in DOMAIN p : p[j] = (b \o p)[i]
<1>1. /\ Len(b) \in Nat /\ Len(p) \in Nat /\ DOMAIN b = 1..Len(b) /\ DOMAIN p = 1..Len(p)
      /\ i \in 1..(Len(b) + Len(p))
  OBVIOUS
<1>2. CASE i <= Len(b)
  BY <1>1, <1>2
<1>3. CASE ~(i <= Len(b))
  <2>1. i - Len(b) \in 1..Len(p) /\ p[i - Len(b)] = (b \o p)[i]
    BY <1>1, <1>3
  <2>. QED
    BY <1>1, <2>1
<1>. QED
  BY <1>1, <1>2, <1>3

(* A connection in a queue is held by the functor.                         *)
LEMMA QueuedIsHeld ==
    ASSUME TypeOK, NEW l \in Loops, NEW op \in Ops, NEW c \in Conns, Has(l, op, c)
    PROVE  Held(c)
<1>1. PICK i \in Nat : At(l, i, op, c)
  BY DEF Has
<1>2. PICK b \in Seq(Functor), p \in Seq(Functor) : b = batch[l] /\ p = pending[l]
  BY QType
<1>3. i \in DOMAIN (b \o p) /\ (b \o p)[i].c = c /\ (b \o p)[i].op # "listen"
  BY <1>1, <1>2 DEF At, Ops, Q
<1>4. (i \in DOMAIN b /\ b[i] = (b \o p)[i]) \/ \E j \in DOMAIN p : p[j] = (b \o p)[i]
  BY <1>3, ConcatSplit
<1>5. c \in HeldBy(b) \/ c \in HeldBy(p)
  BY <1>3, <1>4 DEF HeldBy
<1>. QED
  BY <1>2, <1>5 DEF Held

(* A connection that is deleted while its loop runs was told so: the last  *)
(* call was connectDestroyed.                                              *)
LEMMA DeletedWasDestroyed ==
    ASSUME IInv, NEW c \in Conns, Deleted(c), phase[loop[c]] # "exited"
    PROVE  destroyed[c]
<1>1. Own(c) /\ loop[c] \in Loops /\ TypeOK /\ "connectDestroyed" \in Ops
  BY DEF IInv, ConnInv, TypeOK, Ops
<1>2. c \notin connections /\ state[c] # "none" /\ ~Held(c)
  BY DEF Deleted, Held
<1>3. ~Has(loop[c], "connectDestroyed", c)
  BY <1>1, <1>2, QueuedIsHeld
<1>. QED
  BY <1>1, <1>2, <1>3 DEF Own

(* When the last TcpConnectionPtr of a connection goes, its channel has    *)
(* left the poller of its loop, unless the loop has exited: no event       *)
(* reaches a deleted channel, also while ~TcpServer runs.                  *)
THEOREM ChannelNeverDangles == Spec => []NoDanglingChannel
<1>1. IInv => NoDanglingChannel
  <2>. SUFFICES ASSUME IInv, NEW c \in Conns, Deleted(c), phase[loop[c]] # "exited" PROVE ~added[c]
    BY DEF NoDanglingChannel
  <2>1. destroyed[c] /\ Life(c)
    BY DeletedWasDestroyed DEF IInv, ConnInv
  <2>. QED
    BY <2>1 DEF Life
<1>. QED
  BY <1>1, Invariance, PTL

(* The user of a deleted connection has seen it up once and down once, and *)
(* connectDestroyed was run, unless its loop was told to quit or an        *)
(* assertion stopped the program.                                          *)
THEOREM EveryConnectionUpAndDown == Spec => []UpAndDown
<1>1. IInv => UpAndDown
  <2>. SUFFICES ASSUME IInv, failed = "none", NEW c \in Conns, Deleted(c), Served(c)
                PROVE  ups[c] = 1 /\ downs[c] = 1 /\ destroyed[c]
    BY DEF UpAndDown
  <2>1. phase[loop[c]] # "exited"
    BY DEF IInv, LoopInv, TypeOK, Served
  <2>2. destroyed[c] /\ Life(c)
    BY <2>1, DeletedWasDestroyed DEF IInv, ConnInv
  <2>. QED
    BY <2>2 DEF Life
<1>. QED
  BY <1>1, Invariance, PTL

(* While the server is up the map has every connection that is not down,   *)
(* and no loop of the pool was given more than one connection more than    *)
(* another.                                                                *)
THEOREM MapAndPoolHold == Spec => []MapAndPool
<1>1. IInv => MapCoversLive
  BY DEF IInv, ConnInv, Own, IsUp, Serving, MapCoversLive
<1>2. IInv => RoundRobin
  <2>. SUFFICES ASSUME IInv, NEW i \in DOMAIN pool, NEW j \in DOMAIN pool
                PROVE  Cardinality(OnLoop(i)) <= 1 + Cardinality(OnLoop(j))
    BY DEF RoundRobin, OnLoop
  <2>1. PICK q \in Nat : \A k \in DOMAIN pool : Cardinality(OnLoop(k)) = IF k < next THEN q + 1 ELSE q
    BY DEF IInv, PoolInv
  <2>2. Cardinality(OnLoop(i)) \in {q, q + 1} /\ Cardinality(OnLoop(j)) \in {q, q + 1}
    BY <2>1
  <2>. QED
    BY <2>2
<1>. QED
  BY <1>1, <1>2, Invariance, PTL DEF MapAndPool

(* Until ~TcpServer begins no assertion on the way of a connection fails:  *)
(* connectEstablished finds kConnecting, handleClose finds the connection  *)
(* up, removeConnectionInLoop finds it in the map, and the channel that    *)
(* connectDestroyed removes is added and has no interests.                 *)
THEOREM NoAssertionFails == Spec => []AssertionsHold
<1>1. IInv => AssertionsHold
  BY DEF IInv, FailInv, Serving, AssertionsHold
<1>. QED
  BY <1>1, Invariance, PTL
=============================================================================
