-------------------------- MODULE TcpClientProofs --------------------------
(***************************************************************************)
(* Proofs about TcpClient and its Connector, for any number of connections *)
(* and of calls of the user: an attempt owns its socket and its channel, a *)
(* stopped client makes none, and no assertion fails with the exceptions   *)
(* that AssertionsHold names.                                              *)
(*                                                                         *)
(* The inductive invariant rests on a token: after one connect(), the      *)
(* thread that calls it, the functor that starts the attempt, the retry    *)
(* timer, or the attempt or connection has it, and never two of them.      *)
(***************************************************************************)
EXTENDS TcpClient, TLAPS

Plain == {"startInLoop", "stopInLoop", "resetChannel"}
OfConn == {"connectDestroyed", "setCloseCallback"}
Functor == [op : Plain] \cup [op : OfConn, c : Conns]

\* the functors the loop still has to run, in their order
Q == batch \o pending

Has(s, op) == \E i \in DOMAIN s : s[i].op = op

HasFor(s, op, c) == \E i \in DOMAIN s : s[i].op = op /\ s[i].c = c

Once(s, op) == \A i, j \in DOMAIN s : s[i].op = op /\ s[j].op = op => i = j

TypeOK ==
    /\ connect \in BOOLEAN /\ state \in {"kDisconnected", "kConnecting", "kConnected"}
    /\ channel \in {"none", "in", "removed"} /\ sockets \in Nat /\ timers \in Nat
    /\ phase \in {"poll", "events", "functors"}
    /\ pending \in Seq(Functor) /\ batch \in Seq(Functor)
    /\ client \in {"alive", "dying", "dead"} /\ clientConnect \in BOOLEAN
    /\ connection \in {0} \cup Conns /\ nextConnId \in 1..(MaxConns + 1)
    /\ cstate \in [Conns -> {"none", "kConnected", "kDisconnecting", "kDisconnected"}]
    /\ closeCallback \in [Conns -> {"client", "detached"}]
    /\ added \in [Conns -> BOOLEAN] /\ retry \in BOOLEAN
    /\ restarting \in BOOLEAN /\ tconn \in {0} \cup Conns
    /\ tpc \in {"idle", "connect", "start", "stop", "stopping", "disconnect", "destroy",
                "destroyed", "detach"}
    /\ calls \in Nat /\ connects \in Nat /\ destroyer \in {"none", "loop", "thread"}
    /\ stopped \in {"no", "asked", "done"} /\ raced \in BOOLEAN

\* the rounds of the loop
RoundInv ==
    /\ todo \subseteq active
    /\ phase # "events" => todo = {}
    /\ phase # "functors" => batch = <<>>
    /\ restarting => phase = "events"

\* a connection that is up is connection_, one that is down is about to leave
\* the poller
ConnInv ==
    \A c \in Conns :
        /\ IsUp(c) => connection = c
        /\ cstate[c] = "kDisconnected" /\ added[c] => HasFor(Q, "connectDestroyed", c)
        /\ c >= nextConnId => cstate[c] = "none" /\ ~added[c]
        /\ ConnCh(c) \in ready \cup todo => cstate[c] # "none"

\* who has begun to destroy the client, and how far the thread has come
ClientInv ==
    /\ destroyer = "none" => client = "alive"
    /\ destroyer = "loop" => client = "dead" /\ tpc = "idle"
    /\ destroyer = "thread" => client # "alive"
    /\ tpc \in {"destroy", "destroyed", "detach"} => destroyer = "thread"
    /\ tpc = "detach" => tconn # 0

\* after stop(), only a connect() makes attempts
StopInv ==
    /\ stopped # "no" => ~clientConnect /\ tpc \notin {"connect", "start"}
    /\ restarting /\ stopped # "no" => raced
    /\ stopped = "asked" /\ tpc # "stop" /\ ~raced => ~connect
    /\ stopped = "done" /\ ~raced => ~connect /\ state # "kConnecting"

FailInv ==
    /\ failed = "startInLoop:state_" => connects > 1
    /\ failed = "connecting:channel_" => connects > 1 \/ slow
    /\ failed = "removeChannel:activeChannels_" =>
           phase = "events" /\ ConnectorCh \in active /\ ~connect
    /\ failed \in {"removeConnection:client", "newConnection:client"} => destroyer = "thread"
    /\ failed # "removeConnection:connection_"
    /\ destroyer = "loop" => channel # "in"

\* an attempt has its socket and its channel, and events come to no other
AttemptInv ==
    /\ sockets = IF channel = "in" THEN 1 ELSE 0
    /\ (channel = "in") <=> (state = "kConnecting")
    /\ (channel = "removed") <=> Has(Q, "resetChannel")
    /\ Once(Q, "resetChannel")
    /\ ConnectorCh \in ready \cup todo => state = "kConnecting"

\* the connector is kConnected while a connection is up, and the channel of
\* the attempt is deleted before that connection can close
UpInv ==
    /\ \A c \in Conns : IsUp(c) =>
           /\ state = "kConnected"
           /\ phase # "events" \/ ConnCh(c) \in todo => ~Has(pending, "resetChannel")
    /\ restarting => /\ state = "kConnected" /\ ~Has(Q, "resetChannel")
                     /\ \A c \in Conns : ~IsUp(c)
    /\ client # "dead" /\ connection # 0 => IsUp(connection)

\* one of the thread, the functor, the timer and the attempt has the token
TokenInv ==
    connects <= 1 =>
        /\ tpc \in {"connect", "start"} =>
               ~Has(Q, "startInLoop") /\ timers = 0 /\ state = "kDisconnected" /\ channel = "none"
        /\ Has(Q, "startInLoop") => timers = 0 /\ state = "kDisconnected" /\ channel = "none"
        /\ Once(Q, "startInLoop")
        /\ timers > 0 => timers = 1 /\ state = "kDisconnected"
        /\ TimerCh \in ready \cup todo => timers > 0 /\ (channel = "removed" => slow)
        /\ connects = 0 => /\ tpc \notin {"connect", "start"} /\ ~Has(Q, "startInLoop")
                           /\ timers = 0 /\ state = "kDisconnected" /\ channel = "none"

\* what the destruction of the client leaves
GoneInv ==
    /\ \A c \in Conns :
           closeCallback[c] = "detached" \/ HasFor(Q, "setCloseCallback", c) => client = "dead"
    /\ destroyer = "loop" =>
           /\ ~restarting /\ state # "kConnecting"
           /\ state = "kConnected" \/ ~connect
           /\ \A c \in Conns : IsUp(c) => closeCallback[c] = "detached"

\* something is left of the connector that needs it
Needed == channel # "none" \/ \E op \in Plain : Has(Q, op)

\* the timer of a client destroyed in the loop outlasts what needs the
\* connector, unless the loop is slow
HackInv ==
    /\ destroyer = "none" => ~hack /\ HackCh \notin ready \cup todo
    /\ destroyer = "loop" /\ connection = 0 /\ (hack => HackCh \in ready \cup todo) => slow \/ ~Needed

HackHolds == failed = "none" => HackInv

IInv ==
    /\ TypeOK /\ RoundInv /\ ConnInv /\ ClientInv /\ StopInv /\ FailInv
    /\ failed = "none" => AttemptInv /\ UpInv /\ TokenInv /\ GoneInv
-----------------------------------------------------------------------------
(* What steps do to the queue and to the attempt.                          *)

\* f was queued
Grew(f) ==
    /\ Q' \in Seq(Functor) /\ pending' \in Seq(Functor)
    /\ \A op : Has(Q', op) <=> Has(Q, op) \/ f.op = op
    /\ \A op : Has(pending', op) <=> Has(pending, op) \/ f.op = op
    /\ \A op, c : HasFor(Q', op, c) <=> HasFor(Q, op, c) \/ (f.op = op /\ f.c = c)
    /\ \A op : Once(Q, op) /\ (f.op = op => ~Has(Q, op)) => Once(Q', op)

\* the functor at the head of the batch ran and queued nothing
Shrank ==
    /\ Has(Q, Head(batch).op)
    /\ \A op : Has(Q', op) => Has(Q, op)
    /\ \A op : Has(Q, op) => Has(Q', op) \/ Head(batch).op = op
    /\ \A op, c : HasFor(Q', op, c) => HasFor(Q, op, c)
    /\ \A op, c : HasFor(Q, op, c) => HasFor(Q', op, c) \/ (Head(batch).op = op /\ Head(batch).c = c)
    /\ \A op : Once(Q, op) => Once(Q', op)
    /\ \A op : Once(Q, op) /\ Head(batch).op = op => ~Has(Q', op)

\* resetChannel was queued, and at most a stopInLoop ran
ResetComes ==
    /\ pending' \in Seq(Functor) /\ batch' \in Seq(Functor)
    /\ Has(Q', "resetChannel") /\ Once(Q', "resetChannel")
    /\ Has(Q', "startInLoop") => Has(Q, "startInLoop")
    /\ Once(Q, "startInLoop") => Once(Q', "startInLoop")
    /\ \A c \in Conns, op \in OfConn : HasFor(Q', op, c) <=> HasFor(Q, op, c)

\* startInLoop: the attempt begins, or nothing changes but for a timer
Started(st, cn, tm) ==
    /\ pending' = pending /\ timers' \in Nat /\ sockets' \in Nat
    /\ \/ /\ st = "kDisconnected" /\ cn /\ state' = "kConnecting" /\ channel' = "in"
          /\ sockets' = sockets + 1 /\ timers' = tm
          /\ \/ channel = "none" /\ failed' = failed
             \/ channel # "none" /\ failed' = "connecting:channel_"
       \/ /\ state' = st /\ channel' = channel /\ sockets' = sockets
          /\ timers' = tm \/ (timers' = tm + 1 /\ st = "kDisconnected" /\ cn)
          /\ \/ st = "kDisconnected" /\ failed' = failed
             \/ st # "kDisconnected" /\ failed' = "startInLoop:state_"

\* stopInLoop: the attempt is given up, or there is none
Stopped(current, cn) ==
    /\ pending' \in Seq(Functor) /\ batch' \in Seq(Functor) /\ timers' \in Nat
    /\ failed' \in {"none", "removeChannel:activeChannels_"}
    /\ failed' # "none" => ~RemoveAllowed(ConnectorCh, current)
    /\ Has(Q', "resetChannel") <=> channel' = "removed"
    /\ Once(Q', "resetChannel")
    /\ Has(Q', "startInLoop") => Has(Q, "startInLoop")
    /\ Once(Q, "startInLoop") => Once(Q', "startInLoop")
    /\ \A c \in Conns, op \in OfConn : HasFor(Q', op, c) <=> HasFor(Q, op, c)
    /\ \/ /\ state = "kConnecting" /\ state' = "kDisconnected" /\ channel' = "removed"
          /\ ready' = ready \ {ConnectorCh} /\ sockets' = 0
          /\ (cn /\ timers' = timers + 1) \/ (~cn /\ timers' = timers)
          /\ failed' = "none" => RemoveAllowed(ConnectorCh, current)
       \/ /\ state # "kConnecting"
          /\ UNCHANGED <<state, channel, sockets, timers, ready, failed, pending>>
-----------------------------------------------------------------------------
(* Queues.                                                                 *)

(* A functor behind a concatenation is behind its second part.             *)
LEMMA ConcatAppend ==
    ASSUME NEW S, NEW b \in Seq(S), NEW p \in Seq(S), NEW f \in S
    PROVE  b \o Append(p, f) = Append(b \o p, f)
<1>. DEFINE x == b \o Append(p, f)  y == Append(b \o p, f)
<1>1. x \in Seq(S) /\ y \in Seq(S) /\ Len(x) = Len(b) + Len(p) + 1 /\ Len(y) = Len(x)
  OBVIOUS
<1>2. \A i \in 1..Len(x) : x[i] = y[i]
  OBVIOUS
<1>. QED
  BY <1>1, <1>2

(* The first functor of the batch is the first of all.                     *)
LEMMA ConcatTail ==
    ASSUME NEW S, NEW b \in Seq(S), NEW p \in Seq(S), b # <<>>
    PROVE  /\ Tail(b) \o p = Tail(b \o p) /\ Head(b \o p) = Head(b) /\ b \o p # <<>>
           /\ Tail(b) \in Seq(S) /\ Head(b) \in S
<1>. DEFINE x == Tail(b) \o p  y == Tail(b \o p)
<1>1. Len(b) \in Nat /\ Len(b) >= 1 /\ Tail(b) \in Seq(S) /\ Len(Tail(b)) = Len(b) - 1
  OBVIOUS
<1>2. b \o p \in Seq(S) /\ Len(b \o p) = Len(b) + Len(p) /\ b \o p # <<>> /\ (b \o p)[1] = b[1]
  BY <1>1
<1>3. x \in Seq(S) /\ y \in Seq(S) /\ Len(x) = Len(b) + Len(p) - 1 /\ Len(y) = Len(x)
  BY <1>1, <1>2
<1>4. \A i \in 1..Len(x) : x[i] = y[i]
  BY <1>1, <1>2, <1>3
<1>5. x = y
  BY <1>3, <1>4
<1>. QED
  BY <1>1, <1>2, <1>5

(* What queueing f adds.                                                   *)
LEMMA HasAppend ==
    ASSUME NEW s \in Seq(Functor), NEW f \in Functor, NEW t, t = Append(s, f)
    PROVE  /\ t \in Seq(Functor)
           /\ \A op : Has(t, op) <=> Has(s, op) \/ f.op = op
           /\ \A op, c : HasFor(t, op, c) <=> HasFor(s, op, c) \/ (f.op = op /\ f.c = c)
           /\ \A op : Once(s, op) /\ (f.op = op => ~Has(s, op)) => Once(t, op)
<1>1. /\ t \in Seq(Functor) /\ Len(s) \in Nat /\ DOMAIN s = 1..Len(s) /\ DOMAIN t = 1..(Len(s) + 1)
      /\ t[Len(s) + 1] = f /\ \A i \in 1..Len(s) : t[i] = s[i]
  OBVIOUS
<1>2. DOMAIN t = DOMAIN s \cup {Len(s) + 1}
  BY <1>1
<1>. QED
  BY <1>1, <1>2, SMTT(30) DEF Has, HasFor, Once

(* What running the first functor takes away.                              *)
LEMMA HasTail ==
    ASSUME NEW s \in Seq(Functor), s # <<>>, NEW t, t = Tail(s)
    PROVE  /\ t \in Seq(Functor) /\ Head(s) \in Functor
           /\ \A op : Has(t, op) => Has(s, op)
           /\ \A op : Has(s, op) => Has(t, op) \/ Head(s).op = op
           /\ Has(s, Head(s).op)
           /\ \A op, c : HasFor(t, op, c) => HasFor(s, op, c)
           /\ \A op, c : HasFor(s, op, c) => HasFor(t, op, c) \/ (Head(s).op = op /\ Head(s).c = c)
           /\ \A op : Once(s, op) => Once(t, op)
           /\ \A op : Once(s, op) /\ Head(s).op = op => ~Has(t, op)
<1>1. /\ t \in Seq(Functor) /\ Len(s) \in Nat /\ Len(s) >= 1 /\ DOMAIN s = 1..Len(s)
      /\ DOMAIN t = 1..(Len(s) - 1) /\ Head(s) = s[1] /\ \A i \in 1..(Len(s) - 1) : t[i] = s[i + 1]
  OBVIOUS
<1>2. Head(s) \in Functor /\ 1 \in DOMAIN s
  BY <1>1
<1>3. \A i \in DOMAIN t : i + 1 \in DOMAIN s /\ t[i] = s[i + 1] /\ i + 1 # 1
  BY <1>1
<1>4. \A i \in DOMAIN s : i = 1 \/ (i - 1 \in DOMAIN t /\ t[i - 1] = s[i])
  BY <1>1
<1>5. \A i, j \in DOMAIN t : i + 1 = j + 1 => i = j
  BY <1>1
<1>0. Head(s) = s[1]
  BY <1>1
<1>6. \A op : (Has(t, op) => Has(s, op)) /\ (Has(s, op) => Has(t, op) \/ Head(s).op = op)
  <2>1. \A op : Has(t, op) => Has(s, op)
    BY <1>3, Zenon DEF Has
  <2>2. \A op : Has(s, op) => Has(t, op) \/ Head(s).op = op
    BY <1>0, <1>4, Zenon DEF Has
  <2>. QED  BY <2>1, <2>2
<1>7. \A op, c : /\ HasFor(t, op, c) => HasFor(s, op, c)
                 /\ HasFor(s, op, c) => HasFor(t, op, c) \/ (Head(s).op = op /\ Head(s).c = c)
  <2>1. SUFFICES ASSUME NEW op, NEW c
                 PROVE  /\ HasFor(t, op, c) => HasFor(s, op, c)
                        /\ HasFor(s, op, c) => HasFor(t, op, c) \/ (Head(s).op = op /\ Head(s).c = c)
    OBVIOUS
  <2>2. HasFor(t, op, c) => HasFor(s, op, c)
    BY <1>3 DEF HasFor
  <2>3. HasFor(s, op, c) => HasFor(t, op, c) \/ (Head(s).op = op /\ Head(s).c = c)
    BY <1>0, <1>4 DEF HasFor
  <2>. QED  BY <2>2, <2>3
<1>8. \A op : Once(s, op) => Once(t, op)
  <2>1. SUFFICES ASSUME NEW op, Once(s, op), NEW i \in DOMAIN t, NEW j \in DOMAIN t,
                        t[i].op = op, t[j].op = op
                 PROVE  i = j
    BY DEF Once
  <2>2. i + 1 = j + 1
    BY <2>1, <1>3 DEF Once
  <2>. QED  BY <2>2, <1>5
<1>9. \A op : Once(s, op) /\ Head(s).op = op => ~Has(t, op)
  BY <1>1, <1>2, <1>3 DEF Once, Has
<1>. QED
  BY <1>1, <1>2, <1>6, <1>7, <1>8, <1>9 DEF Has

(* The types of the queues, and what is in the queue of the loop.          *)
LEMMA QType ==
    ASSUME TypeOK
    PROVE  /\ Q \in Seq(Functor)
           /\ \A op : Has(Q, op) <=> Has(batch, op) \/ Has(pending, op)
           /\ Functors = {Q[i] : i \in DOMAIN Q}
<1>1. /\ batch \in Seq(Functor) /\ pending \in Seq(Functor)
  BY DEF TypeOK
<1>2. /\ Q \in Seq(Functor) /\ Len(batch) \in Nat /\ Len(pending) \in Nat
      /\ DOMAIN batch = 1..Len(batch) /\ DOMAIN pending = 1..Len(pending)
      /\ DOMAIN Q = 1..(Len(batch) + Len(pending))
      /\ \A i \in 1..Len(batch) : Q[i] = batch[i]
      /\ \A i \in 1..Len(pending) : Q[Len(batch) + i] = pending[i]
  BY <1>1 DEF Q
<1>3. \A i \in DOMAIN batch : i \in DOMAIN Q /\ Q[i] = batch[i]
  BY <1>2
<1>4. \A i \in DOMAIN pending : Len(batch) + i \in DOMAIN Q /\ Q[Len(batch) + i] = pending[i]
  BY <1>2
<1>5. \A i \in DOMAIN Q : \/ i \in DOMAIN batch /\ Q[i] = batch[i]
                          \/ i - Len(batch) \in DOMAIN pending /\ Q[i] = pending[i - Len(batch)]
  <2>1. SUFFICES ASSUME NEW i \in DOMAIN Q, i \notin DOMAIN batch
                 PROVE  i - Len(batch) \in DOMAIN pending /\ Q[i] = pending[i - Len(batch)]
    BY <1>3
  <2>2. i - Len(batch) \in 1..Len(pending) /\ Len(batch) + (i - Len(batch)) = i
    BY <2>1, <1>2
  <2>. QED  BY <2>2, <1>2
<1>6. \A op : Has(Q, op) <=> Has(batch, op) \/ Has(pending, op)
  BY <1>3, <1>4, <1>5 DEF Has
<1>7. Functors = {Q[i] : i \in DOMAIN Q}
  BY <1>3, <1>4, <1>5 DEF Functors
<1>. QED  BY <1>2, <1>6, <1>7

(* queueInLoop                                                             *)
LEMMA Pushed ==
    ASSUME TypeOK, NEW f \in Functor, pending' = Append(pending, f), batch' = batch
    PROVE  Grew(f)
<1>. USE DEF Grew
<1>1. batch \in Seq(Functor) /\ pending \in Seq(Functor)
  BY DEF TypeOK
<1>2. Q' = Append(Q, f) /\ Q \in Seq(Functor)
  BY <1>1, ConcatAppend, QType DEF Q
<1>3. \A g \in Functor, s \in Seq(Functor) :
          LET t == Append(s, g)
          IN  /\ t \in Seq(Functor)
              /\ \A op : Has(t, op) <=> Has(s, op) \/ g.op = op
              /\ \A op, c : HasFor(t, op, c) <=> HasFor(s, op, c) \/ (g.op = op /\ g.c = c)
              /\ \A op : Once(s, op) /\ (g.op = op => ~Has(s, op)) => Once(t, op)
  BY HasAppend
<1>. QED  BY <1>1, <1>2, <1>3

(* The loop runs a functor, which queues nothing or f.                     *)
LEMMA Popped ==
    ASSUME TypeOK, batch # <<>>, batch' = Tail(batch)
    PROVE  /\ Q # <<>> /\ Head(Q) = Head(batch) /\ Tail(Q) \in Seq(Functor)
           /\ batch' \in Seq(Functor) /\ Head(batch) \in Functor
           /\ pending' = pending => Q' = Tail(Q)
           /\ \A f \in Functor : pending' = Append(pending, f) =>
                  Q' = Append(Tail(Q), f) /\ pending' \in Seq(Functor)
<1>1. batch \in Seq(Functor) /\ pending \in Seq(Functor)
  BY DEF TypeOK
<1>2. /\ Tail(batch) \o pending = Tail(Q) /\ Head(Q) = Head(batch) /\ Q # <<>>
      /\ Tail(batch) \in Seq(Functor) /\ Head(batch) \in Functor
  BY <1>1, ConcatTail DEF Q
<1>3. Tail(Q) \in Seq(Functor)
  BY <1>1, <1>2 DEF Q
<1>4. pending' = pending => Q' = Tail(Q)
  BY <1>2 DEF Q
<1>5. ASSUME NEW f \in Functor, pending' = Append(pending, f)
      PROVE  Q' = Append(Tail(Q), f) /\ pending' \in Seq(Functor)
  <2>1. Q' = Tail(batch) \o Append(pending, f)
    BY <1>5 DEF Q
  <2>2. Tail(batch) \o Append(pending, f) = Append(Tail(batch) \o pending, f)
    BY <1>1, <1>2, ConcatAppend
  <2>3. Append(pending, f) \in Seq(Functor)
    BY <1>1
  <2>. QED  BY <2>1, <2>2, <2>3, <1>2, <1>5
<1>. QED  BY <1>2, <1>3, <1>4, <1>5

(* The same, in terms of what is queued.                                   *)
LEMMA Ran ==
    ASSUME TypeOK, batch # <<>>, batch' = Tail(batch), pending' = pending
    PROVE  Shrank
<1>1. Q # <<>> /\ Head(Q) = Head(batch) /\ Q' = Tail(Q) /\ Q \in Seq(Functor)
  BY Popped, QType
<1>2. PICK s \in Seq(Functor) : s = Q
  BY <1>1
<1>3. PICK t : t = Tail(s) /\ t = Q'
  BY <1>1, <1>2
<1>4. /\ \A op : Has(t, op) => Has(s, op)
      /\ \A op : Has(s, op) => Has(t, op) \/ Head(s).op = op
      /\ Has(s, Head(s).op)
      /\ \A op, c : HasFor(t, op, c) => HasFor(s, op, c)
      /\ \A op, c : HasFor(s, op, c) => HasFor(t, op, c) \/ (Head(s).op = op /\ Head(s).c = c)
      /\ \A op : Once(s, op) => Once(t, op)
      /\ \A op : Once(s, op) /\ Head(s).op = op => ~Has(t, op)
  BY <1>1, <1>2, <1>3, HasTail
<1>. QED  BY <1>1, <1>2, <1>3, <1>4 DEF Shrank

(* doPendingFunctors swaps an empty batch.                                 *)
LEMMA Swapped ==
    ASSUME TypeOK, batch = <<>>, batch' = pending, pending' = <<>>
    PROVE  Q' = Q /\ ~Has(pending', "resetChannel")
<1>1. pending \in Seq(Functor)
  BY DEF TypeOK
<1>2. <<>> \o pending = pending /\ pending \o <<>> = pending
  BY <1>1
<1>. QED  BY <1>2 DEF Q, Has

(* A queue that stays as it is.                                            *)
LEMMA SameQ == ASSUME UNCHANGED <<batch, pending>> PROVE Q' = Q
BY DEF Q

(* The channels of a loop are different.                                   *)
LEMMA ChannelsDiffer ==
    /\ ConnectorCh # TimerCh /\ ConnectorCh # UserCh /\ ConnectorCh # HackCh
    /\ TimerCh # UserCh /\ TimerCh # HackCh /\ UserCh # HackCh
    /\ \A c \in Conns : ConnCh(c) \notin {ConnectorCh, TimerCh, UserCh, HackCh}
    /\ \A c, d \in Conns : ConnCh(c) = ConnCh(d) => c = d
BY DEF ConnectorCh, TimerCh, UserCh, HackCh, ConnCh

(* A connection is none of the "0" that stands for no connection.          *)
LEMMA ConnsAreNumbers == 0 \notin Conns /\ \A c \in Conns : c \in Nat
BY BoundsAssumption DEF Conns
-----------------------------------------------------------------------------
(* The loop.                                                               *)

(* poll() begins a round.                                                  *)
LEMMA PollStep ==
    ASSUME IInv, failed = "none", ~restarting, Poll, UNCHANGED clientVars
    PROVE  IInv'
<1>. USE DEF Poll, attempt, clientVars, conns, thread, user
<1>1. /\ TypeOK /\ RoundInv /\ ConnInv /\ ClientInv /\ StopInv /\ FailInv
      /\ AttemptInv /\ UpInv /\ TokenInv /\ GoneInv
  BY DEF IInv
<1>2. Q' = Q
  BY SameQ
<1>3. TypeOK'
  BY <1>1 DEF TypeOK
<1>4. RoundInv'
  BY <1>1 DEF RoundInv
<1>5. ConnInv'
  BY <1>1, <1>2 DEF ConnInv, IsUp
<1>6. ClientInv' /\ StopInv' /\ FailInv'
  BY <1>1 DEF ClientInv, StopInv, FailInv
<1>7. AttemptInv'
  BY <1>1, <1>2 DEF AttemptInv
<1>8. UpInv'
  BY <1>1, <1>2 DEF UpInv, IsUp
<1>9. TokenInv'
  BY <1>1, <1>2 DEF TokenInv
<1>10. GoneInv'
  BY <1>1, <1>2 DEF GoneInv, IsUp
<1>. QED  BY <1>3, <1>4, <1>5, <1>6, <1>7, <1>8, <1>9, <1>10 DEF IInv

(* doPendingFunctors swaps.                                                *)
LEMMA SwapStep ==
    ASSUME IInv, failed = "none", ~restarting, Swap, UNCHANGED clientVars
    PROVE  IInv'
<1>. USE DEF Swap, attempt, clientVars, conns, thread, user
<1>1. /\ TypeOK /\ RoundInv /\ ConnInv /\ ClientInv /\ StopInv /\ FailInv
      /\ AttemptInv /\ UpInv /\ TokenInv /\ GoneInv
  BY DEF IInv
<1>2. batch = <<>>
  BY <1>1 DEF RoundInv
<1>3. Q' = Q /\ ~Has(pending', "resetChannel")
  BY <1>1, <1>2, Swapped
<1>4. TypeOK'
  BY <1>1 DEF TypeOK
<1>5. RoundInv'
  BY <1>1 DEF RoundInv
<1>6. ConnInv'
  BY <1>1, <1>2, <1>3 DEF ConnInv, IsUp
<1>7. ClientInv'
  BY <1>1 DEF ClientInv
<1>8. StopInv'
  BY <1>1 DEF StopInv
<1>9. FailInv'
  BY <1>1 DEF FailInv
<1>10. AttemptInv'
  BY <1>1, <1>2, <1>3 DEF AttemptInv
<1>11. UpInv'
  BY <1>1, <1>2, <1>3 DEF UpInv, IsUp
<1>12. TokenInv'
  BY <1>1, <1>2, <1>3 DEF TokenInv
<1>13. GoneInv'
  BY <1>1, <1>2, <1>3 DEF GoneInv, IsUp
<1>. QED  BY <1>4, <1>5, <1>6, <1>7, <1>8, <1>9, <1>10, <1>11, <1>12, <1>13 DEF IInv

(* The batch is done.                                                      *)
LEMMA EndIterationStep ==
    ASSUME IInv, failed = "none", ~restarting, EndIteration, UNCHANGED clientVars
    PROVE  IInv'
<1>. USE DEF EndIteration, attempt, clientVars, conns, thread, user
<1>1. /\ TypeOK /\ RoundInv /\ ConnInv /\ ClientInv /\ StopInv /\ FailInv
      /\ AttemptInv /\ UpInv /\ TokenInv /\ GoneInv
  BY DEF IInv
<1>2. Q' = Q
  BY SameQ
<1>3. TypeOK'
  BY <1>1 DEF TypeOK
<1>4. RoundInv'
  BY <1>1 DEF RoundInv
<1>5. ConnInv'
  BY <1>1, <1>2 DEF ConnInv, IsUp
<1>6. ClientInv'
  BY <1>1 DEF ClientInv
<1>7. StopInv'
  BY <1>1 DEF StopInv
<1>8. FailInv'
  BY <1>1 DEF FailInv
<1>9. AttemptInv'
  BY <1>1, <1>2 DEF AttemptInv
<1>10. UpInv'
  BY <1>1, <1>2 DEF UpInv, IsUp
<1>11. TokenInv'
  BY <1>1, <1>2 DEF TokenInv
<1>12. GoneInv'
  BY <1>1, <1>2 DEF GoneInv, IsUp
<1>. QED  BY <1>3, <1>4, <1>5, <1>6, <1>7, <1>8, <1>9, <1>10, <1>11, <1>12 DEF IInv

(* A handler that has nothing to do.                                       *)
LEMMA HandleUserStep ==
    ASSUME IInv, failed = "none", ~restarting, HandleUser
    PROVE  IInv'
<1>. USE DEF HandleUser, Handles, attempt, clientVars, conns, thread, user
<1>1. /\ TypeOK /\ RoundInv /\ ConnInv /\ ClientInv /\ StopInv /\ FailInv
      /\ AttemptInv /\ UpInv /\ TokenInv /\ GoneInv
  BY DEF IInv
<1>2. Q' = Q
  BY SameQ
<1>3. TypeOK'
  BY <1>1 DEF TypeOK
<1>4. RoundInv'
  BY <1>1 DEF RoundInv
<1>5. ConnInv'
  BY <1>1, <1>2 DEF ConnInv, IsUp
<1>6. ClientInv'
  BY <1>1 DEF ClientInv
<1>7. StopInv'
  BY <1>1 DEF StopInv
<1>8. FailInv'
  BY <1>1 DEF FailInv
<1>9. AttemptInv'
  BY <1>1, <1>2 DEF AttemptInv
<1>10. UpInv'
  BY <1>1, <1>2 DEF UpInv, IsUp
<1>11. TokenInv'
  BY <1>1, <1>2 DEF TokenInv
<1>12. GoneInv'
  BY <1>1, <1>2 DEF GoneInv, IsUp
<1>. QED  BY <1>3, <1>4, <1>5, <1>6, <1>7, <1>8, <1>9, <1>10, <1>11, <1>12 DEF IInv

(* The timer that holds the connector fires.                               *)
LEMMA RunHackStep ==
    ASSUME IInv, failed = "none", ~restarting, RunHack
    PROVE  IInv'
<1>. USE DEF RunHack, Handles, attempt, clientVars, conns, thread, user
<1>1. /\ TypeOK /\ RoundInv /\ ConnInv /\ ClientInv /\ StopInv /\ FailInv
      /\ AttemptInv /\ UpInv /\ TokenInv /\ GoneInv
  BY DEF IInv
<1>2. Q' = Q
  BY SameQ
<1>3. TypeOK'
  BY <1>1 DEF TypeOK
<1>4. RoundInv'
  BY <1>1 DEF RoundInv
<1>5. ConnInv'
  BY <1>1, <1>2 DEF ConnInv, IsUp
<1>6. ClientInv'
  BY <1>1 DEF ClientInv
<1>7. StopInv'
  BY <1>1 DEF StopInv
<1>8. FailInv'
  BY <1>1 DEF FailInv
<1>9. AttemptInv'
  BY <1>1, <1>2 DEF AttemptInv
<1>10. UpInv'
  BY <1>1, <1>2 DEF UpInv, IsUp
<1>11. TokenInv'
  BY <1>1, <1>2 DEF TokenInv
<1>12. GoneInv'
  BY <1>1, <1>2 DEF GoneInv, IsUp
<1>. QED  BY <1>3, <1>4, <1>5, <1>6, <1>7, <1>8, <1>9, <1>10, <1>11, <1>12 DEF IInv

(* The channel of the user is ready.                                       *)
LEMMA UserReadyStep ==
    ASSUME IInv, failed = "none", UserReady
    PROVE  IInv'
<1>. USE DEF UserReady, round, attempt, clientVars, conns, thread, user
<1>1. /\ TypeOK /\ RoundInv /\ ConnInv /\ ClientInv /\ StopInv /\ FailInv
      /\ AttemptInv /\ UpInv /\ TokenInv /\ GoneInv
  BY DEF IInv
<1>2. Q' = Q
  BY SameQ DEF round
<1>3. UserCh \notin {ConnectorCh, TimerCh} /\ \A c \in Conns : ConnCh(c) # UserCh
  BY ChannelsDiffer
<1>4. TypeOK'
  BY <1>1 DEF TypeOK
<1>5. RoundInv'
  BY <1>1 DEF RoundInv
<1>6. ConnInv'
  BY <1>1, <1>2, <1>3 DEF ConnInv, IsUp
<1>7. ClientInv'
  BY <1>1 DEF ClientInv
<1>8. StopInv'
  BY <1>1 DEF StopInv
<1>9. FailInv'
  BY <1>1 DEF FailInv
<1>10. AttemptInv'
  BY <1>1, <1>2, <1>3 DEF AttemptInv
<1>11. UpInv'
  BY <1>1, <1>2, <1>3 DEF UpInv, IsUp
<1>12. TokenInv'
  BY <1>1, <1>2, <1>3 DEF TokenInv
<1>13. GoneInv'
  BY <1>1, <1>2, <1>3 DEF GoneInv, IsUp
<1>. QED  BY <1>4, <1>5, <1>6, <1>7, <1>8, <1>9, <1>10, <1>11, <1>12, <1>13 DEF IInv

(* The timer that holds the connector is due.                              *)
LEMMA HackDueStep ==
    ASSUME IInv, failed = "none", HackDue
    PROVE  IInv'
<1>. USE DEF HackDue, round, attempt, clientVars, conns, thread, user
<1>1. /\ TypeOK /\ RoundInv /\ ConnInv /\ ClientInv /\ StopInv /\ FailInv
      /\ AttemptInv /\ UpInv /\ TokenInv /\ GoneInv
  BY DEF IInv
<1>2. Q' = Q
  BY SameQ DEF round
<1>3. HackCh \notin {ConnectorCh, TimerCh} /\ \A c \in Conns : ConnCh(c) # HackCh
  BY ChannelsDiffer
<1>4. TypeOK'
  BY <1>1 DEF TypeOK
<1>5. RoundInv'
  BY <1>1 DEF RoundInv
<1>6. ConnInv'
  BY <1>1, <1>2, <1>3 DEF ConnInv, IsUp
<1>7. ClientInv'
  BY <1>1 DEF ClientInv
<1>8. StopInv'
  BY <1>1 DEF StopInv
<1>9. FailInv'
  BY <1>1 DEF FailInv
<1>10. AttemptInv'
  BY <1>1, <1>2, <1>3 DEF AttemptInv
<1>11. UpInv'
  BY <1>1, <1>2, <1>3 DEF UpInv, IsUp
<1>12. TokenInv'
  BY <1>1, <1>2, <1>3 DEF TokenInv
<1>13. GoneInv'
  BY <1>1, <1>2, <1>3 DEF GoneInv, IsUp
<1>. QED  BY <1>4, <1>5, <1>6, <1>7, <1>8, <1>9, <1>10, <1>11, <1>12, <1>13 DEF IInv

(* The kernel decides an attempt.                                          *)
LEMMA ResolvedStep ==
    ASSUME IInv, failed = "none", KernelDecides
    PROVE  IInv'
<1>. USE DEF KernelDecides, Resolved, round, attempt, clientVars, conns, thread, user
<1>1. /\ TypeOK /\ RoundInv /\ ConnInv /\ ClientInv /\ StopInv /\ FailInv
      /\ AttemptInv /\ UpInv /\ TokenInv /\ GoneInv
  BY DEF IInv
<1>2. Q' = Q
  BY SameQ DEF round
<1>3. ConnectorCh # TimerCh /\ \A c \in Conns : ConnCh(c) # ConnectorCh
  BY ChannelsDiffer
<1>4. TypeOK'
  BY <1>1 DEF TypeOK
<1>5. RoundInv'
  BY <1>1 DEF RoundInv
<1>6. ConnInv'
  BY <1>1, <1>2, <1>3 DEF ConnInv, IsUp
<1>7. ClientInv'
  BY <1>1 DEF ClientInv
<1>8. StopInv'
  BY <1>1 DEF StopInv
<1>9. FailInv'
  BY <1>1 DEF FailInv
<1>10. AttemptInv'
  BY <1>1, <1>2, <1>3 DEF AttemptInv
<1>11. UpInv'
  BY <1>1, <1>2, <1>3 DEF UpInv, IsUp
<1>12. TokenInv'
  BY <1>1, <1>2, <1>3 DEF TokenInv
<1>13. GoneInv'
  BY <1>1, <1>2, <1>3 DEF GoneInv, IsUp
<1>. QED  BY <1>4, <1>5, <1>6, <1>7, <1>8, <1>9, <1>10, <1>11, <1>12, <1>13 DEF IInv

(* A retry timer is due.                                                   *)
LEMMA TimerDueStep ==
    ASSUME IInv, failed = "none", TimerDue, UNCHANGED clientVars
    PROVE  IInv'
<1>. USE DEF TimerDue, round, attempt, clientVars, conns, thread, user
<1>1. /\ TypeOK /\ RoundInv /\ ConnInv /\ ClientInv /\ StopInv /\ FailInv
      /\ AttemptInv /\ UpInv /\ TokenInv /\ GoneInv
  BY DEF IInv
<1>2. Q' = Q
  BY SameQ DEF round
<1>3. ConnectorCh # TimerCh /\ \A c \in Conns : ConnCh(c) # TimerCh
  BY ChannelsDiffer
<1>4. TypeOK'
  BY <1>1 DEF TypeOK
<1>5. RoundInv'
  BY <1>1 DEF RoundInv
<1>6. ConnInv'
  BY <1>1, <1>2, <1>3 DEF ConnInv, IsUp
<1>7. ClientInv'
  BY <1>1 DEF ClientInv
<1>8. StopInv'
  BY <1>1 DEF StopInv
<1>9. FailInv'
  BY <1>1 DEF FailInv
<1>10. AttemptInv'
  BY <1>1, <1>2, <1>3 DEF AttemptInv
<1>11. UpInv'
  BY <1>1, <1>2, <1>3 DEF UpInv, IsUp
<1>12. TokenInv'
  BY <1>1, <1>2, <1>3 DEF TokenInv
<1>13. GoneInv'
  BY <1>1, <1>2, <1>3 DEF GoneInv, IsUp
<1>. QED  BY <1>4, <1>5, <1>6, <1>7, <1>8, <1>9, <1>10, <1>11, <1>12, <1>13 DEF IInv

(* A round takes longer than a timer that was set in it.                   *)
LEMMA SlowRoundStep ==
    ASSUME IInv, failed = "none", SlowRound
    PROVE  IInv'
<1>. USE DEF SlowRound, DueInRound, HackSet, attempt, clientVars, conns, thread, user
<1>1. /\ TypeOK /\ RoundInv /\ ConnInv /\ ClientInv /\ StopInv /\ FailInv
      /\ AttemptInv /\ UpInv /\ TokenInv /\ GoneInv
  BY DEF IInv
<1>2. Q' = Q
  BY SameQ
<1>3. /\ {ConnectorCh, TimerCh} \cap {HackCh} = {} /\ ConnectorCh # TimerCh
      /\ \A c \in Conns : ConnCh(c) \notin {TimerCh, HackCh}
  BY ChannelsDiffer
<1>4. TypeOK'
  BY <1>1 DEF TypeOK
<1>5. RoundInv'
  BY <1>1 DEF RoundInv
<1>6. ConnInv'
  BY <1>1, <1>2, <1>3 DEF ConnInv, IsUp
<1>7. ClientInv'
  BY <1>1 DEF ClientInv
<1>8. StopInv'
  BY <1>1 DEF StopInv
<1>9. FailInv'
  BY <1>1 DEF FailInv
<1>10. AttemptInv'
  BY <1>1, <1>2, <1>3 DEF AttemptInv
<1>11. UpInv'
  BY <1>1, <1>2, <1>3 DEF UpInv, IsUp
<1>12. TokenInv'
  BY <1>1, <1>2, <1>3 DEF TokenInv
<1>13. GoneInv'
  BY <1>1, <1>2, <1>3 DEF GoneInv, IsUp
<1>. QED  BY <1>4, <1>5, <1>6, <1>7, <1>8, <1>9, <1>10, <1>11, <1>12, <1>13 DEF IInv

(* The other end of a connection closes.                                   *)
LEMMA PeerClosesStep ==
    ASSUME IInv, failed = "none", NEW p \in Conns, PeerCloses(p)
    PROVE  IInv'
<1>. USE DEF PeerCloses, round, attempt, clientVars, conns, thread, user
<1>1. /\ TypeOK /\ RoundInv /\ ConnInv /\ ClientInv /\ StopInv /\ FailInv
      /\ AttemptInv /\ UpInv /\ TokenInv /\ GoneInv
  BY DEF IInv
<1>2. Q' = Q
  BY SameQ DEF round
<1>3. /\ ConnCh(p) \notin {ConnectorCh, TimerCh}
      /\ \A c \in Conns : ConnCh(c) = ConnCh(p) => c = p
  BY ChannelsDiffer
<1>4. TypeOK'
  BY <1>1 DEF TypeOK
<1>5. RoundInv'
  BY <1>1 DEF RoundInv
<1>6. ConnInv'
  BY <1>1, <1>2, <1>3 DEF ConnInv, IsUp
<1>7. ClientInv'
  BY <1>1 DEF ClientInv
<1>8. StopInv'
  BY <1>1 DEF StopInv
<1>9. FailInv'
  BY <1>1 DEF FailInv
<1>10. AttemptInv'
  BY <1>1, <1>2, <1>3 DEF AttemptInv
<1>11. UpInv'
  BY <1>1, <1>2, <1>3 DEF UpInv, IsUp
<1>12. TokenInv'
  BY <1>1, <1>2, <1>3 DEF TokenInv
<1>13. GoneInv'
  BY <1>1, <1>2, <1>3 DEF GoneInv, IsUp
<1>. QED  BY <1>4, <1>5, <1>6, <1>7, <1>8, <1>9, <1>10, <1>11, <1>12, <1>13 DEF IInv

-----------------------------------------------------------------------------
(* The user in another thread.                                             *)

(* connect() takes the token if it is the first.                           *)
LEMMA ThreadBeginsConnectStep ==
    ASSUME IInv, failed = "none", ThreadBegins("connect", TRUE)
    PROVE  IInv'
<1>. USE DEF ThreadBegins, ThreadGoes, ThreadLeaves, round
<1>1. /\ TypeOK /\ RoundInv /\ ConnInv /\ ClientInv /\ StopInv /\ FailInv
      /\ AttemptInv /\ UpInv /\ TokenInv /\ GoneInv
  BY DEF IInv
<1>2. Q' = Q
  BY SameQ
<1>3. connect' \in BOOLEAN /\ clientConnect' \in BOOLEAN /\ raced' \in BOOLEAN
  BY <1>1, Zenon DEF TypeOK
<1>4. TypeOK'
  BY <1>1, <1>3 DEF TypeOK
<1>5. RoundInv'
  BY <1>1 DEF RoundInv
<1>6. ConnInv'
  BY <1>1, <1>2, <1>3 DEF ConnInv, IsUp
<1>7. ClientInv'
  BY <1>1 DEF ClientInv
<1>8. StopInv'
  BY <1>1 DEF StopInv
<1>9. FailInv'
  BY <1>1 DEF FailInv
<1>10. AttemptInv'
  BY <1>1, <1>2, <1>3 DEF AttemptInv
<1>11. UpInv'
  BY <1>1, <1>2, <1>3 DEF UpInv, IsUp
<1>12. TokenInv'
  BY <1>1, <1>2 DEF TokenInv, TypeOK
<1>13. GoneInv'
  BY <1>1, <1>2 DEF GoneInv, IsUp, ClientInv
<1>. QED  BY <1>4, <1>5, <1>6, <1>7, <1>8, <1>9, <1>10, <1>11, <1>12, <1>13 DEF IInv

(* stop() begins.                                                          *)
LEMMA ThreadBeginsStopStep ==
    ASSUME IInv, failed = "none", ThreadBegins("stop", FALSE)
    PROVE  IInv'
<1>. USE DEF ThreadBegins, ThreadGoes, ThreadLeaves, round
<1>1. /\ TypeOK /\ RoundInv /\ ConnInv /\ ClientInv /\ StopInv /\ FailInv
      /\ AttemptInv /\ UpInv /\ TokenInv /\ GoneInv
  BY DEF IInv
<1>2. Q' = Q
  BY SameQ
<1>3. connect' \in BOOLEAN /\ clientConnect' \in BOOLEAN /\ raced' \in BOOLEAN
  BY <1>1, Zenon DEF TypeOK
<1>4. TypeOK'
  BY <1>1, <1>3 DEF TypeOK
<1>5. RoundInv'
  BY <1>1 DEF RoundInv
<1>6. ConnInv'
  BY <1>1, <1>2, <1>3 DEF ConnInv, IsUp
<1>7. ClientInv'
  BY <1>1 DEF ClientInv
<1>8. StopInv'
  BY <1>1 DEF StopInv
<1>9. FailInv'
  BY <1>1 DEF FailInv
<1>10. AttemptInv'
  BY <1>1, <1>2, <1>3 DEF AttemptInv
<1>11. UpInv'
  BY <1>1, <1>2, <1>3 DEF UpInv, IsUp
<1>12. TokenInv'
  BY <1>1, <1>2 DEF TokenInv, TypeOK
<1>13. GoneInv'
  BY <1>1, <1>2 DEF GoneInv, IsUp, ClientInv
<1>. QED  BY <1>4, <1>5, <1>6, <1>7, <1>8, <1>9, <1>10, <1>11, <1>12, <1>13 DEF IInv

(* disconnect() begins.                                                    *)
LEMMA ThreadBeginsDisconnectStep ==
    ASSUME IInv, failed = "none", ThreadBegins("disconnect", FALSE)
    PROVE  IInv'
<1>. USE DEF ThreadBegins, ThreadGoes, ThreadLeaves, round
<1>1. /\ TypeOK /\ RoundInv /\ ConnInv /\ ClientInv /\ StopInv /\ FailInv
      /\ AttemptInv /\ UpInv /\ TokenInv /\ GoneInv
  BY DEF IInv
<1>2. Q' = Q
  BY SameQ
<1>3. connect' \in BOOLEAN /\ clientConnect' \in BOOLEAN /\ raced' \in BOOLEAN
  BY <1>1, Zenon DEF TypeOK
<1>4. TypeOK'
  BY <1>1, <1>3 DEF TypeOK
<1>5. RoundInv'
  BY <1>1 DEF RoundInv
<1>6. ConnInv'
  BY <1>1, <1>2, <1>3 DEF ConnInv, IsUp
<1>7. ClientInv'
  BY <1>1 DEF ClientInv
<1>8. StopInv'
  BY <1>1 DEF StopInv
<1>9. FailInv'
  BY <1>1 DEF FailInv
<1>10. AttemptInv'
  BY <1>1, <1>2, <1>3 DEF AttemptInv
<1>11. UpInv'
  BY <1>1, <1>2, <1>3 DEF UpInv, IsUp
<1>12. TokenInv'
  BY <1>1, <1>2 DEF TokenInv, TypeOK
<1>13. GoneInv'
  BY <1>1, <1>2 DEF GoneInv, IsUp, ClientInv
<1>. QED  BY <1>4, <1>5, <1>6, <1>7, <1>8, <1>9, <1>10, <1>11, <1>12, <1>13 DEF IInv

(* connect() sets connect_ of the connector.                               *)
LEMMA ThreadSetsConnectStep ==
    ASSUME IInv, failed = "none", ThreadSets("connect", "start", TRUE)
    PROVE  IInv'
<1>. USE DEF ThreadSets, ThreadGoes, ThreadLeaves, round
<1>1. /\ TypeOK /\ RoundInv /\ ConnInv /\ ClientInv /\ StopInv /\ FailInv
      /\ AttemptInv /\ UpInv /\ TokenInv /\ GoneInv
  BY DEF IInv
<1>2. Q' = Q
  BY SameQ
<1>3. connect' \in BOOLEAN /\ clientConnect' \in BOOLEAN /\ raced' \in BOOLEAN
  BY <1>1, Zenon DEF TypeOK
<1>4. TypeOK'
  BY <1>1, <1>3 DEF TypeOK
<1>5. RoundInv'
  BY <1>1 DEF RoundInv
<1>6. ConnInv'
  BY <1>1, <1>2, <1>3 DEF ConnInv, IsUp
<1>7. ClientInv'
  BY <1>1 DEF ClientInv
<1>8. StopInv'
  BY <1>1 DEF StopInv
<1>9. FailInv'
  BY <1>1 DEF FailInv
<1>10. AttemptInv'
  BY <1>1, <1>2, <1>3 DEF AttemptInv
<1>11. UpInv'
  BY <1>1, <1>2, <1>3 DEF UpInv, IsUp
<1>12. TokenInv'
  BY <1>1, <1>2 DEF TokenInv, TypeOK
<1>13. GoneInv'
  BY <1>1, <1>2 DEF GoneInv, IsUp, ClientInv
<1>. QED  BY <1>4, <1>5, <1>6, <1>7, <1>8, <1>9, <1>10, <1>11, <1>12, <1>13 DEF IInv

(* stop() clears it.                                                       *)
LEMMA ThreadSetsStopStep ==
    ASSUME IInv, failed = "none", ThreadSets("stop", "stopping", FALSE)
    PROVE  IInv'
<1>. USE DEF ThreadSets, ThreadGoes, ThreadLeaves, round
<1>1. /\ TypeOK /\ RoundInv /\ ConnInv /\ ClientInv /\ StopInv /\ FailInv
      /\ AttemptInv /\ UpInv /\ TokenInv /\ GoneInv
  BY DEF IInv
<1>2. Q' = Q
  BY SameQ
<1>3. connect' \in BOOLEAN /\ clientConnect' \in BOOLEAN /\ raced' \in BOOLEAN
  BY <1>1, Zenon DEF TypeOK
<1>4. TypeOK'
  BY <1>1, <1>3 DEF TypeOK
<1>5. RoundInv'
  BY <1>1 DEF RoundInv
<1>6. ConnInv'
  BY <1>1, <1>2, <1>3 DEF ConnInv, IsUp
<1>7. ClientInv'
  BY <1>1 DEF ClientInv
<1>8. StopInv'
  BY <1>1 DEF StopInv
<1>9. FailInv'
  BY <1>1 DEF FailInv
<1>10. AttemptInv'
  BY <1>1, <1>2, <1>3 DEF AttemptInv
<1>11. UpInv'
  BY <1>1, <1>2, <1>3 DEF UpInv, IsUp
<1>12. TokenInv'
  BY <1>1, <1>2 DEF TokenInv, TypeOK
<1>13. GoneInv'
  BY <1>1, <1>2 DEF GoneInv, IsUp, ClientInv
<1>. QED  BY <1>4, <1>5, <1>6, <1>7, <1>8, <1>9, <1>10, <1>11, <1>12, <1>13 DEF IInv

(* So does the destructor.                                                 *)
LEMMA ThreadSetsDestroyStep ==
    ASSUME IInv, failed = "none", ThreadSets("destroy", "destroyed", FALSE)
    PROVE  IInv'
<1>. USE DEF ThreadSets, ThreadGoes, ThreadLeaves, round
<1>1. /\ TypeOK /\ RoundInv /\ ConnInv /\ ClientInv /\ StopInv /\ FailInv
      /\ AttemptInv /\ UpInv /\ TokenInv /\ GoneInv
  BY DEF IInv
<1>2. Q' = Q
  BY SameQ
<1>3. connect' \in BOOLEAN /\ clientConnect' \in BOOLEAN /\ raced' \in BOOLEAN
  BY <1>1, Zenon DEF TypeOK
<1>4. TypeOK'
  BY <1>1, <1>3 DEF TypeOK
<1>5. RoundInv'
  BY <1>1 DEF RoundInv
<1>6. ConnInv'
  BY <1>1, <1>2, <1>3 DEF ConnInv, IsUp
<1>7. ClientInv'
  BY <1>1 DEF ClientInv
<1>8. StopInv'
  BY <1>1 DEF StopInv
<1>9. FailInv'
  BY <1>1 DEF FailInv
<1>10. AttemptInv'
  BY <1>1, <1>2, <1>3 DEF AttemptInv
<1>11. UpInv'
  BY <1>1, <1>2, <1>3 DEF UpInv, IsUp
<1>12. TokenInv'
  BY <1>1, <1>2 DEF TokenInv, TypeOK
<1>13. GoneInv'
  BY <1>1, <1>2 DEF GoneInv, IsUp, ClientInv
<1>. QED  BY <1>4, <1>5, <1>6, <1>7, <1>8, <1>9, <1>10, <1>11, <1>12, <1>13 DEF IInv

(* connect() leaves the token to startInLoop.                              *)
LEMMA ThreadQueuesStartStep ==
    ASSUME IInv, failed = "none", ThreadQueues("start", "startInLoop")
    PROVE  IInv'
<1>. USE DEF ThreadQueues, ThreadGoes, ThreadLeaves, round, Grew
<1>1. /\ TypeOK /\ RoundInv /\ ConnInv /\ ClientInv /\ StopInv /\ FailInv
      /\ AttemptInv /\ UpInv /\ TokenInv /\ GoneInv
  BY DEF IInv
<1>2. PICK f \in Functor : f.op = "startInLoop" /\ pending' = Append(pending, f)
  BY DEF Functor, Plain, Queue
<1>3. Grew(f)
  BY <1>1, <1>2, Pushed
<1>4. TypeOK'
  BY <1>1, <1>3 DEF TypeOK
<1>5. RoundInv'
  BY <1>1 DEF RoundInv
<1>6. ConnInv'
  BY <1>1, <1>2, <1>3 DEF ConnInv, IsUp
<1>7. ClientInv'
  BY <1>1 DEF ClientInv
<1>8. StopInv'
  BY <1>1 DEF StopInv
<1>9. FailInv'
  BY <1>1 DEF FailInv
<1>10. AttemptInv'
  BY <1>1, <1>2, <1>3 DEF AttemptInv
<1>11. UpInv'
  BY <1>1, <1>2, <1>3 DEF UpInv, IsUp
<1>12. TokenInv'
  BY <1>1, <1>2, <1>3 DEF TokenInv
<1>13. GoneInv'
  BY <1>1, <1>2, <1>3 DEF GoneInv, IsUp
<1>. QED  BY <1>4, <1>5, <1>6, <1>7, <1>8, <1>9, <1>10, <1>11, <1>12, <1>13 DEF IInv

(* stop() queues stopInLoop.                                               *)
LEMMA ThreadQueuesStopStep ==
    ASSUME IInv, failed = "none", ThreadQueues("stopping", "stopInLoop")
    PROVE  IInv'
<1>. USE DEF ThreadQueues, ThreadGoes, ThreadLeaves, round, Grew
<1>1. /\ TypeOK /\ RoundInv /\ ConnInv /\ ClientInv /\ StopInv /\ FailInv
      /\ AttemptInv /\ UpInv /\ TokenInv /\ GoneInv
  BY DEF IInv
<1>2. PICK f \in Functor : f.op = "stopInLoop" /\ pending' = Append(pending, f)
  BY DEF Functor, Plain, Queue
<1>3. Grew(f)
  BY <1>1, <1>2, Pushed
<1>4. TypeOK'
  BY <1>1, <1>3 DEF TypeOK
<1>5. RoundInv'
  BY <1>1 DEF RoundInv
<1>6. ConnInv'
  BY <1>1, <1>2, <1>3 DEF ConnInv, IsUp
<1>7. ClientInv'
  BY <1>1 DEF ClientInv
<1>8. StopInv'
  BY <1>1 DEF StopInv
<1>9. FailInv'
  BY <1>1 DEF FailInv
<1>10. AttemptInv'
  BY <1>1, <1>2, <1>3 DEF AttemptInv
<1>11. UpInv'
  BY <1>1, <1>2, <1>3 DEF UpInv, IsUp
<1>12. TokenInv'
  BY <1>1, <1>2, <1>3 DEF TokenInv
<1>13. GoneInv'
  BY <1>1, <1>2, <1>3 DEF GoneInv, IsUp
<1>. QED  BY <1>4, <1>5, <1>6, <1>7, <1>8, <1>9, <1>10, <1>11, <1>12, <1>13 DEF IInv

(* The destructor queues stopInLoop.                                       *)
LEMMA ThreadStopsConnectorStep ==
    ASSUME IInv, failed = "none", ThreadStopsConnector
    PROVE  IInv'
<1>. USE DEF ThreadStopsConnector, ThreadGoes, ThreadLeaves, round, Grew
<1>1. /\ TypeOK /\ RoundInv /\ ConnInv /\ ClientInv /\ StopInv /\ FailInv
      /\ AttemptInv /\ UpInv /\ TokenInv /\ GoneInv
  BY DEF IInv
<1>2. PICK f \in Functor : f.op = "stopInLoop" /\ pending' = Append(pending, f)
  BY DEF Functor, Plain, Queue
<1>3. Grew(f)
  BY <1>1, <1>2, Pushed
<1>4. TypeOK'
  BY <1>1, <1>3 DEF TypeOK
<1>5. RoundInv'
  BY <1>1 DEF RoundInv
<1>6. ConnInv'
  BY <1>1, <1>2, <1>3 DEF ConnInv, IsUp
<1>7. ClientInv'
  BY <1>1 DEF ClientInv
<1>8. StopInv'
  BY <1>1 DEF StopInv
<1>9. FailInv'
  BY <1>1 DEF FailInv
<1>10. AttemptInv'
  BY <1>1, <1>2, <1>3 DEF AttemptInv
<1>11. UpInv'
  BY <1>1, <1>2, <1>3 DEF UpInv, IsUp
<1>12. TokenInv'
  BY <1>1, <1>2, <1>3 DEF TokenInv
<1>13. GoneInv'
  BY <1>1, <1>2, <1>3 DEF GoneInv, IsUp
<1>. QED  BY <1>4, <1>5, <1>6, <1>7, <1>8, <1>9, <1>10, <1>11, <1>12, <1>13 DEF IInv

(* The destructor queues setCloseCallback.                                 *)
LEMMA ThreadDetachesStep ==
    ASSUME IInv, failed = "none", ThreadDetaches
    PROVE  IInv'
<1>. USE DEF ThreadDetaches, ThreadGoes, ThreadLeaves, round, Grew
<1>1. /\ TypeOK /\ RoundInv /\ ConnInv /\ ClientInv /\ StopInv /\ FailInv
      /\ AttemptInv /\ UpInv /\ TokenInv /\ GoneInv
  BY DEF IInv
<1>2. PICK f \in Functor : f.op = "setCloseCallback" /\ f.c = tconn /\ pending' = Append(pending, f)
  BY <1>1 DEF Functor, OfConn, TypeOK, ClientInv, Queue
<1>3. Grew(f)
  BY <1>1, <1>2, Pushed
<1>4. TypeOK'
  BY <1>1, <1>3 DEF TypeOK
<1>5. RoundInv'
  BY <1>1 DEF RoundInv
<1>6. ConnInv'
  BY <1>1, <1>2, <1>3 DEF ConnInv, IsUp
<1>7. ClientInv'
  BY <1>1 DEF ClientInv
<1>8. StopInv'
  BY <1>1 DEF StopInv
<1>9. FailInv'
  BY <1>1 DEF FailInv
<1>10. AttemptInv'
  BY <1>1, <1>2, <1>3 DEF AttemptInv
<1>11. UpInv'
  BY <1>1, <1>2, <1>3 DEF UpInv, IsUp
<1>12. TokenInv'
  BY <1>1, <1>2, <1>3 DEF TokenInv
<1>13. GoneInv'
  BY <1>1, <1>2, <1>3 DEF GoneInv, IsUp
<1>. QED  BY <1>4, <1>5, <1>6, <1>7, <1>8, <1>9, <1>10, <1>11, <1>12, <1>13 DEF IInv

(* The destructor copies connection_.                                      *)
LEMMA ThreadDestroysStep ==
    ASSUME IInv, failed = "none", ThreadDestroys
    PROVE  IInv'
<1>. USE DEF ThreadDestroys, ThreadGoes, ThreadLeaves, round
<1>1. /\ TypeOK /\ RoundInv /\ ConnInv /\ ClientInv /\ StopInv /\ FailInv
      /\ AttemptInv /\ UpInv /\ TokenInv /\ GoneInv
  BY DEF IInv
<1>2. Q' = Q
  BY SameQ
<1>3. TypeOK'
  BY <1>1 DEF TypeOK
<1>4. RoundInv'
  BY <1>1 DEF RoundInv
<1>5. ConnInv'
  BY <1>1, <1>2 DEF ConnInv, IsUp
<1>6. ClientInv'
  BY <1>1 DEF ClientInv
<1>7. StopInv'
  BY <1>1 DEF StopInv
<1>8. FailInv'
  BY <1>1 DEF FailInv
<1>9. AttemptInv'
  BY <1>1, <1>2 DEF AttemptInv
<1>10. UpInv'
  BY <1>1, <1>2 DEF UpInv, IsUp
<1>11. TokenInv'
  BY <1>1, <1>2 DEF TokenInv
<1>12. GoneInv'
  BY <1>1, <1>2 DEF GoneInv, IsUp
<1>. QED  BY <1>3, <1>4, <1>5, <1>6, <1>7, <1>8, <1>9, <1>10, <1>11, <1>12 DEF IInv

(* disconnect() shuts down connection_.                                    *)
LEMMA ThreadShutsDownStep ==
    ASSUME IInv, failed = "none", ThreadShutsDown
    PROVE  IInv'
<1>. USE DEF ThreadShutsDown, ThreadGoes, ThreadLeaves, round
<1>1. /\ TypeOK /\ RoundInv /\ ConnInv /\ ClientInv /\ StopInv /\ FailInv
      /\ AttemptInv /\ UpInv /\ TokenInv /\ GoneInv
  BY DEF IInv
<1>2. Q' = Q
  BY SameQ
<1>3. /\ cstate' \in [Conns -> {"none", "kConnected", "kDisconnecting", "kDisconnected"}]
      /\ \A c \in Conns : /\ IsUp(c)' <=> IsUp(c)
                          /\ ~IsUp(c) => cstate'[c] = cstate[c]
  BY <1>1, ConnsAreNumbers DEF ShutDown, TypeOK, IsUp
<1>4. TypeOK'
  BY <1>1, <1>3 DEF TypeOK
<1>5. RoundInv'
  BY <1>1 DEF RoundInv
<1>6. ConnInv'
  BY <1>1, <1>2, <1>3 DEF ConnInv, IsUp, TypeOK
<1>7. ClientInv'
  BY <1>1 DEF ClientInv
<1>8. StopInv'
  BY <1>1 DEF StopInv
<1>9. FailInv'
  BY <1>1 DEF FailInv
<1>10. AttemptInv'
  BY <1>1, <1>2, <1>3 DEF AttemptInv
<1>11. UpInv'
  BY <1>1, <1>2, <1>3, ConnsAreNumbers DEF UpInv, TypeOK
<1>12. TokenInv'
  BY <1>1, <1>2, <1>3 DEF TokenInv
<1>13. GoneInv'
  BY <1>1, <1>2, <1>3 DEF GoneInv, IsUp
<1>. QED  BY <1>4, <1>5, <1>6, <1>7, <1>8, <1>9, <1>10, <1>11, <1>12, <1>13 DEF IInv

-----------------------------------------------------------------------------
(* What startInLoop does to the attempt: begin it, or leave it and perhaps *)
(* set a timer.                                                            *)
LEMMA StartEffect ==
    ASSUME NEW st, NEW cn \in BOOLEAN, NEW tm \in Nat, StartInLoop(st, cn, tm), sockets \in Nat
    PROVE  Started(st, cn, tm)
<1>. USE DEF Started
<1>1. pending' = pending
  BY DEF StartInLoop
<1>2. CASE st = "kDisconnected" /\ cn /\ Connect(tm)
  <2>1. CASE Connecting /\ timers' = tm
    BY <1>1, <1>2, <2>1 DEF Connecting
  <2>2. CASE /\ state' = "kDisconnected" /\ timers' \in {tm, tm + 1}
             /\ UNCHANGED <<channel, sockets, failed>>
    BY <1>1, <1>2, <2>2
  <2>3. \/ Connecting /\ timers' = tm
        \/ /\ state' = "kDisconnected" /\ timers' \in {tm, tm + 1}
           /\ UNCHANGED <<channel, sockets, failed>>
    BY <1>2 DEF Connect, Rescheduled
  <2>. QED  BY <2>1, <2>2, <2>3
<1>3. CASE st # "kDisconnected" \/ ~cn
  BY <1>3 DEF StartInLoop
<1>. QED  BY <1>2, <1>3 DEF StartInLoop
-----------------------------------------------------------------------------
(* The user in the loop thread.                                            *)

(* connect() finds the connector as it was built, or has been called       *)
(* before.                                                                 *)
LEMMA CallConnectStep ==
    ASSUME IInv, failed = "none", ~restarting, CallConnect
    PROVE  IInv'
<1>. USE DEF Started
<1>1. /\ TypeOK /\ RoundInv /\ ConnInv /\ ClientInv /\ StopInv /\ FailInv
      /\ AttemptInv /\ UpInv /\ TokenInv /\ GoneInv
  BY DEF IInv
<1>2. /\ phase = "events" /\ todo' = todo \ {UserCh} /\ client = "alive" /\ calls > 0
      /\ calls' = calls - 1 /\ connects' = connects + 1 /\ stopped' = "no" /\ clientConnect' /\ connect'
      /\ UNCHANGED <<phase, slow, active, batch, retry, nextConnId, added, keeps, restarting, tpc, tconn,
                     raced, ready, client, connection, cstate, closeCallback, hack, destroyer>>
  BY DEF CallConnect, Calls, Handles, thread
<1>3. Started(state, TRUE, timers)
  BY <1>1, StartEffect DEF CallConnect, TypeOK
<1>4. Q' = Q
  BY <1>2, <1>3, SameQ
<1>5. connect' \in BOOLEAN /\ clientConnect' \in BOOLEAN
  BY DEF CallConnect
<1>6. TypeOK'
  BY <1>1, <1>2, <1>3, <1>5 DEF TypeOK
<1>7. RoundInv'
  BY <1>1, <1>2 DEF RoundInv
<1>8. ConnInv'
  BY <1>1, <1>2, <1>3, <1>4 DEF ConnInv, IsUp
<1>9. ClientInv'
  BY <1>1, <1>2 DEF ClientInv
<1>10. StopInv'
  BY <1>1, <1>2 DEF StopInv
<1>11. FailInv'
  BY <1>1, <1>2, <1>3 DEF FailInv, TokenInv, ClientInv, TypeOK
<1>12. failed' = "none" => AttemptInv'
  BY <1>1, <1>2, <1>3, <1>4 DEF AttemptInv, TypeOK
<1>13. failed' = "none" => UpInv'
  BY <1>1, <1>2, <1>3, <1>4 DEF UpInv, IsUp
<1>14. failed' = "none" => TokenInv'
  BY <1>1, <1>2, <1>3, <1>4 DEF TokenInv, AttemptInv, TypeOK
<1>15. failed' = "none" => GoneInv'
  BY <1>1, <1>2, <1>3, <1>4 DEF GoneInv, ClientInv, IsUp
<1>. QED  BY <1>6, <1>7, <1>8, <1>9, <1>10, <1>11, <1>12, <1>13, <1>14, <1>15 DEF IInv

(* disconnect() shuts down connection_.                                    *)
LEMMA CallDisconnectStep ==
    ASSUME IInv, failed = "none", ~restarting, CallDisconnect
    PROVE  IInv'
<1>. USE DEF CallDisconnect, Calls, Handles, attempt, thread
<1>1. /\ TypeOK /\ RoundInv /\ ConnInv /\ ClientInv /\ StopInv /\ FailInv
      /\ AttemptInv /\ UpInv /\ TokenInv /\ GoneInv
  BY DEF IInv
<1>2. Q' = Q
  BY SameQ
<1>3. connect' \in BOOLEAN /\ clientConnect' \in BOOLEAN /\ raced' \in BOOLEAN
  BY <1>1, Zenon DEF TypeOK
<1>4. /\ cstate' \in [Conns -> {"none", "kConnected", "kDisconnecting", "kDisconnected"}]
      /\ \A c \in Conns : /\ IsUp(c)' <=> IsUp(c)
                          /\ ~IsUp(c) => cstate'[c] = cstate[c]
  BY <1>1, ConnsAreNumbers DEF ShutDown, TypeOK, IsUp
<1>5. TypeOK'
  BY <1>1, <1>3, <1>4 DEF TypeOK
<1>6. RoundInv'
  BY <1>1 DEF RoundInv
<1>7. ConnInv'
  BY <1>1, <1>2, <1>4 DEF ConnInv, IsUp, TypeOK
<1>8. ClientInv'
  BY <1>1 DEF ClientInv
<1>9. StopInv'
  BY <1>1 DEF StopInv
<1>10. FailInv'
  BY <1>1 DEF FailInv
<1>11. AttemptInv'
  BY <1>1, <1>2, <1>3, <1>4 DEF AttemptInv
<1>12. UpInv'
  BY <1>1, <1>2, <1>4, ConnsAreNumbers DEF UpInv, TypeOK
<1>13. TokenInv'
  BY <1>1, <1>2, <1>3, <1>4 DEF TokenInv
<1>14. GoneInv'
  BY <1>1, <1>2, <1>4 DEF GoneInv
<1>. QED  BY <1>5, <1>6, <1>7, <1>8, <1>9, <1>10, <1>11, <1>12, <1>13, <1>14 DEF IInv

(* The destructor detaches the connection, which is up.                    *)
LEMMA CallDestroyConnectedStep ==
    ASSUME IInv, failed = "none", ~restarting, CallDestroyConnected
    PROVE  IInv'
<1>. USE DEF CallDestroyConnected, Calls, Handles, attempt, thread
<1>1. /\ TypeOK /\ RoundInv /\ ConnInv /\ ClientInv /\ StopInv /\ FailInv
      /\ AttemptInv /\ UpInv /\ TokenInv /\ GoneInv
  BY DEF IInv
<1>2. Q' = Q
  BY SameQ
<1>3. /\ connection \in Conns /\ IsUp(connection) /\ state = "kConnected" /\ channel # "in"
      /\ closeCallback' = [closeCallback EXCEPT ![connection] = "detached"]
  BY <1>1 DEF TypeOK, UpInv, AttemptInv, ClientInv
<1>4. TypeOK'
  BY <1>1 DEF TypeOK
<1>5. RoundInv'
  BY <1>1 DEF RoundInv
<1>6. ConnInv'
  BY <1>1, <1>2, <1>3 DEF ConnInv, IsUp
<1>7. ClientInv'
  BY <1>1 DEF ClientInv
<1>8. StopInv'
  BY <1>1 DEF StopInv
<1>9. FailInv'
  BY <1>1, <1>3 DEF FailInv
<1>10. AttemptInv'
  BY <1>1, <1>2, <1>3 DEF AttemptInv
<1>11. UpInv'
  BY <1>1, <1>2, <1>3 DEF UpInv, IsUp
<1>12. TokenInv'
  BY <1>1, <1>2, <1>3 DEF TokenInv
<1>13. GoneInv'
  BY <1>1, <1>2, <1>3 DEF GoneInv, ConnInv, IsUp, TypeOK
<1>. QED  BY <1>4, <1>5, <1>6, <1>7, <1>8, <1>9, <1>10, <1>11, <1>12, <1>13 DEF IInv

-----------------------------------------------------------------------------
(* removeAndResetChannel is the only one to queue resetChannel, and an     *)
(* attempt has none queued.                                                *)
LEMMA ResetQueued ==
    ASSUME TypeOK, AttemptInv, state = "kConnecting", pending' = ResetLater,
           \/ batch' = batch
           \/ batch # <<>> /\ batch' = Tail(batch) /\ Head(batch).op = "stopInLoop"
    PROVE  ResetComes
<1>. USE DEF ResetComes
<1>1. PICK f \in Functor : f.op = "resetChannel" /\ pending' = Append(pending, f)
  BY DEF ResetLater, Functor, Plain
<1>2. ~Has(Q, "resetChannel") /\ Once(Q, "resetChannel")
  BY DEF AttemptInv
<1>3. f.op \notin OfConn
  BY <1>1 DEF OfConn
<1>4. CASE batch' = batch
  <2>1. Grew(f)
    BY <1>1, <1>4, Pushed
  <2>. QED  BY <1>1, <1>2, <1>3, <1>4, <2>1 DEF Grew, TypeOK
<1>5. CASE batch # <<>> /\ batch' = Tail(batch) /\ Head(batch).op = "stopInLoop"
  <2>1. /\ Q # <<>> /\ Head(Q) = Head(batch) /\ Tail(Q) \in Seq(Functor) /\ batch' \in Seq(Functor)
        /\ Q' = Append(Tail(Q), f) /\ pending' \in Seq(Functor)
    BY <1>1, <1>5, Popped
  <2>2. Q \in Seq(Functor)
    BY QType
  <2>3. /\ \A op : Has(Tail(Q), op) => Has(Q, op)
        /\ \A op, c : HasFor(Tail(Q), op, c) => HasFor(Q, op, c)
        /\ \A op, c : HasFor(Q, op, c) => HasFor(Tail(Q), op, c) \/ (Head(Q).op = op /\ Head(Q).c = c)
        /\ \A op : Once(Q, op) => Once(Tail(Q), op)
    BY <2>1, <2>2, HasTail
  <2>4. /\ \A op : Has(Q', op) <=> Has(Tail(Q), op) \/ f.op = op
        /\ \A op, c : HasFor(Q', op, c) <=> HasFor(Tail(Q), op, c) \/ (f.op = op /\ f.c = c)
        /\ \A op : Once(Tail(Q), op) /\ (f.op = op => ~Has(Tail(Q), op)) => Once(Q', op)
    <3>1. PICK s \in Seq(Functor) : s = Tail(Q)
      BY <2>1
    <3>2. PICK t : t = Append(s, f) /\ t = Q'
      BY <2>1, <3>1
    <3>3. /\ \A op : Has(t, op) <=> Has(s, op) \/ f.op = op
          /\ \A op, c : HasFor(t, op, c) <=> HasFor(s, op, c) \/ (f.op = op /\ f.c = c)
          /\ \A op : Once(s, op) /\ (f.op = op => ~Has(s, op)) => Once(t, op)
      BY <3>2, HasAppend
    <3>. QED  BY <3>1, <3>2, <3>3
  <2>5. Head(Q).op \notin OfConn
    BY <1>5, <2>1 DEF OfConn
  <2>. QED  BY <1>1, <1>2, <1>3, <2>1, <2>3, <2>4, <2>5
<1>. QED  BY <1>4, <1>5

(* What it does to an attempt that is given up.                            *)
LEMMA TakeDownEffect ==
    ASSUME TypeOK, AttemptInv, NEW current, NEW cn \in BOOLEAN, TakeDown(current, cn),
           state = "kConnecting"
    PROVE  /\ channel' = "removed" /\ pending' = ResetLater /\ ready' = ready \ {ConnectorCh}
           /\ sockets' = 0 /\ state' = "kDisconnected"
           /\ timers' = IF cn THEN timers + 1 ELSE timers
           /\ failed' = failed => RemoveAllowed(ConnectorCh, current) \/ failed = "removeChannel:activeChannels_"
           /\ failed' \in {failed, "removeChannel:activeChannels_"}
           /\ failed' # failed => ~RemoveAllowed(ConnectorCh, current)
BY DEF TakeDown, RemoveAndResetChannel, ClosedByRetry, Rescheduled, AttemptInv

(* What stopInLoop does, called or run as a functor.                       *)
LEMMA StopEffect ==
    ASSUME TypeOK, AttemptInv, failed = "none", NEW current, NEW cn \in BOOLEAN, StopInLoop(current, cn),
           \/ batch' = batch
           \/ batch # <<>> /\ batch' = Tail(batch) /\ Head(batch).op = "stopInLoop"
    PROVE  Stopped(current, cn)
<1>. USE DEF ResetComes, Stopped
<1>1. CASE state = "kConnecting"
  <2>1. TakeDown(current, cn)
    BY <1>1 DEF StopInLoop
  <2>2. /\ channel' = "removed" /\ pending' = ResetLater /\ ready' = ready \ {ConnectorCh}
        /\ sockets' = 0 /\ state' = "kDisconnected"
        /\ timers' = IF cn THEN timers + 1 ELSE timers
        /\ failed' = "none" => RemoveAllowed(ConnectorCh, current)
        /\ failed' \in {"none", "removeChannel:activeChannels_"}
        /\ failed' # "none" => ~RemoveAllowed(ConnectorCh, current)
    BY <1>1, <2>1, TakeDownEffect
  <2>3. timers' \in Nat /\ ((cn /\ timers' = timers + 1) \/ (~cn /\ timers' = timers))
    BY <2>2 DEF TypeOK
  <2>4. ResetComes
    BY <1>1, <2>2, ResetQueued
  <2>. QED  BY <1>1, <2>2, <2>3, <2>4
<1>2. CASE state # "kConnecting"
  <2>1. UNCHANGED <<state, channel, sockets, timers, ready, failed, pending>>
    BY <1>2 DEF StopInLoop
  <2>2. /\ pending' \in Seq(Functor) /\ timers' \in Nat
        /\ Has(Q, "resetChannel") <=> channel' = "removed"
        /\ Once(Q, "resetChannel")
    BY <2>1 DEF TypeOK, AttemptInv
  <2>3. CASE batch' = batch
    <3>1. Q' = Q
      BY <2>1, <2>3 DEF Q
    <3>. QED  BY <1>2, <2>1, <2>2, <2>3, <3>1 DEF TypeOK
  <2>4. CASE batch # <<>> /\ batch' = Tail(batch) /\ Head(batch).op = "stopInLoop"
    <3>1. /\ Q # <<>> /\ Head(Q) = Head(batch) /\ batch' \in Seq(Functor) /\ Q' = Tail(Q)
      BY <2>1, <2>4, Popped
    <3>2. /\ \A op : Has(Q', op) => Has(Q, op)
          /\ \A op : Has(Q, op) => Has(Q', op) \/ Head(Q).op = op
          /\ \A op, c : HasFor(Q', op, c) => HasFor(Q, op, c)
          /\ \A op, c : HasFor(Q, op, c) => HasFor(Q', op, c) \/ (Head(Q).op = op /\ Head(Q).c = c)
          /\ \A op : Once(Q, op) => Once(Q', op)
      BY <3>1, QType, HasTail
    <3>3. Head(Q).op \notin OfConn /\ Head(Q).op = "stopInLoop"
      BY <2>4, <3>1 DEF OfConn
    <3>. QED  BY <1>2, <2>1, <2>2, <3>1, <3>2, <3>3
  <2>. QED  BY <2>3, <2>4
<1>. QED  BY <1>1, <1>2

-----------------------------------------------------------------------------
(* The steps that give an attempt up.                                      *)

(* The attempt failed: handleError, or handleWrite with an error.          *)
LEMMA HandleFailureStep ==
    ASSUME IInv, failed = "none", ~restarting, HandleFailure, UNCHANGED clientVars
    PROVE  IInv'
<1>. USE DEF Stopped
<1>1. /\ TypeOK /\ RoundInv /\ ConnInv /\ ClientInv /\ StopInv /\ FailInv
      /\ AttemptInv /\ UpInv /\ TokenInv /\ GoneInv
  BY DEF IInv
<1>2. /\ phase = "events" /\ todo' = todo \ {ConnectorCh} /\ state = "kConnecting"
      /\ StopInLoop(ConnectorCh, connect)
      /\ UNCHANGED <<phase, slow, active, batch, connect, client, clientConnect, retry, connection,
                     nextConnId, cstate, closeCallback, added, restarting, tpc, tconn, calls,
                     connects, destroyer, stopped, raced>>
  BY DEF HandleFailure, Handles, StopInLoop, clientVars, conns, thread, user
<1>3. Stopped(ConnectorCh, connect)
  BY <1>1, <1>2, StopEffect DEF TypeOK
<1>4. /\ \A c \in Conns : ConnCh(c) # ConnectorCh
      /\ TimerCh # ConnectorCh /\ ConnectorCh # UserCh
  BY ChannelsDiffer
<1>5. state = "kConnecting"
  BY <1>2
<1>6. TypeOK'
  BY <1>1, <1>2, <1>3, <1>5 DEF TypeOK
<1>7. RoundInv'
  BY <1>1, <1>2, <1>3 DEF RoundInv
<1>8. ConnInv'
  BY <1>1, <1>2, <1>3, <1>4 DEF ConnInv, IsUp, OfConn
<1>9. ClientInv'
  BY <1>1, <1>2 DEF ClientInv
<1>10. StopInv'
  BY <1>1, <1>2, <1>3 DEF StopInv, TypeOK
<1>11. FailInv'
  BY <1>1, <1>2, <1>3 DEF FailInv, RemoveAllowed, AttemptInv
<1>12. failed' = "none" => AttemptInv'
  BY <1>1, <1>2, <1>3, <1>4 DEF AttemptInv, RoundInv
<1>13. failed' = "none" => UpInv'
  BY <1>1, <1>2, <1>3, <1>4 DEF UpInv, IsUp
<1>14. failed' = "none" => TokenInv'
  BY <1>1, <1>2, <1>3, <1>4 DEF TokenInv, TypeOK
<1>15. failed' = "none" => GoneInv'
  BY <1>1, <1>2, <1>3, <1>4 DEF GoneInv, IsUp, OfConn
<1>. QED  BY <1>6, <1>7, <1>8, <1>9, <1>10, <1>11, <1>12, <1>13, <1>14, <1>15 DEF IInv

(* stop() in the loop.                                                     *)
LEMMA CallStopStep ==
    ASSUME IInv, failed = "none", ~restarting, CallStop
    PROVE  IInv'
<1>. USE DEF Stopped
<1>1. /\ TypeOK /\ RoundInv /\ ConnInv /\ ClientInv /\ StopInv /\ FailInv
      /\ AttemptInv /\ UpInv /\ TokenInv /\ GoneInv
  BY DEF IInv
<1>2. /\ phase = "events" /\ todo' = todo \ {UserCh} /\ client = "alive"
      /\ calls > 0 /\ calls' = calls - 1 /\ StopInLoop(UserCh, FALSE)
      /\ stopped' = (IF tpc \in {"connect", "start"} THEN "no" ELSE "done")
      /\ UNCHANGED <<phase, slow, active, batch, client, retry, connection, nextConnId, cstate,
                     closeCallback, added, restarting, tpc, tconn, connects, destroyer, raced>>
  BY DEF CallStop, Calls, Handles, thread
<1>3. Stopped(UserCh, FALSE)
  BY <1>1, <1>2, StopEffect DEF TypeOK
<1>4. /\ \A c \in Conns : ConnCh(c) # ConnectorCh
      /\ TimerCh # ConnectorCh /\ ConnectorCh # UserCh
  BY ChannelsDiffer
<1>5. /\ connect' = FALSE /\ connect' \in BOOLEAN
      /\ clientConnect' = FALSE /\ clientConnect' \in BOOLEAN
  BY DEF CallStop
<1>6. TypeOK'
  BY <1>1, <1>2, <1>3, <1>5 DEF TypeOK
<1>7. RoundInv'
  BY <1>1, <1>2, <1>3 DEF RoundInv
<1>8. ConnInv'
  BY <1>1, <1>2, <1>3, <1>4 DEF ConnInv, IsUp, OfConn
<1>9. ClientInv'
  BY <1>1, <1>2 DEF ClientInv
<1>10. StopInv'
  BY <1>1, <1>2, <1>3, <1>5 DEF StopInv, TypeOK
<1>11. FailInv'
  BY <1>1, <1>2, <1>3, <1>5 DEF FailInv, RemoveAllowed, AttemptInv
<1>12. failed' = "none" => AttemptInv'
  BY <1>1, <1>2, <1>3, <1>4 DEF AttemptInv, RoundInv, RemoveAllowed
<1>13. failed' = "none" => UpInv'
  BY <1>1, <1>2, <1>3, <1>4 DEF UpInv, IsUp
<1>14. failed' = "none" => TokenInv'
  BY <1>1, <1>2, <1>3, <1>4 DEF TokenInv, TypeOK
<1>15. failed' = "none" => GoneInv'
  BY <1>1, <1>2, <1>3, <1>4 DEF GoneInv, ClientInv, IsUp, OfConn
<1>. QED  BY <1>6, <1>7, <1>8, <1>9, <1>10, <1>11, <1>12, <1>13, <1>14, <1>15 DEF IInv

(* The destructor, in the loop and without a connection.                   *)
LEMMA CallDestroyStep ==
    ASSUME IInv, failed = "none", ~restarting, CallDestroy
    PROVE  IInv'
<1>. USE DEF Stopped
<1>1. /\ TypeOK /\ RoundInv /\ ConnInv /\ ClientInv /\ StopInv /\ FailInv
      /\ AttemptInv /\ UpInv /\ TokenInv /\ GoneInv
  BY DEF IInv
<1>2. /\ phase = "events" /\ todo' = todo \ {UserCh} /\ client = "alive"
      /\ calls > 0 /\ calls' = calls - 1 /\ StopInLoop(UserCh, FALSE) /\ connection = 0 /\ tpc = "idle"
      /\ client' = "dead" /\ destroyer' = "loop"
      /\ UNCHANGED <<phase, slow, active, batch, clientConnect, retry, connection, nextConnId, cstate,
                     closeCallback, added, restarting, tpc, tconn, connects, stopped, raced>>
  BY DEF CallDestroy, Calls, Handles, thread
<1>3. Stopped(UserCh, FALSE)
  BY <1>1, <1>2, StopEffect DEF TypeOK
<1>4. /\ \A c \in Conns : ConnCh(c) # ConnectorCh
      /\ TimerCh # ConnectorCh /\ ConnectorCh # UserCh
  BY ChannelsDiffer
<1>5. connect' = FALSE /\ connect' \in BOOLEAN
  BY DEF CallDestroy
<1>6. TypeOK'
  BY <1>1, <1>2, <1>3, <1>5 DEF TypeOK
<1>7. RoundInv'
  BY <1>1, <1>2, <1>3 DEF RoundInv
<1>8. ConnInv'
  BY <1>1, <1>2, <1>3, <1>4 DEF ConnInv, IsUp, OfConn
<1>9. ClientInv'
  BY <1>1, <1>2 DEF ClientInv
<1>10. StopInv'
  BY <1>1, <1>2, <1>3, <1>5 DEF StopInv, TypeOK
<1>11. FailInv'
  BY <1>1, <1>2, <1>3, <1>5 DEF FailInv, RemoveAllowed, AttemptInv
<1>12. failed' = "none" => AttemptInv'
  BY <1>1, <1>2, <1>3, <1>4 DEF AttemptInv, RoundInv, RemoveAllowed
<1>13. failed' = "none" => UpInv'
  BY <1>1, <1>2, <1>3, <1>4 DEF UpInv, IsUp
<1>14. failed' = "none" => TokenInv'
  BY <1>1, <1>2, <1>3, <1>4 DEF TokenInv, TypeOK
<1>15. failed' = "none" => GoneInv'
  BY <1>1, <1>2, <1>3, <1>4, <1>5, ConnsAreNumbers DEF GoneInv, ConnInv, IsUp, OfConn
<1>. QED  BY <1>6, <1>7, <1>8, <1>9, <1>10, <1>11, <1>12, <1>13, <1>14, <1>15 DEF IInv

(* stopInLoop as a functor.                                                *)
LEMMA RunStopStep ==
    ASSUME IInv, failed = "none", ~restarting, RunStop
    PROVE  IInv'
<1>. USE DEF Stopped
<1>1. /\ TypeOK /\ RoundInv /\ ConnInv /\ ClientInv /\ StopInv /\ FailInv
      /\ AttemptInv /\ UpInv /\ TokenInv /\ GoneInv
  BY DEF IInv
<1>2. /\ phase = "functors" /\ StopInLoop("none", connect) /\ stopped' \in {stopped, "done"}
      /\ stopped' # stopped => stopped = "asked" /\ tpc \notin {"stop", "stopping"}
      /\ batch # <<>> /\ batch' = Tail(batch) /\ Head(batch).op = "stopInLoop"
      /\ UNCHANGED <<phase, slow, active, todo, connect, client, clientConnect, retry, connection,
                     nextConnId, cstate, closeCallback, added, restarting, tpc, tconn, calls,
                     connects, destroyer, raced>>
  BY DEF RunStop, Runs, conns, thread
<1>3. Stopped("none", connect)
  BY <1>1, <1>2, StopEffect DEF TypeOK
<1>4. /\ \A c \in Conns : ConnCh(c) # ConnectorCh
      /\ TimerCh # ConnectorCh /\ ConnectorCh # UserCh
  BY ChannelsDiffer
<1>5. todo = {}
  BY <1>1, <1>2 DEF RoundInv
<1>6. TypeOK'
  BY <1>1, <1>2, <1>3, <1>5 DEF TypeOK
<1>7. RoundInv'
  BY <1>1, <1>2, <1>3 DEF RoundInv
<1>8. ConnInv'
  BY <1>1, <1>2, <1>3, <1>4 DEF ConnInv, IsUp, OfConn
<1>9. ClientInv'
  BY <1>1, <1>2 DEF ClientInv
<1>10. StopInv'
  BY <1>1, <1>2, <1>3 DEF StopInv, TypeOK
<1>11. FailInv'
  BY <1>1, <1>2, <1>3 DEF FailInv, RemoveAllowed, AttemptInv
<1>12. failed' = "none" => AttemptInv'
  BY <1>1, <1>2, <1>3, <1>4 DEF AttemptInv, RoundInv
<1>13. failed' = "none" => UpInv'
  BY <1>1, <1>2, <1>3, <1>4 DEF UpInv, IsUp
<1>14. failed' = "none" => TokenInv'
  BY <1>1, <1>2, <1>3, <1>4 DEF TokenInv, TypeOK
<1>15. failed' = "none" => GoneInv'
  BY <1>1, <1>2, <1>3, <1>4 DEF GoneInv, IsUp, OfConn
<1>. QED  BY <1>6, <1>7, <1>8, <1>9, <1>10, <1>11, <1>12, <1>13, <1>14, <1>15 DEF IInv

-----------------------------------------------------------------------------
(* The steps that make an attempt.                                         *)

(* startInLoop as a functor.                                               *)
LEMMA RunStartStep ==
    ASSUME IInv, failed = "none", ~restarting, RunStart
    PROVE  IInv'
<1>. USE DEF Shrank, Started
<1>1. /\ TypeOK /\ RoundInv /\ ConnInv /\ ClientInv /\ StopInv /\ FailInv
      /\ AttemptInv /\ UpInv /\ TokenInv /\ GoneInv
  BY DEF IInv
<1>2. /\ phase = "functors" /\ StartInLoop(state, connect, timers)
      /\ batch # <<>> /\ batch' = Tail(batch) /\ Head(batch).op = "startInLoop"
      /\ UNCHANGED <<phase, slow, active, todo, ready, connect, client, clientConnect, retry, connection,
                     nextConnId, cstate, closeCallback, added, restarting, tpc, tconn, calls,
                     connects, destroyer, stopped, raced>>
  BY DEF RunStart, Runs, clientVars, conns, thread, user
<1>3. Started(state, connect, timers)
  BY <1>1, <1>2, StartEffect DEF TypeOK
<1>4. batch' \in Seq(Functor) /\ Head(Q) = Head(batch) /\ Head(batch) \in Functor /\ Q # <<>>
  BY <1>1, <1>2, <1>3, Popped
<1>5. Shrank
  BY <1>1, <1>2, <1>3, Ran
<1>6. TypeOK'
  BY <1>1, <1>2, <1>3, <1>4 DEF TypeOK
<1>7. RoundInv'
  BY <1>1, <1>2 DEF RoundInv
<1>8. ConnInv'
  BY <1>1, <1>2, <1>3, <1>4, <1>5 DEF ConnInv, IsUp
<1>9. ClientInv'
  BY <1>1, <1>2 DEF ClientInv
<1>10. StopInv'
  BY <1>1, <1>2, <1>3 DEF StopInv, TypeOK
<1>11. FailInv'
  BY <1>1, <1>2, <1>3, <1>4, <1>5 DEF FailInv, TokenInv, GoneInv, TypeOK
<1>12. failed' = "none" => AttemptInv'
  BY <1>1, <1>2, <1>3, <1>4, <1>5 DEF AttemptInv
<1>13. failed' = "none" => UpInv'
  BY <1>1, <1>2, <1>3, <1>4, <1>5 DEF UpInv, IsUp
<1>14. failed' = "none" => TokenInv'
  BY <1>1, <1>2, <1>3, <1>4, <1>5 DEF TokenInv, AttemptInv, TypeOK
<1>15. failed' = "none" => GoneInv'
  BY <1>1, <1>2, <1>3, <1>4, <1>5 DEF GoneInv, IsUp
<1>. QED  BY <1>6, <1>7, <1>8, <1>9, <1>10, <1>11, <1>12, <1>13, <1>14, <1>15 DEF IInv

(* A retry timer fires.                                                    *)
LEMMA RunRetryStep ==
    ASSUME IInv, failed = "none", ~restarting, RunRetry, UNCHANGED clientVars
    PROVE  IInv'
<1>. USE DEF Started
<1>1. /\ TypeOK /\ RoundInv /\ ConnInv /\ ClientInv /\ StopInv /\ FailInv
      /\ AttemptInv /\ UpInv /\ TokenInv /\ GoneInv
  BY DEF IInv
<1>2. /\ phase = "events" /\ StartInLoop(state, connect, timers - 1) /\ timers > 0
      /\ TimerCh \in todo /\ todo' = todo \ {TimerCh} /\ ready' = ready \ {TimerCh}
      /\ UNCHANGED <<phase, slow, active, batch, connect, client, clientConnect, retry, connection,
                     nextConnId, cstate, closeCallback, added, restarting, tpc, tconn, calls,
                     connects, destroyer, stopped, raced>>
  BY DEF RunRetry, Handles, clientVars, conns, thread, user
<1>3. Started(state, connect, timers - 1)
  <2>1. timers - 1 \in Nat
    BY <1>1, <1>2 DEF TypeOK
  <2>2. PICK tm \in Nat : tm = timers - 1
    BY <2>1
  <2>3. StartInLoop(state, connect, tm) /\ tm + 1 = timers
    BY <1>1, <1>2, <2>2 DEF TypeOK
  <2>. QED  BY <1>1, <2>2, <2>3, StartEffect DEF TypeOK
<1>4. Q' = Q
  BY <1>2, <1>3, SameQ
<1>5. ConnectorCh # TimerCh
  BY ChannelsDiffer
<1>6. TypeOK'
  BY <1>1, <1>2, <1>3 DEF TypeOK
<1>7. RoundInv'
  BY <1>1, <1>2 DEF RoundInv
<1>8. ConnInv'
  BY <1>1, <1>2, <1>3, <1>4, <1>5 DEF ConnInv, IsUp
<1>9. ClientInv'
  BY <1>1, <1>2 DEF ClientInv
<1>10. StopInv'
  BY <1>1, <1>2, <1>3 DEF StopInv, TypeOK
<1>11. FailInv'
  BY <1>1, <1>2, <1>3, <1>4, <1>5 DEF FailInv, TokenInv, AttemptInv, GoneInv, TypeOK
<1>12. failed' = "none" => AttemptInv'
  BY <1>1, <1>2, <1>3, <1>4, <1>5 DEF AttemptInv, TypeOK
<1>13. failed' = "none" => UpInv'
  BY <1>1, <1>2, <1>3, <1>4, <1>5 DEF UpInv, IsUp
<1>14. failed' = "none" => TokenInv'
  BY <1>1, <1>2, <1>3, <1>4, <1>5 DEF TokenInv, AttemptInv, TypeOK
<1>15. failed' = "none" => GoneInv'
  BY <1>1, <1>2, <1>3, <1>4, <1>5 DEF GoneInv, IsUp
<1>. QED  BY <1>6, <1>7, <1>8, <1>9, <1>10, <1>11, <1>12, <1>13, <1>14, <1>15 DEF IInv

(* restart(): the channel of the last attempt is gone.                     *)
LEMMA RestartStep ==
    ASSUME IInv, failed = "none", Restart
    PROVE  IInv'
<1>. USE DEF Started
<1>1. /\ TypeOK /\ RoundInv /\ ConnInv /\ ClientInv /\ StopInv /\ FailInv
      /\ AttemptInv /\ UpInv /\ TokenInv /\ GoneInv
  BY DEF IInv
<1>2. /\ restarting /\ restarting' = FALSE /\ StartInLoop("kDisconnected", TRUE, timers)
      /\ UNCHANGED <<phase, slow, active, todo, batch, ready, client, clientConnect, retry, connection,
                     nextConnId, cstate, closeCallback, added, tpc, tconn, calls, connects,
                     destroyer, stopped, raced>>
  BY DEF Restart, round, conns, thread, user
<1>3. Started("kDisconnected", TRUE, timers)
  BY <1>1, <1>2, StartEffect DEF TypeOK
<1>4. Q' = Q
  BY <1>2, <1>3, SameQ
<1>5. connect' = TRUE /\ connect' \in BOOLEAN /\ restarting' \in BOOLEAN
  BY <1>2 DEF Restart
<1>6. channel = "none" /\ failed' = "none"
  BY <1>1, <1>2, <1>3 DEF UpInv, AttemptInv, TypeOK
<1>7. TypeOK'
  BY <1>1, <1>2, <1>3, <1>5 DEF TypeOK
<1>8. RoundInv'
  BY <1>1, <1>2 DEF RoundInv
<1>9. ConnInv'
  BY <1>1, <1>2, <1>3, <1>4, <1>5 DEF ConnInv, IsUp
<1>10. ClientInv'
  BY <1>1, <1>2 DEF ClientInv
<1>11. StopInv'
  BY <1>1, <1>2, <1>3, <1>5 DEF StopInv, TypeOK
<1>12. FailInv'
  BY <1>1, <1>2, <1>6 DEF FailInv, GoneInv
<1>13. failed' = "none" => AttemptInv'
  BY <1>1, <1>2, <1>3, <1>4, <1>5, <1>6 DEF AttemptInv, UpInv
<1>14. failed' = "none" => UpInv'
  BY <1>1, <1>2, <1>3, <1>4, <1>5 DEF UpInv, IsUp
<1>15. failed' = "none" => TokenInv'
  BY <1>1, <1>2, <1>3, <1>4, <1>5, <1>6 DEF TokenInv, UpInv, TypeOK
<1>16. failed' = "none" => GoneInv'
  BY <1>1, <1>2, <1>3, <1>4, <1>5 DEF GoneInv, IsUp
<1>. QED  BY <1>7, <1>8, <1>9, <1>10, <1>11, <1>12, <1>13, <1>14, <1>15, <1>16 DEF IInv

-----------------------------------------------------------------------------
(* The other functors.                                                     *)

(* The Channel of the attempt is deleted.                                  *)
LEMMA RunResetStep ==
    ASSUME IInv, failed = "none", ~restarting, RunReset, UNCHANGED clientVars
    PROVE  IInv'
<1>. USE DEF Shrank
<1>1. /\ TypeOK /\ RoundInv /\ ConnInv /\ ClientInv /\ StopInv /\ FailInv
      /\ AttemptInv /\ UpInv /\ TokenInv /\ GoneInv
  BY DEF IInv
<1>2. /\ phase = "functors" /\ channel' = "none"
      /\ batch # <<>> /\ batch' = Tail(batch) /\ Head(batch).op = "resetChannel"
      /\ UNCHANGED <<phase, slow, active, todo, pending, failed, ready, sockets, timers, state, connect,
                     client, clientConnect, retry, connection, nextConnId, cstate, closeCallback,
                     added, restarting, tpc, tconn, calls, connects, destroyer, stopped, raced>>
  BY DEF RunReset, Runs, attempt, clientVars, conns, thread, user
<1>3. batch' \in Seq(Functor) /\ Head(Q) = Head(batch) /\ Head(batch) \in Functor /\ Q # <<>>
  BY <1>1, <1>2, Popped
<1>4. Shrank
  BY <1>1, <1>2, Ran
<1>5. TypeOK'
  BY <1>1, <1>2, <1>3 DEF TypeOK
<1>6. RoundInv'
  BY <1>1, <1>2 DEF RoundInv
<1>7. ConnInv'
  BY <1>1, <1>2, <1>3, <1>4 DEF ConnInv, IsUp
<1>8. ClientInv'
  BY <1>1, <1>2 DEF ClientInv
<1>9. StopInv'
  BY <1>1, <1>2 DEF StopInv
<1>10. FailInv'
  BY <1>1, <1>2 DEF FailInv
<1>11. AttemptInv'
  BY <1>1, <1>2, <1>3, <1>4 DEF AttemptInv
<1>12. UpInv'
  BY <1>1, <1>2, <1>3, <1>4 DEF UpInv, IsUp
<1>13. TokenInv'
  BY <1>1, <1>2, <1>3, <1>4 DEF TokenInv
<1>14. GoneInv'
  BY <1>1, <1>2, <1>3, <1>4 DEF GoneInv, IsUp
<1>. QED  BY <1>5, <1>6, <1>7, <1>8, <1>9, <1>10, <1>11, <1>12, <1>13, <1>14 DEF IInv

(* connectDestroyed takes the channel of a connection out of the poller.   *)
LEMMA RunConnectDestroyedStep ==
    ASSUME IInv, failed = "none", ~restarting, RunConnectDestroyed
    PROVE  IInv'
<1>. USE DEF Shrank
<1>1. /\ TypeOK /\ RoundInv /\ ConnInv /\ ClientInv /\ StopInv /\ FailInv
      /\ AttemptInv /\ UpInv /\ TokenInv /\ GoneInv
  BY DEF IInv
<1>2. /\ phase = "functors" /\ added' = [added EXCEPT ![Head(batch).c] = FALSE]
      /\ batch # <<>> /\ batch' = Tail(batch) /\ Head(batch).op = "connectDestroyed"
      /\ UNCHANGED <<phase, slow, active, todo, pending, failed, ready, sockets, timers, state, channel,
                     connect, client, clientConnect, retry, connection, nextConnId, cstate,
                     closeCallback, restarting, tpc, tconn, calls, connects, destroyer, stopped,
                     raced>>
  BY DEF RunConnectDestroyed, Runs, attempt, clientVars, conns, thread, user
<1>3. batch' \in Seq(Functor) /\ Head(Q) = Head(batch) /\ Head(batch) \in Functor /\ Q # <<>>
  BY <1>1, <1>2, Popped
<1>4. Shrank
  BY <1>1, <1>2, Ran
<1>5. TypeOK'
  <2>1. added' \in [Conns -> BOOLEAN]
    BY <1>1, <1>2 DEF TypeOK
  <2>. QED  BY <1>1, <1>2, <1>3, <2>1 DEF TypeOK
<1>6. RoundInv'
  BY <1>1, <1>2 DEF RoundInv
<1>7. ConnInv'
  BY <1>1, <1>2, <1>3, <1>4 DEF ConnInv, IsUp, TypeOK
<1>8. ClientInv'
  BY <1>1, <1>2 DEF ClientInv
<1>9. StopInv'
  BY <1>1, <1>2 DEF StopInv
<1>10. FailInv'
  BY <1>1, <1>2 DEF FailInv
<1>11. AttemptInv'
  BY <1>1, <1>2, <1>3, <1>4 DEF AttemptInv
<1>12. UpInv'
  BY <1>1, <1>2, <1>3, <1>4 DEF UpInv, IsUp
<1>13. TokenInv'
  BY <1>1, <1>2, <1>3, <1>4 DEF TokenInv
<1>14. GoneInv'
  BY <1>1, <1>2, <1>3, <1>4 DEF GoneInv, IsUp
<1>. QED  BY <1>5, <1>6, <1>7, <1>8, <1>9, <1>10, <1>11, <1>12, <1>13, <1>14 DEF IInv

(* The functor of the destructor detaches the connection.                  *)
LEMMA RunSetCloseCallbackStep ==
    ASSUME IInv, failed = "none", ~restarting, RunSetCloseCallback
    PROVE  IInv'
<1>. USE DEF Shrank
<1>1. /\ TypeOK /\ RoundInv /\ ConnInv /\ ClientInv /\ StopInv /\ FailInv
      /\ AttemptInv /\ UpInv /\ TokenInv /\ GoneInv
  BY DEF IInv
<1>2. /\ phase = "functors" /\ closeCallback' = [closeCallback EXCEPT ![Head(batch).c] = "detached"]
      /\ batch # <<>> /\ batch' = Tail(batch) /\ Head(batch).op = "setCloseCallback"
      /\ UNCHANGED <<phase, slow, active, todo, pending, failed, ready, sockets, timers, state, channel,
                     connect, client, clientConnect, retry, connection, nextConnId, cstate, added,
                     restarting, tpc, tconn, calls, connects, destroyer, stopped, raced>>
  BY DEF RunSetCloseCallback, Runs, attempt, clientVars, conns, thread, user
<1>3. batch' \in Seq(Functor) /\ Head(Q) = Head(batch) /\ Head(batch) \in Functor /\ Q # <<>>
  BY <1>1, <1>2, Popped
<1>4. Shrank
  BY <1>1, <1>2, Ran
<1>5. TypeOK'
  <2>1. closeCallback' \in [Conns -> {"client", "detached"}]
    BY <1>1, <1>2 DEF TypeOK
  <2>. QED  BY <1>1, <1>2, <1>3, <2>1 DEF TypeOK
<1>6. RoundInv'
  BY <1>1, <1>2 DEF RoundInv
<1>7. ConnInv'
  BY <1>1, <1>2, <1>3, <1>4 DEF ConnInv, IsUp
<1>8. ClientInv'
  BY <1>1, <1>2 DEF ClientInv
<1>9. StopInv'
  BY <1>1, <1>2 DEF StopInv
<1>10. FailInv'
  BY <1>1, <1>2 DEF FailInv
<1>11. AttemptInv'
  BY <1>1, <1>2, <1>3, <1>4 DEF AttemptInv
<1>12. UpInv'
  BY <1>1, <1>2, <1>3, <1>4 DEF UpInv, IsUp
<1>13. TokenInv'
  BY <1>1, <1>2, <1>3, <1>4 DEF TokenInv
<1>14. GoneInv'
  <2>1. HasFor(Q, "setCloseCallback", Head(batch).c)
    BY <1>1, <1>2, <1>3, QType DEF HasFor
  <2>2. \A c \in Conns : closeCallback'[c] = closeCallback[c]
                              \/ (closeCallback'[c] = "detached" /\ c = Head(batch).c)
    BY <1>1, <1>2 DEF TypeOK
  <2>. QED  BY <1>1, <1>2, <1>3, <1>4, <2>1, <2>2 DEF GoneInv, IsUp, TypeOK
<1>. QED  BY <1>5, <1>6, <1>7, <1>8, <1>9, <1>10, <1>11, <1>12, <1>13, <1>14 DEF IInv

-----------------------------------------------------------------------------
(* Connections.                                                            *)

(* A connection closes: it was connection_, and the Channel of its attempt *)
(* is deleted, so that restart() finds none.                               *)
LEMMA HandleCloseStep ==
    ASSUME IInv, failed = "none", ~restarting, NEW p \in Conns, HandleClose(p)
    PROVE  IInv'
<1>. USE DEF Grew
<1>1. /\ TypeOK /\ RoundInv /\ ConnInv /\ ClientInv /\ StopInv /\ FailInv
      /\ AttemptInv /\ UpInv /\ TokenInv /\ GoneInv
  BY DEF IInv
<1>2. /\ phase = "events" /\ ConnCh(p) \in todo /\ todo' = todo \ {ConnCh(p)} /\ IsUp(p)
      /\ ready' = ready \ {ConnCh(p)} /\ cstate' = [cstate EXCEPT ![p] = "kDisconnected"]
      /\ \/ /\ closeCallback[p] = "client" /\ client # "dead" /\ connection' = 0
            /\ restarting' = Reconnects
            /\ failed' = IF connection = p THEN failed ELSE "removeConnection:connection_"
         \/ /\ closeCallback[p] = "client" /\ client = "dead" /\ failed' = "removeConnection:client"
            /\ connection' = connection /\ restarting' = restarting
         \/ /\ closeCallback[p] = "detached"
            /\ failed' = failed /\ connection' = connection /\ restarting' = restarting
      /\ UNCHANGED <<phase, slow, active, batch, connect, state, channel, sockets, timers, client,
                     clientConnect, retry, nextConnId, closeCallback, added, tpc, tconn, calls,
                     connects, destroyer, stopped, raced>>
  BY DEF HandleClose, Handles, attempt, thread, user
<1>3. PICK f \in Functor : f.op = "connectDestroyed" /\ f.c = p /\ pending' = Append(pending, f)
  BY DEF HandleClose, Queue, Functor, OfConn
<1>4. Grew(f)
  BY <1>1, <1>2, <1>3, Pushed
<1>5. /\ connection = p /\ restarting' \in BOOLEAN
      /\ cstate' \in [Conns -> {"none", "kConnected", "kDisconnecting", "kDisconnected"}]
      /\ \A c \in Conns : ~IsUp(c)' /\ (c # p => cstate'[c] = cstate[c]) /\ cstate'[p] = "kDisconnected"
  <2>1. connection = p /\ \A c \in Conns : IsUp(c) => c = p
    BY <1>1, <1>2 DEF ConnInv
  <2>2. restarting' \in BOOLEAN
    BY <1>1, <1>2, Zenon DEF TypeOK, Reconnects
  <2>3. /\ cstate' \in [Conns -> {"none", "kConnected", "kDisconnecting", "kDisconnected"}]
        /\ \A c \in Conns : (c # p => cstate'[c] = cstate[c]) /\ cstate'[p] = "kDisconnected"
    BY <1>1, <1>2 DEF TypeOK
  <2>. QED  BY <2>1, <2>2, <2>3 DEF IsUp
<1>6. /\ ConnCh(p) \notin {ConnectorCh, TimerCh}
      /\ \A c \in Conns : ConnCh(c) = ConnCh(p) => c = p
  BY ChannelsDiffer
<1>7. ~Has(Q, "resetChannel") /\ state = "kConnected"
  <2>1. ~Has(pending, "resetChannel") /\ state = "kConnected"
    BY <1>1, <1>2 DEF UpInv
  <2>2. batch = <<>>
    BY <1>1, <1>2 DEF RoundInv
  <2>3. ~Has(batch, "resetChannel")
    BY <2>2 DEF Has
  <2>. QED  BY <1>1, <2>1, <2>3, QType
<1>8. restarting' => Reconnects /\ client # "dead"
  BY <1>2
<1>9. TypeOK'
  BY <1>1, <1>2, <1>4, <1>5 DEF TypeOK
<1>10. RoundInv'
  BY <1>1, <1>2 DEF RoundInv
<1>11. ConnInv'
  BY <1>1, <1>2, <1>3, <1>4, <1>5, <1>6, ConnsAreNumbers DEF ConnInv, IsUp
<1>12. ClientInv'
  BY <1>1, <1>2 DEF ClientInv
<1>13. StopInv'
  BY <1>1, <1>2, <1>8 DEF StopInv, Reconnects
<1>14. FailInv'
  BY <1>1, <1>2, <1>5 DEF FailInv, GoneInv, ClientInv, TypeOK
<1>15. failed' = "none" => AttemptInv'
  BY <1>1, <1>2, <1>3, <1>4, <1>5, <1>6, <1>7 DEF AttemptInv
<1>16. failed' = "none" => UpInv'
  BY <1>1, <1>2, <1>3, <1>4, <1>5, <1>7 DEF UpInv, GoneInv
<1>17. failed' = "none" => TokenInv'
  BY <1>1, <1>2, <1>3, <1>4, <1>5, <1>6 DEF TokenInv
<1>18. failed' = "none" => GoneInv'
  BY <1>1, <1>2, <1>3, <1>4, <1>5, <1>8 DEF GoneInv, ClientInv
<1>. QED  BY <1>9, <1>10, <1>11, <1>12, <1>13, <1>14, <1>15, <1>16, <1>17, <1>18 DEF IInv

(* The attempt succeeds after stop().                                      *)
LEMMA ConnectsForNobodyStep ==
    ASSUME IInv, failed = "none", ~restarting, ConnectorConnectsForNobody
    PROVE  IInv'
<1>. USE DEF ResetComes
<1>1. /\ TypeOK /\ RoundInv /\ ConnInv /\ ClientInv /\ StopInv /\ FailInv
      /\ AttemptInv /\ UpInv /\ TokenInv /\ GoneInv
  BY DEF IInv
<1>2. /\ phase = "events" /\ ConnectorCh \in todo /\ todo' = todo \ {ConnectorCh}
      /\ channel' = "removed" /\ pending' = ResetLater /\ ready' = ready \ {ConnectorCh}
      /\ failed' = "none" /\ state = "kConnecting" /\ state' = "kConnected" /\ sockets' = sockets - 1 /\ ~connect
      /\ UNCHANGED <<phase, slow, active, batch, connect, timers, client, clientConnect, retry,
                     connection, nextConnId, cstate, closeCallback, added, restarting, tpc, tconn,
                     calls, connects, destroyer, stopped, raced>>
  BY
     DEF ConnectorConnectsForNobody, HandleConnected, Handles, RemoveAndResetChannel,
         RemoveAllowed, clientVars, conns, thread, user
<1>3. ResetComes
  BY <1>1, <1>2, ResetQueued
<1>4. /\ \A c \in Conns : ConnCh(c) # ConnectorCh
      /\ TimerCh # ConnectorCh
  BY ChannelsDiffer
<1>5. sockets' = 0
  BY <1>1, <1>2 DEF AttemptInv
<1>6. TypeOK'
  BY <1>1, <1>2, <1>3, <1>5 DEF TypeOK
<1>7. RoundInv'
  BY <1>1, <1>2 DEF RoundInv
<1>8. ConnInv'
  BY <1>1, <1>2, <1>3, <1>4 DEF ConnInv, IsUp, OfConn
<1>9. ClientInv'
  BY <1>1, <1>2 DEF ClientInv
<1>10. StopInv'
  BY <1>1, <1>2 DEF StopInv
<1>11. FailInv'
  BY <1>1, <1>2 DEF FailInv
<1>12. AttemptInv'
  BY <1>1, <1>2, <1>3, <1>4, <1>5 DEF AttemptInv
<1>13. UpInv'
  BY <1>1, <1>2, <1>3, <1>4 DEF UpInv, IsUp
<1>14. TokenInv'
  BY <1>1, <1>2, <1>3, <1>4 DEF TokenInv, TypeOK
<1>15. GoneInv'
  BY <1>1, <1>2, <1>3, <1>4 DEF GoneInv, IsUp, OfConn
<1>. QED  BY <1>6, <1>7, <1>8, <1>9, <1>10, <1>11, <1>12, <1>13, <1>14, <1>15 DEF IInv

(* The attempt succeeds, and the connection is connection_.                *)
LEMMA ConnectsStep ==
    ASSUME IInv, failed = "none", ~restarting, ConnectorConnects
    PROVE  IInv'
<1>. USE DEF ResetComes
<1>1. /\ TypeOK /\ RoundInv /\ ConnInv /\ ClientInv /\ StopInv /\ FailInv
      /\ AttemptInv /\ UpInv /\ TokenInv /\ GoneInv
  BY DEF IInv
<1>2. /\ phase = "events" /\ ConnectorCh \in todo /\ todo' = todo \ {ConnectorCh}
      /\ channel' = "removed" /\ pending' = ResetLater /\ ready' = ready \ {ConnectorCh}
      /\ failed' = "none" /\ state = "kConnecting" /\ state' = "kConnected" /\ sockets' = sockets - 1
      /\ client # "dead" /\ nextConnId <= MaxConns
      /\ nextConnId' = nextConnId + 1 /\ connection' = nextConnId
      /\ cstate' = [cstate EXCEPT ![nextConnId] = "kConnected"]
      /\ added' = [added EXCEPT ![nextConnId] = TRUE]
      /\ UNCHANGED <<phase, slow, active, batch, connect, timers, client, clientConnect, retry,
                     closeCallback, restarting, tpc, tconn, calls, connects, destroyer, stopped,
                     raced>>
  BY
     DEF ConnectorConnects, NewConnection, HandleConnected, Handles, RemoveAndResetChannel,
         RemoveAllowed, clientVars, conns, thread, user
<1>3. ResetComes
  BY <1>1, <1>2, ResetQueued
<1>4. /\ \A c \in Conns : ConnCh(c) # ConnectorCh
      /\ TimerCh # ConnectorCh
  BY ChannelsDiffer
<1>5. sockets' = 0
  BY <1>1, <1>2 DEF AttemptInv
<1>6. /\ nextConnId \in Conns /\ nextConnId' \in 1..(MaxConns + 1) /\ nextConnId \in Nat
      /\ cstate' \in [Conns -> {"none", "kConnected", "kDisconnecting", "kDisconnected"}]
      /\ added' \in [Conns -> BOOLEAN]
      /\ cstate'[nextConnId] = "kConnected" /\ ConnCh(nextConnId) \notin ready \cup todo
      /\ \A c \in Conns : ~IsUp(c)
      /\ \A c \in Conns : c # nextConnId => cstate'[c] = cstate[c] /\ added'[c] = added[c]
  <2>1. nextConnId \in 1..(MaxConns + 1) /\ MaxConns \in Nat
    BY <1>1, BoundsAssumption DEF TypeOK
  <2>2. nextConnId \in Conns /\ nextConnId' \in 1..(MaxConns + 1) /\ nextConnId \in Nat
    BY <1>2, <2>1 DEF Conns
  <2>3. cstate[nextConnId] = "none" /\ ConnCh(nextConnId) \notin ready \cup todo
    BY <1>1, <2>2 DEF ConnInv
  <2>4. \A c \in Conns : ~IsUp(c)
    BY <1>1, <1>2 DEF UpInv
  <2>5. /\ cstate' \in [Conns -> {"none", "kConnected", "kDisconnecting", "kDisconnected"}]
        /\ added' \in [Conns -> BOOLEAN]
    BY <1>1, <1>2 DEF TypeOK
  <2>6. /\ cstate'[nextConnId] = "kConnected"
        /\ \A c \in Conns : c # nextConnId => cstate'[c] = cstate[c] /\ added'[c] = added[c]
    BY <1>1, <1>2, <2>2 DEF TypeOK
  <2>. QED  BY <2>2, <2>3, <2>4, <2>5, <2>6
<1>7. TypeOK'
  BY <1>1, <1>2, <1>3, <1>5, <1>6 DEF TypeOK
<1>8. RoundInv'
  BY <1>1, <1>2 DEF RoundInv
<1>9. ConnInv'
  BY <1>1, <1>2, <1>3, <1>4, <1>6, ConnsAreNumbers DEF ConnInv, IsUp, OfConn
<1>10. ClientInv'
  BY <1>1, <1>2 DEF ClientInv
<1>11. StopInv'
  BY <1>1, <1>2 DEF StopInv
<1>12. FailInv'
  BY <1>1, <1>2 DEF FailInv
<1>13. AttemptInv'
  BY <1>1, <1>2, <1>3, <1>4, <1>6, <1>5 DEF AttemptInv
<1>14. UpInv'
  BY <1>1, <1>2, <1>3, <1>4, <1>6 DEF UpInv, IsUp
<1>15. TokenInv'
  BY <1>1, <1>2, <1>3, <1>4, <1>6 DEF TokenInv, TypeOK
<1>16. GoneInv'
  BY <1>1, <1>2, <1>3, <1>4, <1>6 DEF GoneInv, ClientInv, IsUp, OfConn
<1>. QED  BY <1>7, <1>8, <1>9, <1>10, <1>11, <1>12, <1>13, <1>14, <1>15, <1>16 DEF IInv

(* The attempt succeeds when the client is dead: another thread destroyed  *)
(* it.                                                                     *)
LEMMA ConnectsTooLateStep ==
    ASSUME IInv, failed = "none", ~restarting, ConnectorConnectsTooLate
    PROVE  IInv'
<1>1. /\ TypeOK /\ RoundInv /\ ConnInv /\ ClientInv /\ StopInv /\ FailInv /\ GoneInv
  BY DEF IInv
<1>. USE DEF ConnectorConnectsTooLate, Handles, attempt, clientVars, conns, thread, user
<1>2. Q' = Q
  BY SameQ
<1>3. failed' = "newConnection:client" /\ destroyer = "thread"
  BY <1>1 DEF GoneInv, ClientInv, TypeOK
<1>4. TypeOK' /\ RoundInv'
  BY <1>1 DEF TypeOK, RoundInv
<1>5. ConnInv' /\ ClientInv' /\ StopInv'
  BY <1>1, <1>2 DEF ConnInv, ClientInv, StopInv, IsUp
<1>6. FailInv'
  BY <1>1, <1>3 DEF FailInv
<1>. QED  BY <1>3, <1>4, <1>5, <1>6 DEF IInv

-----------------------------------------------------------------------------
(* The client, before the first call.                                      *)
LEMMA InitHolds == Init => IInv
<1>1. SUFFICES ASSUME Init PROVE IInv
  OBVIOUS
<1>. USE DEF Init, InitConnector
<1>2. Q = <<>> /\ DOMAIN Q = {} /\ <<>> \in Seq(Functor) /\ pending = <<>> /\ batch = <<>>
  BY <1>1 DEF Q
<1>3. /\ \A op : ~Has(Q, op) /\ Once(Q, op) /\ ~Has(pending, op)
      /\ \A op, c : ~HasFor(Q, op, c)
  BY <1>1, <1>2 DEF Has, HasFor, Once
<1>4. 1 \in 1..(MaxConns + 1) /\ MaxCalls \in Nat
  BY BoundsAssumption
<1>5. /\ cstate \in [Conns -> {"none", "kConnected", "kDisconnecting", "kDisconnected"}]
      /\ closeCallback \in [Conns -> {"client", "detached"}] /\ added \in [Conns -> BOOLEAN]
      /\ \A c \in Conns : cstate[c] = "none" /\ closeCallback[c] = "client" /\ ~added[c]
  BY <1>1
<1>6. connect \in BOOLEAN /\ clientConnect \in BOOLEAN /\ restarting \in BOOLEAN /\ raced \in BOOLEAN
  BY <1>1, Zenon
<1>7. TypeOK
  BY <1>1, <1>2, <1>4, <1>5, <1>6 DEF TypeOK
<1>8. RoundInv /\ ClientInv /\ StopInv /\ FailInv
  BY <1>1 DEF RoundInv, ClientInv, StopInv, FailInv
<1>9. ConnInv
  BY <1>1, <1>5 DEF ConnInv, IsUp
<1>10. AttemptInv /\ TokenInv
  BY <1>1, <1>3 DEF AttemptInv, TokenInv
<1>11. UpInv /\ GoneInv
  BY <1>1, <1>3, <1>5 DEF UpInv, GoneInv, IsUp
<1>. QED  BY <1>7, <1>8, <1>9, <1>10, <1>11 DEF IInv

(* A step that changes nothing.                                            *)
LEMMA StutterHolds == IInv /\ UNCHANGED vars => IInv'
<1>1. SUFFICES ASSUME IInv, UNCHANGED vars PROVE IInv'
  OBVIOUS
<1>. USE DEF vars, connectorVars, clientVars, attempt, round, conns, thread, user
<1>2. Q' = Q
  BY <1>1 DEF Q
<1>3. TypeOK' /\ RoundInv'
  BY <1>1 DEF IInv, TypeOK, RoundInv
<1>4. ConnInv' /\ ClientInv' /\ StopInv' /\ FailInv'
  BY <1>1, <1>2 DEF IInv, ConnInv, ClientInv, StopInv, FailInv, IsUp
<1>5. failed' = "none" => AttemptInv' /\ TokenInv'
  BY <1>1, <1>2 DEF IInv, AttemptInv, TokenInv
<1>6. failed' = "none" => UpInv' /\ GoneInv'
  BY <1>1, <1>2 DEF IInv, UpInv, GoneInv, IsUp
<1>. QED  BY <1>3, <1>4, <1>5, <1>6 DEF IInv

(* Every step keeps the invariant.                                         *)
LEMMA InductiveInvariant == IInv /\ [Next]_vars => IInv'
<1>1. SUFFICES ASSUME IInv, Next PROVE IInv'
  BY StutterHolds
<1>2. failed = "none"
  BY <1>1 DEF Next, Running
<1>3. CASE LoopStep
  <2>1. CASE ~restarting /\ ConnectorStep /\ UNCHANGED clientVars
    BY <1>1, <1>2, <2>1, PollStep, SwapStep, EndIterationStep, HandleFailureStep, RunRetryStep, RunResetStep
       DEF ConnectorStep
  <2>2. CASE ~restarting /\ (ConnectorConnects \/ ConnectorConnectsForNobody \/ ConnectorConnectsTooLate)
    BY <1>1, <1>2, <2>2, ConnectsStep, ConnectsForNobodyStep, ConnectsTooLateStep
  <2>3. CASE ~restarting /\ \E c \in Conns : HandleClose(c)
    BY <1>1, <1>2, <2>3, HandleCloseStep
  <2>4. CASE ~restarting /\ (HandleUser \/ RunHack \/ RunConnectDestroyed \/ RunSetCloseCallback)
    BY <1>1, <1>2, <2>4, HandleUserStep, RunHackStep, RunConnectDestroyedStep, RunSetCloseCallbackStep
  <2>5. CASE ~restarting /\ (RunStart \/ RunStop)
    BY <1>1, <1>2, <2>5, RunStartStep, RunStopStep
  <2>6. CASE Restart
    BY <1>1, <1>2, <2>6, RestartStep
  <2>. QED  BY <1>3, <2>1, <2>2, <2>3, <2>4, <2>5, <2>6 DEF LoopStep
<1>4. CASE UserCall
  <2>1. CASE ~restarting /\ (CallConnect \/ CallDisconnect \/ CallStop \/ CallDestroyConnected \/ CallDestroy)
    BY <1>1, <1>2, <2>1, CallConnectStep, CallDisconnectStep, CallStopStep, CallDestroyConnectedStep,
       CallDestroyStep
  <2>2. CASE ThreadCall
    BY <1>1, <1>2, <2>2, ThreadBeginsConnectStep, ThreadBeginsStopStep, ThreadBeginsDisconnectStep,
       ThreadDestroysStep DEF ThreadCall
  <2>. QED  BY <1>4, <2>1, <2>2 DEF UserCall
<1>5. CASE ThreadStep
  <2>1. CASE ThreadSets("connect", "start", TRUE) \/ ThreadQueues("start", "startInLoop")
    BY <1>1, <1>2, <2>1, ThreadSetsConnectStep, ThreadQueuesStartStep
  <2>2. CASE ThreadSets("stop", "stopping", FALSE) \/ ThreadQueues("stopping", "stopInLoop")
    BY <1>1, <1>2, <2>2, ThreadSetsStopStep, ThreadQueuesStopStep
  <2>3. CASE ThreadSets("destroy", "destroyed", FALSE) \/ ThreadStopsConnector
    BY <1>1, <1>2, <2>3, ThreadSetsDestroyStep, ThreadStopsConnectorStep
  <2>4. CASE ThreadShutsDown \/ ThreadDetaches
    BY <1>1, <1>2, <2>4, ThreadShutsDownStep, ThreadDetachesStep
  <2>. QED  BY <1>5, <2>1, <2>2, <2>3, <2>4 DEF ThreadStep
<1>6. CASE UserReady \/ KernelDecides
  BY <1>1, <1>2, <1>6, UserReadyStep, ResolvedStep
<1>7. CASE TimerExpires
  BY <1>1, <1>2, <1>7, TimerDueStep, HackDueStep DEF TimerExpires
<1>9. CASE SlowRound
  BY <1>1, <1>2, <1>9, SlowRoundStep
<1>8. CASE \E c \in Conns : PeerCloses(c)
  BY <1>1, <1>2, <1>8, PeerClosesStep
<1>. QED  BY <1>1, <1>3, <1>4, <1>5, <1>6, <1>7, <1>8, <1>9 DEF Next

-----------------------------------------------------------------------------
(* The timer that holds the connector.                                     *)

(* What IInv says of a client that was destroyed in the loop thread.       *)
LEMMA Gone ==
    ASSUME IInv, failed = "none", destroyer = "loop"
    PROVE  /\ client = "dead" /\ tpc = "idle" /\ ~restarting
           /\ state # "kConnecting" /\ channel # "in" /\ (state = "kConnected" \/ ~connect)
BY DEF IInv, ClientInv, GoneInv, FailInv

(* Steps that a client destroyed in the loop thread does not make.         *)
LEMMA HackBefore ==
    ASSUME IInv, HackInv, failed = "none",
           \/ CallConnect \/ CallDisconnect \/ CallStop \/ Restart
           \/ HandleFailure /\ UNCHANGED clientVars
           \/ ConnectorConnects \/ ConnectorConnectsForNobody \/ KernelDecides
           \/ ThreadBegins("connect", TRUE) \/ ThreadBegins("stop", FALSE) \/ ThreadBegins("disconnect", FALSE)
           \/ ThreadSets("connect", "start", TRUE) \/ ThreadQueues("start", "startInLoop")
           \/ ThreadSets("stop", "stopping", FALSE) \/ ThreadQueues("stopping", "stopInLoop")
           \/ ThreadSets("destroy", "destroyed", FALSE) \/ ThreadShutsDown
    PROVE  HackInv'
<1>1. destroyer # "loop"
  <2>1. SUFFICES ASSUME destroyer = "loop" PROVE FALSE
    OBVIOUS
  <2>2. client = "dead" /\ tpc = "idle" /\ ~restarting /\ state # "kConnecting" /\ channel # "in"
    BY <2>1, Gone
  <2>. QED
    BY <2>2 DEF CallConnect, CallDisconnect, CallStop, Calls, Restart, HandleFailure, ConnectorConnects,
       ConnectorConnectsForNobody, HandleConnected, KernelDecides, Resolved, ThreadBegins, ThreadSets,
       ThreadQueues, ThreadShutsDown, ThreadGoes
<1>2. destroyer' = destroyer /\ hack' = hack
  BY DEF CallConnect, CallDisconnect, CallStop, Calls, Restart, ConnectorConnects, NewConnection,
     ConnectorConnectsForNobody, KernelDecides, ThreadBegins, ThreadSets,
     ThreadQueues, ThreadShutsDown, clientVars, user
<1>3. ready' \subseteq ready \cup {ConnectorCh} /\ todo' \subseteq todo
  BY DEF CallConnect, CallDisconnect, CallStop, Calls, Handles, StopInLoop, TakeDown, RemoveAndResetChannel,
     Restart, HandleFailure, ConnectorConnects, ConnectorConnectsForNobody, HandleConnected, KernelDecides,
     Resolved, ThreadBegins, ThreadSets, ThreadQueues, ThreadShutsDown, ThreadLeaves, round
<1>4. HackCh # ConnectorCh
  BY ChannelsDiffer
<1>. QED  BY <1>1, <1>2, <1>3, <1>4 DEF HackInv

(* The destruction of the client.                                          *)
LEMMA HackBegins ==
    ASSUME IInv, HackInv, failed = "none",
           \/ ThreadDestroys \/ ThreadDetaches \/ ThreadStopsConnector
           \/ CallDestroyConnected \/ CallDestroy
    PROVE  HackInv'
<1>1. CASE ThreadDestroys \/ ThreadDetaches \/ ThreadStopsConnector
  <2>1. destroyer' = "thread"
    BY <1>1 DEF ThreadDestroys, ThreadDetaches, ThreadStopsConnector, ThreadGoes, IInv, ClientInv
  <2>. QED  BY <2>1 DEF HackInv
<1>2. CASE CallDestroyConnected
  <2>1. destroyer' = "loop" /\ connection' # 0
    BY <1>2 DEF CallDestroyConnected
  <2>. QED  BY <2>1 DEF HackInv
<1>3. CASE CallDestroy
  <2>1. /\ destroyer' = "loop" /\ hack' /\ client = "alive"
        /\ ready' \subseteq ready /\ todo' \subseteq todo
    BY <1>3 DEF CallDestroy, Calls, Handles, StopInLoop, TakeDown, RemoveAndResetChannel
  <2>2. destroyer = "none"
    BY <2>1 DEF IInv, ClientInv, TypeOK
  <2>. QED  BY <2>1, <2>2 DEF HackInv
<1>. QED  BY <1>1, <1>2, <1>3

(* A step that does not make the connector needed again.                   *)
LEMMA HackKept ==
    ASSUME HackInv,
           UNCHANGED <<destroyer, hack>>, slow => slow',
           ready' \cup todo' \subseteq ready \cup todo \cup {TimerCh, UserCh} \cup {ConnCh(c) : c \in Conns},
           destroyer = "loop" => connection' = connection /\ (Needed' => Needed)
    PROVE  HackInv'
<1>1. HackCh \notin {TimerCh, UserCh} \cup {ConnCh(c) : c \in Conns}
  BY ChannelsDiffer
<1>. QED  BY <1>1 DEF HackInv

(* The steps of the loop and of the kernel that leave the connector alone. *)
LEMMA HackQuiet ==
    ASSUME IInv, HackInv, failed = "none",
           \/ (Poll \/ Swap \/ EndIteration \/ TimerDue) /\ UNCHANGED clientVars
           \/ HandleUser \/ UserReady \/ \E c \in Conns : PeerCloses(c)
    PROVE  HackInv'
<1>. USE DEF Poll, Swap, EndIteration, TimerDue, HandleUser, Handles, UserReady, PeerCloses, attempt, round,
             clientVars, conns, user
<1>1. TypeOK /\ RoundInv
  BY DEF IInv
<1>2. Q' = Q
  <2>1. CASE UNCHANGED <<batch, pending>>
    BY <2>1, SameQ
  <2>2. CASE Swap
    BY <1>1, <2>2, Swapped DEF RoundInv
  <2>. QED  BY <2>1, <2>2
<1>3. Needed' => Needed
  BY <1>2 DEF Needed
<1>4. UNCHANGED <<destroyer, hack, connection>> /\ (slow => slow')
  <2>1. UNCHANGED <<destroyer, hack, connection>>
    OBVIOUS
  <2>2. slow' = slow \/ slow' = (slow \/ channel = "removed")
    OBVIOUS
  <2>3. slow => slow'
    BY <2>2, Zenon
  <2>. QED  BY <2>1, <2>3, Zenon
<1>5. ready' \cup todo' \subseteq ready \cup todo \cup {TimerCh, UserCh} \cup {ConnCh(c) : c \in Conns}
  OBVIOUS
<1>. QED  BY <1>3, <1>4, <1>5, HackKept

(* The functors, a retry timer and the end of a connection.                *)
LEMMA HackRuns ==
    ASSUME IInv, HackInv, failed = "none", failed' = "none",
           \/ RunStart \/ RunStop \/ RunConnectDestroyed \/ RunSetCloseCallback
           \/ (RunReset \/ RunRetry) /\ UNCHANGED clientVars
           \/ \E c \in Conns : HandleClose(c)
    PROVE  HackInv'
<1>. USE DEF RunStart, RunStop, RunConnectDestroyed, RunSetCloseCallback, RunReset, RunRetry, HandleClose,
             Handles, Runs
<1>1. TypeOK
  BY DEF IInv
<1>2. UNCHANGED <<destroyer, hack, slow>>
  BY DEF clientVars, user
<1>3. ready' \subseteq ready /\ todo' \subseteq todo
  BY DEF StopInLoop, TakeDown, RemoveAndResetChannel
<1>4. ASSUME destroyer = "loop" PROVE connection' = connection /\ (Needed' => Needed)
  <2>1. /\ client = "dead" /\ state # "kConnecting" /\ (state = "kConnected" \/ ~connect)
    BY <1>4, Gone
  <2>2. CASE \E c \in Conns : HandleClose(c)
    <3>1. PICK c \in Conns : HandleClose(c)
      BY <2>2
    <3>2. PICK f \in Functor : f = [op |-> "connectDestroyed", c |-> c]
      BY DEF Functor, OfConn
    <3>3. Grew(f) /\ f.op \notin Plain
      BY <1>1, <3>1, <3>2, Pushed DEF Queue, Plain
    <3>4. UNCHANGED <<connection, channel>>
      BY <2>1, <3>1 DEF attempt
    <3>. QED  BY <3>3, <3>4 DEF Needed, Grew
  <2>3. CASE RunRetry /\ UNCHANGED clientVars
    <3>1. UNCHANGED <<pending, batch, connection, channel>>
      BY <2>1, <2>3 DEF StartInLoop, clientVars, conns
    <3>. QED  BY <3>1, SameQ DEF Needed
  <2>4. CASE \/ RunStart \/ RunStop \/ RunConnectDestroyed \/ RunSetCloseCallback
             \/ RunReset /\ UNCHANGED clientVars
    <3>1. batch # <<>> /\ batch' = Tail(batch) /\ pending' = pending /\ channel' \in {channel, "none"}
      BY <2>1, <2>4 DEF StartInLoop, StopInLoop, attempt
    <3>2. connection' = connection
      BY <2>4 DEF clientVars, conns
    <3>. QED  BY <1>1, <3>1, <3>2, Ran DEF Needed, Shrank
  <2>. QED  BY <2>2, <2>3, <2>4
<1>. QED  BY <1>2, <1>3, <1>4, HackKept

(* What HackDue looks at.                                                  *)
LEMMA NeededIsInUse ==
    ASSUME TypeOK
    PROVE  Needed <=> ConnectorInUse
<1>1. Functors = {Q[i] : i \in DOMAIN Q}
  BY QType
<1>. QED  BY <1>1 DEF Needed, ConnectorInUse, Has, Plain

(* The timer itself.                                                       *)
LEMMA HackRunsOut ==
    ASSUME IInv, HackInv, failed = "none", RunHack \/ HackDue \/ SlowRound
    PROVE  HackInv'
<1>1. TypeOK /\ Q' = Q
  BY SameQ DEF IInv, RunHack, HackDue, SlowRound, DueInRound, Handles
<1>2. UNCHANGED <<destroyer, connection, channel>> /\ (Needed' => Needed) /\ (slow => slow')
  <2>1. UNCHANGED <<destroyer, connection, channel>>
    BY DEF RunHack, HackDue, SlowRound, DueInRound, Handles, attempt, clientVars, conns, user
  <2>2. slow' = slow \/ slow' = (slow \/ ConnectorInUse) \/ slow' = TRUE
    BY DEF RunHack, HackDue, SlowRound, DueInRound, Handles
  <2>3. slow => slow'
    BY <2>2, Zenon
  <2>4. Needed' => Needed
    BY <1>1, <2>1 DEF Needed
  <2>. QED  BY <2>1, <2>3, <2>4, Zenon
<1>3. CASE RunHack
  <2>1. hack' = FALSE /\ ready' \subseteq ready /\ todo' \subseteq todo /\ HackCh \in todo
    BY <1>3 DEF RunHack, Handles
  <2>. QED  BY <1>2, <2>1 DEF HackInv
<1>4. CASE HackDue
  <2>1. hack /\ slow' = (slow \/ Needed)
    BY <1>1, <1>4, NeededIsInUse DEF HackDue, HackSet
  <2>. QED  BY <1>2, <2>1 DEF HackInv
<1>5. CASE SlowRound
  <2>1. slow' /\ ready' = ready /\ hack' = hack /\ (hack \/ todo' = todo \cup {TimerCh})
    BY <1>5 DEF SlowRound, DueInRound, HackSet, clientVars
  <2>2. HackCh # TimerCh
    BY ChannelsDiffer
  <2>. QED  BY <1>2, <2>1, <2>2 DEF HackInv
<1>. QED  BY <1>3, <1>4, <1>5

(* Every step keeps the timer long enough.                                 *)
LEMMA HackInductive == IInv /\ HackHolds /\ [Next]_vars => HackHolds'
<1>1. SUFFICES ASSUME IInv, failed = "none" => HackInv, [Next]_vars, failed' = "none" PROVE HackInv'
  BY DEF HackHolds
<1>2. CASE UNCHANGED vars
  BY <1>1, <1>2, SameQ DEF HackInv, Needed, vars, connectorVars, clientVars, attempt, round, conns, user
<1>3. CASE Next
  <2>0. failed = "none" /\ HackInv
    BY <1>1, <1>3 DEF Next, Running
  <2>1. CASE LoopStep
    BY <1>1, <2>0, <2>1, HackQuiet, HackRuns, HackBefore, HackRunsOut
       DEF LoopStep, ConnectorStep, ConnectorConnectsTooLate
  <2>2. CASE UserCall
    BY <1>1, <2>0, <2>2, HackBefore, HackBegins DEF UserCall, ThreadCall
  <2>3. CASE ThreadStep
    BY <1>1, <2>0, <2>3, HackBefore, HackBegins DEF ThreadStep
  <2>4. CASE UserReady \/ KernelDecides \/ TimerExpires \/ SlowRound \/ \E c \in Conns : PeerCloses(c)
    BY <1>1, <2>0, <2>4, HackBefore, HackQuiet, HackRunsOut DEF TimerExpires
  <2>. QED  BY <1>3, <2>1, <2>2, <2>3, <2>4 DEF Next
<1>. QED  BY <1>1, <1>2, <1>3

(* The inductive invariant holds in every behaviour.                       *)
LEMMA Invariance == Spec => []IInv
BY InitHolds, InductiveInvariant, PTL DEF Spec

(* And so does what the timer promises.                                    *)
LEMMA HackInvariance == Spec => []HackHolds
<1>1. Init => HackHolds
  BY DEF Init, InitConnector, HackInv, HackHolds
<1>. QED  BY <1>1, Invariance, HackInductive, PTL DEF Spec
-----------------------------------------------------------------------------
(* The attempts of a client are the ones that were asked for: one at a     *)
(* time, with its socket and its channel, no retry timer beside it until   *)
(* connect() is called twice, and none after stop().                       *)
THEOREM AttemptsAreAccountedFor == Spec => []AttemptsAccounted
<1>1. IInv => AttemptsAccounted
  <2>1. SUFFICES ASSUME IInv PROVE AttemptsAccounted
    OBVIOUS
  <2>2. StoppedStaysStopped
    BY <2>1 DEF IInv, StopInv, StoppedStaysStopped
  <2>3. ASSUME Running PROVE [op |-> "resetChannel"] \in Functors <=> Has(Q, "resetChannel")
    <3>1. Q \in Seq(Functor) /\ Functors = {Q[i] : i \in DOMAIN Q}
      BY <2>1, QType DEF IInv
    <3>2. \A f \in Functor : f.op = "resetChannel" <=> f = [op |-> "resetChannel"]
      BY DEF Functor, Plain, OfConn
    <3>3. \A i \in DOMAIN Q : Q[i] \in Functor
      BY <3>1
    <3>. QED  BY <3>1, <3>2, <3>3 DEF Has
  <2>4. Running => AttemptInv /\ TokenInv /\ TypeOK
    BY <2>1 DEF IInv, Running
  <2>5. OneAttempt
    BY <2>3, <2>4 DEF OneAttempt, AttemptInv, TokenInv, TypeOK
  <2>. QED  BY <2>2, <2>5 DEF AttemptsAccounted
<1>. QED  BY <1>1, Invariance, PTL

(* No assertion of the connector or the client fails and no deleted object *)
(* is used, with the exceptions AssertionsHold names.                      *)
THEOREM NoAssertionFails == Spec => []AssertionsHold
<1>1. IInv /\ HackHolds => AssertionsHold
  <2>1. SUFFICES ASSUME IInv, failed = "none" => HackInv PROVE AssertionsHold
    BY DEF HackHolds
  <2>2. TypeOK /\ RoundInv /\ ConnInv /\ ClientInv /\ FailInv
    BY <2>1 DEF IInv
  <2>3. failed = "none" /\ ConnectorCh \in todo => state = "kConnecting"
    BY <2>1 DEF IInv, AttemptInv
  <2>4. Freed /\ destroyer = "loop" => channel # "in"
    BY <2>2 DEF FailInv
  <2>5. ASSUME failed = "none", Freed, ConnectorInUse PROVE destroyer = "thread" \/ connection # 0 \/ slow
    <3>1. Needed /\ ~hack /\ destroyer # "none"
      BY <2>2, <2>5, NeededIsInUse DEF Freed, ClientInv
    <3>. QED  BY <2>1, <2>2, <2>5, <3>1 DEF HackInv, TypeOK
  <2>6. ASSUME NEW c \in Conns, Deleted(c), added[c] PROVE client = "dead" /\ ~keeps
    <3>1. CASE cstate[c] = "kDisconnected"
      <4>1. HasFor(Q, "connectDestroyed", c)
        BY <2>2, <2>6, <3>1 DEF ConnInv
      <4>2. \E f \in Functors : f.op = "connectDestroyed" /\ f.c = c
        BY <2>2, <4>1, QType DEF HasFor
      <4>. QED  BY <2>6, <4>2 DEF Deleted, Held
    <3>2. CASE IsUp(c)
      BY <2>2, <2>6, <3>2 DEF ConnInv, Deleted, Held
    <3>. QED  BY <2>2, <2>6, <3>1, <3>2 DEF TypeOK, Deleted, IsUp
  <2>. QED  BY <2>2, <2>3, <2>4, <2>5, <2>6 DEF AssertionsHold, FailInv
<1>. QED  BY <1>1, Invariance, HackInvariance, PTL
=============================================================================
