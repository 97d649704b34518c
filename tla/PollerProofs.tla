---------------------------- MODULE PollerProofs ----------------------------
(***************************************************************************)
(* Proofs about Poller, for any set of channels, any finite set of         *)
(* descriptors and any size of the event list: the tables agree with the   *)
(* channels (Consistent), and both pollers implement the Registry.         *)
(*                                                                         *)
(* The inductive invariant gives every entry of the tables in terms of the *)
(* channel it belongs to: pollfds[index + 1] is the Entry of each channel  *)
(* of channels_, every entry has such a channel, and the epoll set is a    *)
(* function of channels_, index_ and events_.                              *)
(***************************************************************************)
EXTENDS Poller, FiniteSetTheorems, FunctionTheorems, TLAPS

\* struct pollfd
PollFd == [fd : Int, events : SUBSET Events]

TypeOK ==
    /\ kind \in {"poll", "epoll"}
    /\ life \in [Chans -> {"unborn", "alive", "deleted"}]
    /\ fd \in [Chans -> Fds \cup {-1}]
    /\ events \in [Chans -> SUBSET Events]
    /\ index \in [Chans -> Int]
    /\ channels \in [Fds -> Chans \cup {None}]
    /\ pollfds \in Seq(PollFd)
    /\ epoll \in [Fds -> [ptr : Chans \cup {None}, events : SUBSET Events]]
    /\ eventList \in Nat \ {0}
    /\ phase \in {"functors", "events"}
    /\ hot \subseteq Fds /\ active \subseteq Chans /\ todo \subseteq active
    /\ current \in Chans \cup {None}

\* a channel has a descriptor of its own while it exists, and no history before
Lives ==
    /\ \A c \in Chans : life[c] = "alive" => fd[c] \in Fds
    /\ \A c \in Chans : life[c] = "unborn" => events[c] = {} /\ index[c] = kNew
    /\ \A c, d \in Chans : life[c] = "alive" /\ life[d] = "alive" /\ fd[c] = fd[d] => c = d

MapOfLiving ==
    \A f \in Fds : channels[f] # None => life[channels[f]] = "alive" /\ fd[channels[f]] = f

AskersKnown == \A c \in Chans : events[c] # {} => Registered(c)

\* the entry of c in pollfds_
Entry(c) == [fd |-> IF events[c] = {} THEN Ignored(fd[c]) ELSE fd[c], events |-> events[c]]

PollTable ==
    kind = "poll" =>
        /\ \A c \in Chans : Registered(c) =>
               index[c] + 1 \in DOMAIN pollfds /\ pollfds[index[c] + 1] = Entry(c)
        /\ \A i \in DOMAIN pollfds : \E c \in Chans : Registered(c) /\ index[c] + 1 = i

EpollTable ==
    kind = "epoll" =>
        /\ \A c \in Chans : Registered(c) => index[c] = IF events[c] = {} THEN kDeleted ELSE kAdded
        /\ \A c \in Chans : life[c] = "alive" /\ ~Registered(c) => index[c] = kNew
        /\ \A f \in Fds :
               epoll[f] = IF channels[f] # None /\ index[channels[f]] = kAdded
                          THEN [ptr |-> channels[f], events |-> events[channels[f]]]
                          ELSE Absent

Rounds ==
    /\ failed \in {"none", "removeChannel: activeChannels_", "~Acceptor: pfd.fd"}
    /\ failed = "~Acceptor: pfd.fd" => kind = "poll"
    /\ \A c \in todo : Registered(c)
    /\ current \notin todo
    /\ phase = "functors" => todo = {} /\ current = None

Tables == Lives /\ MapOfLiving /\ AskersKnown /\ PollTable /\ EpollTable

IInv == "poll" \notin ReEnabled /\ TypeOK /\ Tables /\ Rounds
-----------------------------------------------------------------------------
(* Nothing is open and nothing is registered when the loop is created.     *)
LEMMA InitHolds == "poll" \notin ReEnabled /\ Init => IInv
<1>. SUFFICES ASSUME "poll" \notin ReEnabled, Init PROVE IInv
  OBVIOUS
<1>1. TypeOK
  <2>1. pollfds \in Seq(PollFd)
    BY DEF Init
  <2>2. eventList \in Nat \ {0}
    BY SizeAssumption DEF Init
  <2>. QED
    BY <2>1, <2>2 DEF Init, TypeOK, kNew, Absent
<1>2. Tables
  BY NoneAssumption DEF Init, Tables, Lives, MapOfLiving, AskersKnown, PollTable, EpollTable,
     Registered, kNew, kAdded
<1>3. Rounds
  BY DEF Init, Rounds
<1>. QED
  BY <1>1, <1>2, <1>3 DEF IInv

(* A step that leaves the channels and the tables alone keeps the tables'  *)
(* part of the invariant.                                                  *)
LEMMA TablesUnchanged ==
    ASSUME Tables, UNCHANGED <<kind, life, fd, events, index, table>>
    PROVE  Tables' /\ \A c \in Chans : Registered(c) = Registered(c)'
BY DEF Tables, Lives, MapOfLiving, AskersKnown, PollTable, EpollTable, Registered, Entry, table

(* A new channel is not in channels_.                                      *)
LEMMA NewChannelStep ==
    ASSUME IInv, NEW c \in Chans, NEW f \in Fds, NewChannel(c, f)
    PROVE  IInv'
<1>. USE DEF IInv
<1>0. /\ life' = [life EXCEPT ![c] = "alive"] /\ fd' = [fd EXCEPT ![c] = f]
      /\ life[c] = "unborn" /\ \A d \in Chans : life[d] = "alive" => fd[d] # f
      /\ UNCHANGED <<kind, events, index, channels, pollfds, epoll, eventList, phase, hot, active, todo, current, failed>>
  BY DEF NewChannel, table, loop
<1>1. TypeOK'
  BY <1>0 DEF TypeOK
<1>2. /\ events[c] = {} /\ index[c] = kNew /\ ~Registered(c) /\ channels[f] = None
  BY <1>0 DEF Tables, Lives, MapOfLiving, Registered, TypeOK
<1>3. \A d \in Chans : Registered(d)' = Registered(d)
  <2>. TAKE d \in Chans
  <2>1. CASE d = c
    BY <2>1, <1>0, <1>2, NoneAssumption DEF Registered, TypeOK
  <2>2. CASE d # c
    BY <2>2, <1>0 DEF Registered, TypeOK
  <2>. QED
    BY <2>1, <2>2
<1>4. Lives'
  BY <1>0, <1>2 DEF Tables, Lives, TypeOK
<1>5. MapOfLiving'
  BY <1>0, <1>2 DEF Tables, MapOfLiving, TypeOK
<1>6. AskersKnown'
  BY <1>0, <1>3 DEF Tables, AskersKnown
<1>7. PollTable'
  <2>1. \A d \in Chans : Registered(d) => Entry(d)' = Entry(d)
    BY <1>0, <1>2 DEF Entry, TypeOK
  <2>. QED
    BY <1>0, <1>3, <2>1 DEF Tables, PollTable
<1>8. EpollTable'
  BY <1>0, <1>2, <1>3 DEF Tables, EpollTable, TypeOK
<1>9. Rounds'
  BY <1>0, <1>3 DEF Rounds, TypeOK
<1>. QED
  BY <1>1, <1>4, <1>5, <1>6, <1>7, <1>8, <1>9 DEF Tables
-----------------------------------------------------------------------------
(* PollPoller.                                                             *)

(* An entry of pollfds_ tells its channel: it holds the descriptor of that *)
(* channel, negated or not, and no two living channels share one.          *)
LEMMA IndexInjective ==
    ASSUME IInv, kind = "poll", NEW c \in Chans, NEW d \in Chans,
           Registered(c), Registered(d), index[c] = index[d]
    PROVE  c = d
<1>1. Entry(c) = Entry(d)
  BY DEF IInv, Tables, PollTable
<1>2. Entry(c).fd = Entry(d).fd
  BY <1>1
<1>3. fd[c] \in Nat /\ fd[d] \in Nat /\ fd[c] \in Fds /\ fd[d] \in Fds
  BY FdsAssumption DEF IInv, Tables, Lives, Registered
<1>4. fd[c] = fd[d]
  BY <1>2, <1>3 DEF Entry, Ignored
<1>. QED
  BY <1>4 DEF IInv, Tables, Lives, Registered

(* push_back keeps the entries and adds one behind them.                   *)
LEMMA AppendFacts ==
    ASSUME NEW S, NEW s \in Seq(S), NEW e \in S
    PROVE  /\ Append(s, e) \in Seq(S) /\ DOMAIN Append(s, e) = 1..(Len(s) + 1)
           /\ Append(s, e)[Len(s) + 1] = e
           /\ \A i \in 1..Len(s) : Append(s, e)[i] = s[i]
OBVIOUS

(* What the guard of an update says of a channel of a PollPoller: it is    *)
(* new, or it asks for something and is in channels_.                      *)
LEMMA PollUpdateCases ==
    ASSUME IInv, kind = "poll", NEW c \in Chans, life[c] = "alive",
           events[c] = {} => index[c] < 0 \/ kind \in ReEnabled
    PROVE  /\ index[c] < 0 => ~Registered(c) /\ channels[fd[c]] = None /\ events[c] = {}
           /\ index[c] >= 0 => events[c] # {} /\ Registered(c)
           /\ fd[c] \in Fds /\ fd[c] \in Nat /\ index[c] \in Int /\ Len(pollfds) \in Nat
           /\ DOMAIN pollfds = 1..Len(pollfds)
<1>1. fd[c] \in Fds /\ fd[c] \in Nat /\ index[c] \in Int /\ Len(pollfds) \in Nat /\ DOMAIN pollfds = 1..Len(pollfds)
  <2>1. pollfds \in Seq(PollFd) /\ index[c] \in Int
    BY DEF IInv, TypeOK
  <2>2. fd[c] \in Fds
    BY DEF IInv, Tables, Lives
  <2>3. fd[c] \in Nat
    BY <2>2, FdsAssumption
  <2>4. Len(pollfds) \in Nat /\ DOMAIN pollfds = 1..Len(pollfds)
    BY <2>1
  <2>. QED
    BY <2>1, <2>2, <2>3, <2>4
<1>2. ASSUME Registered(c) PROVE index[c] >= 0
  <2>1. index[c] + 1 \in 1..Len(pollfds)
    BY <1>1, <1>2 DEF IInv, Tables, PollTable
  <2>. QED
    BY <2>1, <1>1
<1>3. ASSUME index[c] < 0 PROVE ~Registered(c) /\ channels[fd[c]] = None /\ events[c] = {}
  <2>1. ~Registered(c)
    BY <1>1, <1>2, <1>3
  <2>2. channels[fd[c]] = None
    <3>. SUFFICES ASSUME channels[fd[c]] # None PROVE FALSE
      OBVIOUS
    <3>1. channels[fd[c]] \in Chans
      BY <1>1 DEF IInv, TypeOK
    <3>2. life[channels[fd[c]]] = "alive" /\ fd[channels[fd[c]]] = fd[c]
      BY <1>1 DEF IInv, Tables, MapOfLiving
    <3>3. channels[fd[c]] = c
      BY <3>1, <3>2 DEF IInv, Tables, Lives
    <3>. QED
      BY <3>3, <2>1 DEF Registered
  <2>3. events[c] = {}
    BY <2>1 DEF IInv, Tables, AskersKnown
  <2>. QED
    BY <2>1, <2>2, <2>3
<1>4. ASSUME index[c] >= 0 PROVE events[c] # {} /\ Registered(c)
  <2>1. events[c] # {}
    BY <1>1, <1>4 DEF IInv
  <2>. QED
    BY <2>1 DEF IInv, Tables, AskersKnown
<1>. QED
  BY <1>1, <1>3, <1>4

(* The first update of a channel appends its entry.                        *)
LEMMA PollAddStep ==
    ASSUME IInv, kind = "poll", NEW c \in Chans, NEW ev \in SUBSET Events, Update(c, ev),
           index[c] < 0, failed = "none"
    PROVE  IInv'
<1>. USE DEF IInv
<1>. DEFINE f == fd[c]  n == Len(pollfds)  e == [fd |-> f, events |-> ev]
<1>0. /\ life[c] = "alive" /\ ev # events[c]
      /\ pollfds' = Append(pollfds, e)
      /\ index' = [index EXCEPT ![c] = n]
      /\ channels' = [channels EXCEPT ![f] = c]
      /\ events' = [events EXCEPT ![c] = ev]
      /\ Check(channels[f] = None, "updateChannel: channels_")
      /\ UNCHANGED <<kind, life, fd, epoll, eventList, phase, hot, active, todo, current>>
  <2>1. PollUpdate(c, ev)
    BY DEF Update
  <2>2. ~(index[c] >= 0)
    BY DEF TypeOK
  <2>. QED
    BY <2>1, <2>2 DEF Update, PollUpdate, NewEntry, loop
<1>1. /\ ~Registered(c) /\ channels[f] = None /\ events[c] = {} /\ f \in Fds /\ f \in Nat
      /\ n \in Nat /\ DOMAIN pollfds = 1..n
  BY PollUpdateCases DEF Update
<1>2. ev # {} /\ failed' = "none"
  BY <1>0, <1>1 DEF Check
<1>3. /\ e \in PollFd
      /\ DOMAIN pollfds' = 1..(n + 1) /\ pollfds'[n + 1] = e /\ pollfds' \in Seq(PollFd)
      /\ \A i \in 1..n : pollfds'[i] = pollfds[i]
  <2>1. e \in PollFd
    BY <1>1 DEF PollFd
  <2>2. pollfds \in Seq(PollFd)
    BY DEF TypeOK
  <2>. HIDE DEF e
  <2>3. pollfds' = Append(pollfds, e)
    BY <1>0
  <2>. QED
    BY <2>1, <2>2, <2>3, AppendFacts
<1>. HIDE DEF n, f
<1>4. TypeOK'
  <2>1. index' \in [Chans -> Int]
    <3>1. index' = [index EXCEPT ![c] = n]
      BY <1>0
    <3>2. index \in [Chans -> Int]
      BY DEF TypeOK
    <3>3. n \in Int
      BY <1>1
    <3>. QED
      BY <3>1, <3>2, <3>3
  <2>2. channels' \in [Fds -> Chans \cup {None}]
    BY <1>0, <1>1 DEF TypeOK
  <2>. QED
    BY <1>0, <1>3, <2>1, <2>2 DEF TypeOK
<1>5. Registered(c)' /\ \A d \in Chans : d # c => Registered(d)' = Registered(d)
  <2>1. Registered(c)'
    BY <1>0, <1>1 DEF Registered, TypeOK, f
  <2>2. ASSUME NEW d \in Chans, d # c, life[d] = "alive" PROVE fd[d] \in Fds /\ fd[d] # f
    BY <2>2, <1>0 DEF Tables, Lives, f
  <2>. QED
    BY <2>1, <2>2, <1>0, <1>1 DEF Registered, TypeOK
<1>6. Lives'
  BY <1>0 DEF Tables, Lives, TypeOK
<1>7. MapOfLiving'
  BY <1>0, <1>1 DEF Tables, MapOfLiving, TypeOK, f
<1>8. AskersKnown'
  BY <1>0, <1>5 DEF Tables, AskersKnown, TypeOK
<1>9. PollTable'
  <2>1. Entry(c)' = e /\ index'[c] = n
    BY <1>0, <1>1, <1>2 DEF Entry, TypeOK, f
  <2>2. ASSUME NEW d \in Chans, d # c, Registered(d)
        PROVE  Entry(d)' = Entry(d) /\ index'[d] = index[d] /\ index[d] + 1 \in 1..n /\ pollfds[index[d] + 1] = Entry(d)
    BY <2>2, <1>0, <1>1 DEF Entry, TypeOK, Tables, PollTable
  <2>. HIDE DEF e
  <2>3. ASSUME NEW d \in Chans, Registered(d)'
        PROVE  index'[d] + 1 \in DOMAIN pollfds' /\ pollfds'[index'[d] + 1] = Entry(d)'
    <3>1. CASE d = c
      BY <3>1, <2>1, <1>1, <1>3
    <3>2. CASE d # c
      <4>1. index'[d] + 1 \in 1..n /\ pollfds[index'[d] + 1] = Entry(d)'
        BY <3>2, <2>2, <2>3, <1>5
      <4>2. index'[d] + 1 \in 1..(n + 1)
        BY <4>1, <1>1
      <4>. QED
        BY <4>1, <4>2, <1>3
    <3>. QED
      BY <3>1, <3>2
  <2>4. ASSUME NEW i \in DOMAIN pollfds' PROVE \E d \in Chans : Registered(d)' /\ index'[d] + 1 = i
    <3>1. CASE i = n + 1
      BY <3>1, <2>1, <1>5
    <3>2. CASE i # n + 1
      <4>1. i \in 1..n
        BY <3>2, <2>4, <1>1, <1>3
      <4>2. PICK d \in Chans : Registered(d) /\ index[d] + 1 = i
        BY <4>1, <1>1 DEF Tables, PollTable
      <4>3. d # c
        BY <4>2, <1>1
      <4>. QED
        BY <4>2, <4>3, <2>2, <1>5
    <3>. QED
      BY <3>1, <3>2
  <2>. QED
    BY <2>3, <2>4 DEF PollTable
<1>10. EpollTable'
  BY <1>0 DEF EpollTable
<1>11. Rounds'
  BY <1>0, <1>2, <1>5 DEF Rounds, TypeOK
<1>. QED
  BY <1>4, <1>6, <1>7, <1>8, <1>9, <1>10, <1>11 DEF Tables

(* A later one finds the entry at index_ and changes it in place; the      *)
(* assertion on pfd.fd holds.                                              *)
LEMMA PollModStep ==
    ASSUME IInv, kind = "poll", NEW c \in Chans, NEW ev \in SUBSET Events, Update(c, ev),
           index[c] >= 0, failed = "none"
    PROVE  IInv'
<1>. USE DEF IInv
<1>. DEFINE f == fd[c]  i == index[c] + 1  e == [fd |-> FdAfterUpdate(pollfds[i], f, ev), events |-> ev]
<1>1. /\ events[c] # {} /\ Registered(c) /\ f \in Fds /\ f \in Nat
      /\ Len(pollfds) \in Nat /\ DOMAIN pollfds = 1..Len(pollfds) /\ index[c] \in Int
  BY PollUpdateCases DEF Update
<1>2. i \in DOMAIN pollfds /\ pollfds[i] = Entry(c) /\ pollfds[i].fd = f
  BY <1>1 DEF Tables, PollTable, Entry
<1>0. /\ life[c] = "alive" /\ ev # events[c]
      /\ pollfds' = [pollfds EXCEPT ![i] = e]
      /\ events' = [events EXCEPT ![c] = ev]
      /\ failed' = "none"
      /\ UNCHANGED <<kind, life, fd, index, channels, epoll, eventList, phase, hot, active, todo, current>>
  <2>1. PollUpdate(c, ev)
    BY DEF Update
  <2>2. ~(index[c] < 0)
    BY DEF TypeOK
  <2>3. channels[f] = c /\ i <= Len(pollfds) /\ pollfds[i].fd \in {f, Ignored(f)}
    BY <1>1, <1>2 DEF Registered
  <2>4. pollfds' = [pollfds EXCEPT ![i] = [fd |-> FdAfterUpdate(@, f, ev), events |-> ev]]
    BY <2>1, <2>2 DEF PollUpdate
  <2>5. failed' = "none"
    BY <2>1, <2>2, <2>3 DEF PollUpdate, Check
  <2>. QED
    BY <2>1, <2>2, <2>4, <2>5 DEF Update, PollUpdate, loop
<1>3. e = Entry(c)' /\ e \in PollFd
  BY <1>0, <1>1, <1>2 DEF Entry, FdAfterUpdate, TypeOK, Ignored, PollFd
<1>. HIDE DEF e
<1>4. /\ DOMAIN pollfds' = DOMAIN pollfds /\ pollfds'[i] = e
      /\ \A j \in DOMAIN pollfds : j # i => pollfds'[j] = pollfds[j]
      /\ pollfds' \in Seq(PollFd)
  <2>1. pollfds \in Seq(PollFd)
    BY DEF TypeOK
  <2>. QED
    BY <1>0, <1>2, <1>3, <2>1
<1>5. TypeOK'
  BY <1>0, <1>4 DEF TypeOK
<1>6. \A d \in Chans : Registered(d)' = Registered(d)
  BY <1>0 DEF Registered
<1>7. Lives' /\ MapOfLiving' /\ AskersKnown'
  BY <1>0, <1>1, <1>6 DEF Tables, Lives, MapOfLiving, AskersKnown, TypeOK
<1>8. PollTable'
  <2>1. ASSUME NEW d \in Chans, Registered(d)
        PROVE  index'[d] + 1 \in DOMAIN pollfds' /\ pollfds'[index'[d] + 1] = Entry(d)'
    <3>1. CASE d = c
      BY <3>1, <1>0, <1>2, <1>3, <1>4
    <3>2. CASE d # c
      <4>1. index[d] + 1 \in DOMAIN pollfds /\ pollfds[index[d] + 1] = Entry(d)
        BY <2>1 DEF Tables, PollTable
      <4>2. index[d] # index[c]
        BY <2>1, <3>2, <1>1, IndexInjective
      <4>3. index[d] + 1 # i
        BY <4>2 DEF TypeOK
      <4>4. Entry(d)' = Entry(d)
        BY <3>2, <1>0 DEF Entry, TypeOK
      <4>. QED
        BY <4>1, <4>3, <4>4, <1>0, <1>4
    <3>. QED
      BY <3>1, <3>2
  <2>. QED
    BY <2>1, <1>0, <1>4, <1>6 DEF Tables, PollTable
<1>9. EpollTable'
  BY <1>0 DEF EpollTable
<1>10. Rounds'
  BY <1>0, <1>6 DEF Rounds, TypeOK
<1>. QED
  BY <1>5, <1>7, <1>8, <1>9, <1>10 DEF Tables

(* What cutting entry i out of pollfds_ leaves: the last entry is at i,    *)
(* the others are where they were.                                         *)
LEMMA CutFacts ==
    ASSUME NEW S, NEW s \in Seq(S), NEW i \in 1..Len(s)
    PROVE  LET t == SubSeq([s EXCEPT ![i] = s[Len(s)]], 1, Len(s) - 1)
           IN  /\ t \in Seq(S) /\ DOMAIN t = 1..(Len(s) - 1)
               /\ \A j \in 1..(Len(s) - 1) : t[j] = IF j = i THEN s[Len(s)] ELSE s[j]
<1>. DEFINE r == [s EXCEPT ![i] = s[Len(s)]]
<1>1. Len(s) \in Nat /\ DOMAIN s = 1..Len(s) /\ Len(s) \in 1..Len(s)
  OBVIOUS
<1>2. s[Len(s)] \in S
  BY <1>1
<1>3. r \in Seq(S) /\ Len(r) = Len(s) /\ \A j \in 1..Len(s) : r[j] = IF j = i THEN s[Len(s)] ELSE s[j]
  BY <1>1, <1>2
<1>. HIDE DEF r
<1>4. /\ SubSeq(r, 1, Len(s) - 1) \in Seq(S) /\ Len(SubSeq(r, 1, Len(s) - 1)) = Len(s) - 1
      /\ \A j \in 1..(Len(s) - 1) : SubSeq(r, 1, Len(s) - 1)[j] = r[j]
  BY <1>1, <1>3
<1>. QED
  BY <1>1, <1>3, <1>4 DEF r

(* A channel that is removed is not one the round still has to handle.     *)
LEMMA RemovedNotTodo ==
    ASSUME IInv, NEW c \in Chans, MayRemove(c)
    PROVE  c \notin todo
BY DEF IInv, TypeOK, Rounds, MayRemove

(* What removing a channel from channels_ means for the others.            *)
LEMMA Unregister ==
    ASSUME IInv, NEW c \in Chans, Registered(c), channels' = [channels EXCEPT ![fd[c]] = None],
           UNCHANGED <<life, fd>>
    PROVE  /\ ~Registered(c)' /\ \A d \in Chans : d # c => Registered(d)' = Registered(d)
           /\ MapOfLiving' /\ channels' \in [Fds -> Chans \cup {None}] /\ fd[c] \in Fds
<1>. USE DEF IInv
<1>1. fd[c] \in Fds /\ life[c] = "alive" /\ channels[fd[c]] = c
  BY DEF Tables, Lives, Registered
<1>2. \A d \in Chans : d # c /\ life[d] = "alive" => fd[d] \in Fds /\ fd[d] # fd[c]
  BY <1>1 DEF Tables, Lives
<1>3. ~Registered(c)'
  BY <1>1, NoneAssumption DEF Registered, TypeOK
<1>4. \A d \in Chans : d # c => Registered(d)' = Registered(d)
  BY <1>1, <1>2 DEF Registered, TypeOK
<1>5. MapOfLiving'
  BY <1>1 DEF Tables, MapOfLiving, TypeOK
<1>6. channels' \in [Fds -> Chans \cup {None}]
  BY <1>1 DEF TypeOK
<1>. QED
  BY <1>1, <1>3, <1>4, <1>5, <1>6

(* removeChannel moves the last entry into the gap and lets the index_ of  *)
(* its channel follow, also when that entry is one poll() ignores.         *)
LEMMA PollRemoveStep ==
    ASSUME IInv, kind = "poll", NEW c \in Chans, Remove(c), failed = "none"
    PROVE  IInv'
<1>. USE DEF IInv
<1>. DEFINE f == fd[c]  i == index[c] + 1  n == Len(pollfds)
            end == pollfds[n].fd
            last == channels[IF end < 0 THEN Ignored(end) ELSE end]
<1>1. Registered(c) /\ events[c] = {} /\ MayRemove(c) /\ PollRemove(c)
      /\ UNCHANGED <<kind, life, fd, events, eventList, phase, hot, active, todo, current>>
  BY DEF Remove, loop
<1>2. pollfds \in Seq(PollFd) /\ n \in Nat /\ DOMAIN pollfds = 1..n /\ index[c] \in Int
  BY DEF TypeOK
<1>3. i \in 1..n /\ n \in 1..n /\ pollfds[i] = Entry(c)
  <2>1. i \in 1..n /\ pollfds[i] = Entry(c)
    BY <1>1, <1>2 DEF Tables, PollTable
  <2>. QED
    BY <2>1, <1>2
<1>4. PICK m \in Chans : Registered(m) /\ index[m] + 1 = n
  BY <1>2, <1>3 DEF Tables, PollTable
<1>5. last = m
  <2>1. fd[m] \in Nat /\ channels[fd[m]] = m
    BY <1>4, FdsAssumption DEF Tables, Lives, Registered
  <2>2. pollfds[n] = Entry(m)
    BY <1>4 DEF Tables, PollTable
  <2>3. end = fd[m] \/ end = Ignored(fd[m])
    BY <2>2 DEF Entry
  <2>. QED
    BY <2>1, <2>3 DEF Ignored
<1>0. /\ channels' = [channels EXCEPT ![f] = None]
      /\ pollfds' = SubSeq([pollfds EXCEPT ![i] = pollfds[n]], 1, n - 1)
      /\ index' = IF i = n THEN index ELSE [index EXCEPT ![m] = index[c]]
      /\ failed' = "none" /\ epoll' = epoll
  <2>1. channels[f] = c /\ i <= n /\ pollfds[i].fd = Ignored(f) /\ pollfds[i].events = events[c]
    BY <1>1, <1>2, <1>3 DEF Registered, Entry
  <2>2. failed' = "none"
    BY <1>1, <2>1 DEF PollRemove, Check
  <2>3. index' = IF i = n THEN index ELSE MovedIndex(c, last)
    BY <1>1 DEF PollRemove
  <2>. QED
    BY <1>1, <1>5, <2>2, <2>3 DEF PollRemove, MovedIndex
<1>6. /\ pollfds' \in Seq(PollFd) /\ DOMAIN pollfds' = 1..(n - 1)
      /\ \A j \in 1..(n - 1) : pollfds'[j] = IF j = i THEN pollfds[n] ELSE pollfds[j]
  BY <1>0, <1>2, <1>3, CutFacts
<1>7. /\ ~Registered(c)' /\ \A d \in Chans : d # c => Registered(d)' = Registered(d)
      /\ MapOfLiving' /\ channels' \in [Fds -> Chans \cup {None}]
  BY <1>0, <1>1, Unregister
<1>8. /\ index' \in [Chans -> Int] /\ \A d \in Chans : index[d] \in Int
      /\ i # n => index'[m] = index[c] /\ \A d \in Chans : d # m => index'[d] = index[d]
      /\ i = n => index' = index
  BY <1>0 DEF TypeOK
<1>. HIDE DEF last, end, f
<1>9. TypeOK'
  BY <1>0, <1>1, <1>6, <1>7, <1>8 DEF TypeOK
<1>10. Lives'
  <2>1. \A d \in Chans : life[d] = "unborn" => d # m
    BY <1>4 DEF Registered
  <2>2. \A d \in Chans : d # m => index'[d] = index[d]
    BY <1>8
  <2>. QED
    BY <1>1, <2>1, <2>2 DEF Tables, Lives
<1>11. AskersKnown'
  BY <1>1, <1>7 DEF Tables, AskersKnown
<1>12. PollTable'
  <2>1. \A d \in Chans : Entry(d)' = Entry(d)
    BY <1>1 DEF Entry
  <2>2. i = n => m = c
    BY <1>1, <1>2, <1>4, <1>8, IndexInjective
  <2>3. ASSUME NEW d \in Chans, d # c, Registered(d)
        PROVE  /\ index[d] + 1 \in 1..n /\ pollfds[index[d] + 1] = Entry(d)
               /\ index[d] # index[c] /\ (d # m => index[d] # index[m])
    BY <2>3, <1>1, <1>2, <1>4, IndexInjective DEF Tables, PollTable
  <2>4. ASSUME NEW d \in Chans, Registered(d)'
        PROVE  index'[d] + 1 \in DOMAIN pollfds' /\ pollfds'[index'[d] + 1] = Entry(d)'
    <3>1. d # c /\ Registered(d)
      BY <2>4, <1>7
    <3>2. CASE d = m
      <4>1. i # n
        BY <3>1, <3>2, <2>2
      <4>2. index'[d] + 1 = i /\ i \in 1..(n - 1)
        BY <3>2, <4>1, <1>2, <1>3, <1>8
      <4>3. pollfds[n] = Entry(d)
        BY <3>1, <3>2, <2>3, <1>4
      <4>. QED
        BY <4>2, <4>3, <2>1, <1>6
    <3>3. CASE d # m
      <4>1. index'[d] = index[d]
        BY <3>3, <1>8
      <4>2. index[d] + 1 \in 1..n /\ index[d] + 1 # n /\ index[d] + 1 # i
        BY <3>1, <3>3, <2>3, <1>4, <1>8
      <4>3. index[d] + 1 \in 1..(n - 1)
        BY <4>2, <1>2, <1>8
      <4>. QED
        BY <4>1, <4>2, <4>3, <3>1, <2>1, <2>3, <1>6
    <3>. QED
      BY <3>2, <3>3
  <2>5. ASSUME NEW j \in DOMAIN pollfds' PROVE \E d \in Chans : Registered(d)' /\ index'[d] + 1 = j
    <3>1. j \in 1..n /\ j # n
      BY <2>5, <1>2, <1>6
    <3>2. CASE j = i
      <4>1. m # c
        BY <3>1, <3>2, <1>4
      <4>. QED
        BY <4>1, <3>1, <3>2, <1>4, <1>7, <1>8
    <3>3. CASE j # i
      <4>1. PICK d \in Chans : Registered(d) /\ index[d] + 1 = j
        BY <3>1, <1>2 DEF Tables, PollTable
      <4>2. d # c /\ d # m
        BY <4>1, <3>1, <3>3, <1>4
      <4>. QED
        BY <4>1, <4>2, <1>7, <1>8
    <3>. QED
      BY <3>2, <3>3
  <2>. QED
    BY <2>4, <2>5 DEF PollTable
<1>13. EpollTable'
  BY <1>1 DEF EpollTable
<1>14. Rounds'
  BY <1>0, <1>1, <1>7, RemovedNotTodo DEF Rounds, TypeOK
<1>. QED
  BY <1>7, <1>9, <1>10, <1>11, <1>12, <1>13, <1>14 DEF Tables
-----------------------------------------------------------------------------
(* EPollPoller.                                                            *)

(* What is known of a channel of an EPollPoller that is updated: it is in  *)
(* channels_ unless it is new, and kAdded exactly if it asks for something.*)
LEMMA EpollUpdateCases ==
    ASSUME IInv, kind = "epoll", NEW c \in Chans, life[c] = "alive"
    PROVE  /\ fd[c] \in Fds
           /\ index[c] = kNew => ~Registered(c) /\ channels[fd[c]] = None /\ events[c] = {}
           /\ index[c] # kNew => Registered(c) /\ channels[fd[c]] = c
           /\ index[c] = IF ~Registered(c) THEN kNew ELSE IF events[c] = {} THEN kDeleted ELSE kAdded
<1>. USE DEF IInv
<1>1. fd[c] \in Fds
  BY DEF Tables, Lives
<1>2. index[c] = IF ~Registered(c) THEN kNew ELSE IF events[c] = {} THEN kDeleted ELSE kAdded
  BY DEF Tables, EpollTable
<1>3. ASSUME index[c] = kNew PROVE ~Registered(c) /\ channels[fd[c]] = None /\ events[c] = {}
  <2>1. ~Registered(c)
    BY <1>2, <1>3 DEF kNew, kDeleted, kAdded
  <2>2. channels[fd[c]] = None
    <3>. SUFFICES ASSUME channels[fd[c]] # None PROVE FALSE
      OBVIOUS
    <3>1. channels[fd[c]] \in Chans
      BY <1>1 DEF TypeOK
    <3>2. life[channels[fd[c]]] = "alive" /\ fd[channels[fd[c]]] = fd[c]
      BY <1>1 DEF Tables, MapOfLiving
    <3>3. channels[fd[c]] = c
      BY <3>1, <3>2 DEF Tables, Lives
    <3>. QED
      BY <3>3, <2>1 DEF Registered
  <2>3. events[c] = {}
    BY <2>1 DEF Tables, AskersKnown
  <2>. QED
    BY <2>1, <2>2, <2>3
<1>4. ASSUME index[c] # kNew PROVE Registered(c) /\ channels[fd[c]] = c
  BY <1>2, <1>4 DEF Registered
<1>. QED
  BY <1>1, <1>2, <1>3, <1>4

(* updateChannel chooses the operation by index_ such that the kernel's    *)
(* set changes as the channel asks.                                        *)
LEMMA EpollUpdateStep ==
    ASSUME IInv, kind = "epoll", NEW c \in Chans, NEW ev \in SUBSET Events, Update(c, ev),
           failed = "none"
    PROVE  IInv'
<1>. USE DEF IInv
<1>. DEFINE f == fd[c]  op == Operation(index[c], ev)
<1>1. /\ life[c] = "alive" /\ ev # events[c] /\ events' = [events EXCEPT ![c] = ev]
      /\ EpollUpdate(c, ev)
      /\ UNCHANGED <<kind, life, fd, eventList, phase, hot, active, todo, current>>
  BY DEF Update, loop
<1>2. /\ f \in Fds
      /\ index[c] = kNew => ~Registered(c) /\ channels[f] = None /\ events[c] = {}
      /\ index[c] # kNew => Registered(c) /\ channels[f] = c
      /\ index[c] = IF ~Registered(c) THEN kNew ELSE IF events[c] = {} THEN kDeleted ELSE kAdded
  BY <1>1, EpollUpdateCases
<1>3. /\ channels' = IF index[c] = kNew THEN [channels EXCEPT ![f] = c] ELSE channels
      /\ index' = [index EXCEPT ![c] = IF op = "DEL" THEN kDeleted ELSE kAdded]
      /\ epoll' = Ctl(op, f, c, ev)
      /\ failed' = "none" /\ pollfds' = pollfds
  <2>1. channels[f] = IF index[c] = kNew THEN None ELSE c
    BY <1>2
  <2>. QED
    BY <1>1, <2>1 DEF EpollUpdate, Check
<1>4. /\ ev = {} => op = "DEL" /\ index[c] = kAdded
      /\ ev # {} => op = IF index[c] = kAdded THEN "MOD" ELSE "ADD"
  BY <1>1, <1>2 DEF Operation, kNew, kAdded, kDeleted
<1>5. epoll[f] # Absent <=> index[c] = kAdded
  <2>1. epoll[f] = IF channels[f] # None /\ index[channels[f]] = kAdded
                   THEN [ptr |-> channels[f], events |-> events[channels[f]]] ELSE Absent
    BY <1>2 DEF Tables, EpollTable
  <2>2. CASE index[c] = kNew
    BY <2>1, <2>2, <1>2 DEF kNew, kAdded
  <2>3. CASE index[c] # kNew
    <3>1. [ptr |-> c, events |-> events[c]] # Absent
      BY NoneAssumption DEF Absent
    <3>. QED
      BY <2>1, <2>3, <3>1, <1>2, NoneAssumption
  <2>. QED
    BY <2>2, <2>3
<1>6. epoll' = [epoll EXCEPT ![f] = IF ev = {} THEN Absent ELSE [ptr |-> c, events |-> ev]]
  BY <1>3, <1>4, <1>5 DEF Ctl
<1>. HIDE DEF op, f
<1>7. index' = [index EXCEPT ![c] = IF ev = {} THEN kDeleted ELSE kAdded]
  BY <1>3, <1>4
<1>8. channels' = [channels EXCEPT ![f] = c]
  BY <1>2, <1>3 DEF TypeOK
<1>9. TypeOK'
  <2>1. epoll' \in [Fds -> [ptr : Chans \cup {None}, events : SUBSET Events]]
    BY <1>2, <1>6 DEF TypeOK, Absent
  <2>2. index' \in [Chans -> Int]
    BY <1>7 DEF TypeOK, kDeleted, kAdded
  <2>3. channels' \in [Fds -> Chans \cup {None}]
    BY <1>2, <1>8 DEF TypeOK
  <2>4. events' \in [Chans -> SUBSET Events]
    BY <1>1 DEF TypeOK
  <2>. QED
    BY <1>1, <1>3, <2>1, <2>2, <2>3, <2>4 DEF TypeOK
<1>10. Registered(c)' /\ \A d \in Chans : d # c => Registered(d)' = Registered(d)
  <2>1. Registered(c)'
    BY <1>1, <1>2, <1>8 DEF Registered, TypeOK, f
  <2>2. ASSUME NEW d \in Chans, d # c, life[d] = "alive" PROVE fd[d] \in Fds /\ fd[d] # f
    BY <2>2, <1>1 DEF Tables, Lives, f
  <2>. QED
    BY <2>1, <2>2, <1>1, <1>2, <1>8 DEF Registered, TypeOK
<1>11. Lives'
  BY <1>1, <1>7 DEF Tables, Lives, TypeOK
<1>12. MapOfLiving'
  BY <1>1, <1>2, <1>8 DEF Tables, MapOfLiving, TypeOK, f
<1>13. AskersKnown'
  BY <1>1, <1>10 DEF Tables, AskersKnown, TypeOK
<1>14. PollTable'
  BY <1>1 DEF PollTable
<1>15. EpollTable'
  <2>1. \A d \in Chans : index'[d] = (IF d = c THEN IF ev = {} THEN kDeleted ELSE kAdded ELSE index[d])
                      /\ events'[d] = (IF d = c THEN ev ELSE events[d])
    BY <1>1, <1>7 DEF TypeOK
  <2>2. ASSUME NEW d \in Chans PROVE
               /\ Registered(d)' => index'[d] = IF events'[d] = {} THEN kDeleted ELSE kAdded
               /\ life[d] = "alive" /\ ~Registered(d)' => index'[d] = kNew
    BY <2>1, <1>10 DEF Tables, EpollTable
  <2>3. ASSUME NEW g \in Fds
        PROVE  epoll'[g] = IF channels'[g] # None /\ index'[channels'[g]] = kAdded
                           THEN [ptr |-> channels'[g], events |-> events'[channels'[g]]] ELSE Absent
    <3>1. CASE g = f
      <4>1. channels'[g] = c /\ epoll'[g] = IF ev = {} THEN Absent ELSE [ptr |-> c, events |-> ev]
        BY <3>1, <1>2, <1>6, <1>8 DEF TypeOK
      <4>. QED
        BY <4>1, <2>1, NoneAssumption DEF kAdded, kDeleted
    <3>2. CASE g # f
      <4>1. channels'[g] = channels[g] /\ epoll'[g] = epoll[g] /\ channels[g] \in Chans \cup {None}
        BY <3>2, <1>2, <1>6, <1>8 DEF TypeOK
      <4>2. channels[g] # c
        BY <3>2, NoneAssumption DEF Tables, MapOfLiving, f
      <4>3. epoll[g] = IF channels[g] # None /\ index[channels[g]] = kAdded
                       THEN [ptr |-> channels[g], events |-> events[channels[g]]] ELSE Absent
        BY DEF Tables, EpollTable
      <4>. QED
        BY <4>1, <4>2, <4>3, <2>1
    <3>. QED
      BY <3>1, <3>2
  <2>. QED
    BY <2>2, <2>3, <1>1 DEF EpollTable
<1>16. Rounds'
  BY <1>1, <1>3, <1>10 DEF Rounds, TypeOK
<1>. QED
  BY <1>9, <1>11, <1>12, <1>13, <1>14, <1>15, <1>16 DEF Tables

(* removeChannel leaves nothing of the channel in the kernel's set.        *)
LEMMA EpollRemoveStep ==
    ASSUME IInv, kind = "epoll", NEW c \in Chans, Remove(c), failed = "none"
    PROVE  IInv'
<1>. USE DEF IInv
<1>. DEFINE f == fd[c]
<1>1. Registered(c) /\ events[c] = {} /\ MayRemove(c) /\ EpollRemove(c)
      /\ UNCHANGED <<kind, life, fd, events, eventList, phase, hot, active, todo, current>>
  BY DEF Remove, loop
<1>2. index[c] = kDeleted /\ channels[f] = c /\ life[c] = "alive"
  BY <1>1 DEF Tables, EpollTable, Registered
<1>3. /\ channels' = [channels EXCEPT ![f] = None]
      /\ epoll' = epoll /\ pollfds' = pollfds
      /\ index' = [index EXCEPT ![c] = kNew]
      /\ failed' = "none"
  BY <1>1, <1>2 DEF EpollRemove, Check, kAdded, kDeleted
<1>4. /\ ~Registered(c)' /\ \A d \in Chans : d # c => Registered(d)' = Registered(d)
      /\ MapOfLiving' /\ channels' \in [Fds -> Chans \cup {None}] /\ f \in Fds
  BY <1>1, <1>3, Unregister
<1>5. index' \in [Chans -> Int] /\ index'[c] = kNew /\ \A d \in Chans : d # c => index'[d] = index[d]
  BY <1>3 DEF TypeOK, kNew
<1>6. TypeOK'
  BY <1>1, <1>3, <1>4, <1>5 DEF TypeOK
<1>7. Lives'
  BY <1>1, <1>2, <1>5 DEF Tables, Lives
<1>8. AskersKnown'
  BY <1>1, <1>4 DEF Tables, AskersKnown
<1>9. PollTable'
  BY <1>1 DEF PollTable
<1>10. EpollTable'
  <2>1. ASSUME NEW d \in Chans PROVE
               /\ Registered(d)' => index'[d] = IF events[d] = {} THEN kDeleted ELSE kAdded
               /\ life[d] = "alive" /\ ~Registered(d)' => index'[d] = kNew
    BY <1>4, <1>5 DEF Tables, EpollTable
  <2>2. ASSUME NEW g \in Fds
        PROVE  epoll[g] = IF channels'[g] # None /\ index'[channels'[g]] = kAdded
                          THEN [ptr |-> channels'[g], events |-> events[channels'[g]]] ELSE Absent
    <3>0. epoll[g] = IF channels[g] # None /\ index[channels[g]] = kAdded
                     THEN [ptr |-> channels[g], events |-> events[channels[g]]] ELSE Absent
      BY DEF Tables, EpollTable
    <3>1. CASE g = f
      <4>1. channels'[g] = None
        BY <3>1, <1>3, <1>4 DEF TypeOK
      <4>2. epoll[g] = Absent
        BY <3>0, <3>1, <1>2 DEF kAdded, kDeleted
      <4>. QED
        BY <4>1, <4>2
    <3>2. CASE g # f
      <4>1. channels'[g] = channels[g] /\ channels[g] \in Chans \cup {None}
        BY <3>2, <1>3, <1>4 DEF TypeOK
      <4>2. channels[g] # c
        BY <3>2, NoneAssumption DEF Tables, MapOfLiving
      <4>. QED
        BY <3>0, <4>1, <4>2, <1>5
    <3>. QED
      BY <3>1, <3>2
  <2>. QED
    BY <2>1, <2>2, <1>1, <1>3 DEF EpollTable
<1>11. Rounds'
  BY <1>1, <1>3, <1>4, RemovedNotTodo DEF Rounds, TypeOK
<1>. QED
  BY <1>4, <1>6, <1>7, <1>8, <1>9, <1>10, <1>11 DEF Tables
-----------------------------------------------------------------------------
(* The owners and the loop.                                                *)

(* A channel that is deleted was removed before.                           *)
LEMMA DeleteStep ==
    ASSUME IInv, NEW c \in Chans, Delete(c)
    PROVE  IInv'
<1>. USE DEF IInv
<1>1. /\ life[c] = "alive" /\ ~Registered(c) /\ life' = [life EXCEPT ![c] = "deleted"]
      /\ UNCHANGED <<kind, fd, events, index, channels, pollfds, epoll, eventList, phase, hot, active, todo, current, failed>>
  BY DEF Delete, table, loop
<1>2. \A d \in Chans : Registered(d)' = Registered(d)
  BY <1>1 DEF Registered, TypeOK
<1>3. TypeOK'
  BY <1>1 DEF TypeOK
<1>4. Lives'
  BY <1>1 DEF Tables, Lives, TypeOK
<1>5. MapOfLiving'
  <2>1. ASSUME NEW g \in Fds, channels[g] # None PROVE channels[g] # c /\ channels[g] \in Chans
    BY <2>1, <1>1 DEF Tables, MapOfLiving, Registered, TypeOK
  <2>. QED
    BY <2>1, <1>1 DEF Tables, MapOfLiving, TypeOK
<1>6. AskersKnown'
  BY <1>1, <1>2 DEF Tables, AskersKnown
<1>7. PollTable'
  BY <1>1, <1>2 DEF Tables, PollTable, Entry
<1>8. EpollTable'
  BY <1>1, <1>2 DEF Tables, EpollTable, TypeOK
<1>9. Rounds'
  BY <1>1, <1>2 DEF Rounds, TypeOK
<1>. QED
  BY <1>3, <1>4, <1>5, <1>6, <1>7, <1>8, <1>9 DEF Tables

(* A channel that never asked for anything is in no table.                 *)
LEMMA DestroyAcceptorStep ==
    ASSUME IInv, NEW c \in Chans, DestroyAcceptor(c), failed = "none"
    PROVE  IInv'
<1>. USE DEF IInv
<1>1. /\ life[c] = "alive" /\ index[c] = kNew /\ life' = [life EXCEPT ![c] = "deleted"]
      /\ UNCHANGED <<kind, fd, events, index, channels, pollfds, epoll, eventList, phase, hot, active, todo, current>>
  BY DEF DestroyAcceptor, table, loop
<1>2. ~Registered(c)
  <2>1. CASE kind = "poll"
    <3>1. Registered(c) => index[c] + 1 \in DOMAIN pollfds
      BY <2>1 DEF Tables, PollTable
    <3>2. DOMAIN pollfds = 1..Len(pollfds) /\ Len(pollfds) \in Nat
      BY DEF TypeOK
    <3>. QED
      BY <3>1, <3>2, <1>1 DEF kNew
  <2>2. CASE kind = "epoll"
    BY <2>2, <1>1 DEF Tables, EpollTable, kNew, kAdded, kDeleted
  <2>. QED
    BY <2>1, <2>2 DEF TypeOK
<1>3. \A d \in Chans : Registered(d)' = Registered(d)
  BY <1>1, <1>2 DEF Registered, TypeOK
<1>4. TypeOK'
  BY <1>1 DEF TypeOK
<1>5. Lives'
  BY <1>1 DEF Tables, Lives, TypeOK
<1>6. MapOfLiving'
  <2>1. ASSUME NEW g \in Fds, channels[g] # None PROVE channels[g] # c /\ channels[g] \in Chans
    BY <2>1, <1>1, <1>2 DEF Tables, MapOfLiving, Registered, TypeOK
  <2>. QED
    BY <2>1, <1>1 DEF Tables, MapOfLiving, TypeOK
<1>7. AskersKnown'
  BY <1>1, <1>3 DEF Tables, AskersKnown
<1>8. PollTable'
  BY <1>1, <1>3 DEF Tables, PollTable, Entry
<1>9. EpollTable'
  BY <1>1, <1>3 DEF Tables, EpollTable, TypeOK
<1>10. failed' \in {"none", "~Acceptor: pfd.fd"} /\ (failed' # "none" => kind = "poll")
  BY DEF DestroyAcceptor, Check
<1>11. Rounds'
  BY <1>1, <1>3, <1>10 DEF Rounds, TypeOK
<1>. QED
  BY <1>4, <1>5, <1>6, <1>7, <1>8, <1>9, <1>11 DEF Tables

(* The descriptors the kernel watches are those of the channels that ask   *)
(* for something, and fillActiveChannels finds these channels.             *)
LEMMA WatchedAre ==
    ASSUME IInv, NEW f \in Fds
    PROVE  /\ f \in WatchedFds <=> channels[f] # None /\ events[channels[f]] # {}
           /\ f \in WatchedFds => ChannelOf(f) = channels[f]
<1>. USE DEF IInv
<1>1. /\ channels[f] # None => /\ channels[f] \in Chans /\ Registered(channels[f])
                               /\ fd[channels[f]] = f
      /\ f \in Nat
  BY FdsAssumption DEF TypeOK, Tables, MapOfLiving, Registered
<1>2. CASE kind = "poll"
  <2>1. f \in WatchedFds <=> \E i \in DOMAIN pollfds : pollfds[i].fd = f
    BY <1>2 DEF WatchedFds
  <2>2. ASSUME NEW i \in DOMAIN pollfds, pollfds[i].fd = f
        PROVE  channels[f] # None /\ events[channels[f]] # {}
    <3>1. PICK c \in Chans : Registered(c) /\ index[c] + 1 = i
      BY <1>2 DEF Tables, PollTable
    <3>2. pollfds[i] = Entry(c)
      BY <3>1, <1>2 DEF Tables, PollTable
    <3>3. fd[c] \in Nat
      BY <3>1, FdsAssumption DEF Tables, Lives, Registered
    <3>4. events[c] # {} /\ fd[c] = f
      BY <2>2, <3>2, <3>3, <1>1 DEF Entry, Ignored
    <3>. QED
      BY <3>1, <3>4, NoneAssumption DEF Registered
  <2>3. ASSUME channels[f] # None, events[channels[f]] # {}
        PROVE  \E i \in DOMAIN pollfds : pollfds[i].fd = f
    <3>1. /\ index[channels[f]] + 1 \in DOMAIN pollfds
          /\ pollfds[index[channels[f]] + 1] = Entry(channels[f])
      BY <2>3, <1>1, <1>2 DEF Tables, PollTable
    <3>2. Entry(channels[f]).fd = f
      BY <2>3, <1>1 DEF Entry
    <3>. QED
      BY <3>1, <3>2
  <2>. QED
    BY <2>1, <2>2, <2>3, <1>2 DEF ChannelOf
<1>3. CASE kind = "epoll"
  <2>1. f \in WatchedFds <=> epoll[f] # Absent
    BY <1>3 DEF WatchedFds
  <2>2. epoll[f] = IF channels[f] # None /\ index[channels[f]] = kAdded
                   THEN [ptr |-> channels[f], events |-> events[channels[f]]] ELSE Absent
    BY <1>3 DEF Tables, EpollTable
  <2>3. channels[f] # None => index[channels[f]] = IF events[channels[f]] = {} THEN kDeleted ELSE kAdded
    BY <1>1, <1>3 DEF Tables, EpollTable
  <2>4. channels[f] # None => [ptr |-> channels[f], events |-> events[channels[f]]] # Absent
    BY DEF Absent
  <2>. QED
    BY <2>1, <2>2, <2>3, <2>4, <1>3 DEF ChannelOf, kAdded, kDeleted
<1>. QED
  BY <1>2, <1>3 DEF TypeOK

(* The channels poll() reports are those of the reported descriptors in    *)
(* channels_, and they ask for something.                                  *)
LEMMA PollReports ==
    ASSUME IInv, NEW H \in SUBSET Fds, NEW Q \in SUBSET H, Poll(H, Q), failed = "none"
    PROVE  /\ Q \subseteq H \cap WatchedFds
           /\ active' = {channels[f] : f \in Q} /\ todo' = active'
           /\ failed' = "none"
           /\ \A f \in Q : /\ f \in Fds /\ channels[f] \in Chans /\ Registered(channels[f])
                           /\ fd[channels[f]] = f /\ events[channels[f]] # {}
<1>1. Q \subseteq H \cap WatchedFds
  BY DEF Poll, PollReturns, EpollReturns
<1>2. \A f \in Q : /\ f \in Fds /\ channels[f] # None /\ events[channels[f]] # {}
                   /\ ChannelOf(f) = channels[f]
  BY <1>1, WatchedAre
<1>3. active' = {channels[f] : f \in Q} /\ todo' = active'
  BY <1>2 DEF Poll
<1>4. failed' = "none"
  BY <1>2 DEF Poll, Check
<1>5. \A f \in Q : channels[f] \in Chans /\ Registered(channels[f]) /\ fd[channels[f]] = f
  BY <1>2 DEF IInv, TypeOK, Tables, MapOfLiving, Registered
<1>. QED
  BY <1>1, <1>2, <1>3, <1>4, <1>5

(* poll() only fills activeChannels_ with registered channels.             *)
LEMMA PollStep ==
    ASSUME IInv, NEW H \in SUBSET Fds, NEW Q \in SUBSET H, Poll(H, Q), failed = "none"
    PROVE  IInv'
<1>. USE DEF IInv
<1>1. /\ active' = {channels[f] : f \in Q} /\ todo' = active' /\ failed' = "none"
      /\ \A f \in Q : channels[f] \in Chans /\ Registered(channels[f])
  BY PollReports
<1>2. UNCHANGED <<kind, life, fd, events, index, table, current>> /\ phase' = "events" /\ hot' = H
      /\ phase = "functors"
  BY DEF Poll
<1>3. Tables' /\ \A c \in Chans : Registered(c) = Registered(c)'
  BY <1>2, TablesUnchanged
<1>4. eventList' \in Nat \ {0}
  BY DEF Poll, EventListAfter, TypeOK
<1>5. TypeOK'
  BY <1>1, <1>2, <1>4 DEF TypeOK, table
<1>6. current = None
  BY <1>2 DEF Rounds
<1>7. Rounds'
  BY <1>1, <1>2, <1>3, <1>6, NoneAssumption DEF Rounds
<1>. QED
  BY <1>3, <1>5, <1>7

(* Every step keeps the invariant.                                         *)
LEMMA InductiveInvariant == IInv /\ [Next]_vars => IInv'
<1>. SUFFICES ASSUME IInv, [Next]_vars PROVE IInv'
  OBVIOUS
<1>. USE DEF IInv
<1>1. CASE UNCHANGED vars
  <2>1. UNCHANGED <<kind, life, fd, events, index, table>>
    BY <1>1 DEF vars
  <2>2. Tables' /\ \A c \in Chans : Registered(c) = Registered(c)'
    BY <2>1, TablesUnchanged
  <2>. QED
    BY <1>1, <2>2 DEF vars, table, loop, TypeOK, Rounds
<1>2. CASE Next
  <2>0. failed = "none"
    BY <1>2 DEF Next
  <2>1. ASSUME NEW c \in Chans, NEW f \in Fds, NewChannel(c, f) PROVE IInv'
    BY <2>1, NewChannelStep
  <2>2. ASSUME NEW c \in Chans, NEW ev \in SUBSET Events, Update(c, ev) PROVE IInv'
    <3>1. index[c] < 0 \/ index[c] >= 0
      BY DEF TypeOK
    <3>. QED
      BY <2>0, <2>2, <3>1, PollAddStep, PollModStep, EpollUpdateStep DEF TypeOK
  <2>3. ASSUME NEW c \in Chans, Remove(c) PROVE IInv'
    BY <2>0, <2>3, PollRemoveStep, EpollRemoveStep DEF TypeOK
  <2>4. ASSUME NEW c \in Chans, RemoveRefused(c) PROVE IInv'
    <3>1. UNCHANGED <<kind, life, fd, events, index, table>>
      BY <2>4 DEF RemoveRefused
    <3>2. Tables' /\ \A d \in Chans : Registered(d) = Registered(d)'
      BY <3>1, TablesUnchanged
    <3>. QED
      BY <2>4, <3>2 DEF RemoveRefused, table, loop, TypeOK, Rounds
  <2>5. ASSUME NEW c \in Chans, Delete(c) PROVE IInv'
    BY <2>5, DeleteStep
  <2>9. ASSUME NEW c \in Chans, DestroyAcceptor(c) PROVE IInv'
    BY <2>0, <2>9, DestroyAcceptorStep
  <2>6. ASSUME NEW c \in Chans, Handle(c) PROVE IInv'
    <3>1. UNCHANGED <<kind, life, fd, events, index, table>>
      BY <2>6 DEF Handle
    <3>2. Tables' /\ \A d \in Chans : Registered(d) = Registered(d)'
      BY <3>1, TablesUnchanged
    <3>. QED
      BY <2>6, <3>2 DEF Handle, table, TypeOK, Rounds
  <2>7. ASSUME NEW H \in SUBSET Fds, NEW Q \in SUBSET H, Poll(H, Q) PROVE IInv'
    BY <2>0, <2>7, PollStep
  <2>8. CASE HandlerReturns \/ EndRound
    <3>1. UNCHANGED <<kind, life, fd, events, index, table>>
      BY <2>8 DEF HandlerReturns, EndRound
    <3>2. Tables' /\ \A d \in Chans : Registered(d) = Registered(d)'
      BY <3>1, TablesUnchanged
    <3>. QED
      BY <2>8, <3>2, NoneAssumption DEF HandlerReturns, EndRound, table, TypeOK, Rounds
  <2>. QED
    BY <1>2, <2>1, <2>2, <2>3, <2>4, <2>5, <2>6, <2>7, <2>8, <2>9 DEF Next
<1>. QED
  BY <1>1, <1>2

(* The invariant holds in every reachable state.                           *)
LEMMA Invariance == "poll" \notin ReEnabled /\ Spec => []IInv
BY InitHolds, InductiveInvariant, PTL DEF Spec
-----------------------------------------------------------------------------
(* Consistent follows: the kernel watches what each channel asks for ...   *)
LEMMA WatchedIsAsked ==
    ASSUME IInv, NEW c \in Chans, Registered(c)
    PROVE  Watched(c) = events[c]
<1>. USE DEF IInv
<1>1. fd[c] \in Fds /\ fd[c] \in Nat /\ channels[fd[c]] = c /\ life[c] = "alive"
  BY FdsAssumption DEF Tables, Lives, Registered
<1>2. CASE kind = "poll"
  <2>1. ASSUME NEW i \in DOMAIN pollfds, pollfds[i].fd = fd[c]
        PROVE  events[c] # {} /\ pollfds[i].events = events[c]
    <3>1. PICK d \in Chans : Registered(d) /\ index[d] + 1 = i
      BY <1>2 DEF Tables, PollTable
    <3>2. pollfds[i] = Entry(d) /\ fd[d] \in Nat /\ life[d] = "alive"
      BY <3>1, <1>2, FdsAssumption DEF Tables, PollTable, Lives, Registered
    <3>3. events[d] # {} /\ fd[d] = fd[c]
      BY <2>1, <3>2, <1>1 DEF Entry, Ignored
    <3>4. d = c
      BY <3>2, <3>3, <1>1 DEF Tables, Lives
    <3>. QED
      BY <3>2, <3>3, <3>4 DEF Entry
  <2>2. ASSUME events[c] # {}
        PROVE  \E i \in DOMAIN pollfds : pollfds[i].fd = fd[c]
    <3>1. index[c] + 1 \in DOMAIN pollfds /\ pollfds[index[c] + 1] = Entry(c)
      BY <1>2 DEF Tables, PollTable
    <3>. QED
      BY <2>2, <3>1 DEF Entry
  <2>3. Watched(c) = UNION {pollfds[i].events : i \in {j \in DOMAIN pollfds : pollfds[j].fd = fd[c]}}
    BY <1>2 DEF Watched
  <2>. QED
    BY <2>1, <2>2, <2>3
<1>3. CASE kind = "epoll"
  <2>1. index[c] = IF events[c] = {} THEN kDeleted ELSE kAdded
    BY <1>3 DEF Tables, EpollTable
  <2>2. epoll[fd[c]] = IF channels[fd[c]] # None /\ index[channels[fd[c]]] = kAdded
                       THEN [ptr |-> channels[fd[c]], events |-> events[channels[fd[c]]]]
                       ELSE Absent
    BY <1>1, <1>3 DEF Tables, EpollTable
  <2>3. epoll[fd[c]] = IF events[c] = {} THEN Absent ELSE [ptr |-> c, events |-> events[c]]
    BY <2>1, <2>2, <1>1, NoneAssumption DEF kAdded, kDeleted
  <2>. QED
    BY <2>3, <1>3, NoneAssumption DEF Watched, Absent
<1>. QED
  BY <1>2, <1>3 DEF TypeOK

(* ... and pollfds_ has one entry for each channel of channels_.           *)
LEMMA PollfdsCount ==
    ASSUME IInv, kind = "poll"
    PROVE  Len(pollfds) = Cardinality({c \in Chans : Registered(c)})
<1>. DEFINE S == {c \in Chans : Registered(c)}  n == Len(pollfds)  g == [c \in S |-> index[c] + 1]
<1>1. n \in Nat /\ DOMAIN pollfds = 1..n
  BY DEF IInv, TypeOK
<1>2. g \in [S -> 1..n]
  BY <1>1 DEF IInv, Tables, PollTable
<1>3. \A c, d \in S : g[c] = g[d] => c = d
  <2>. SUFFICES ASSUME NEW c \in S, NEW d \in S, g[c] = g[d] PROVE c = d
    OBVIOUS
  <2>1. index[c] = index[d]
    BY DEF IInv, TypeOK
  <2>. QED
    BY <2>1, IndexInjective
<1>4. \A i \in 1..n : \E c \in S : g[c] = i
  BY <1>1 DEF IInv, Tables, PollTable
<1>. HIDE DEF g, S, n
<1>5. g \in Bijection(S, 1..n)
  BY <1>2, <1>3, <1>4, Fun_IsBij
<1>6. ExistsBijection(1..n, S)
  BY <1>5, Fun_ExistsBijSymmetric DEF ExistsBijection
<1>7. Cardinality(S) = n
  BY <1>1, <1>6, FS_CountingElements
<1>. QED
  BY <1>7 DEF S, n

(* The tables of both pollers agree with the channels after any sequence   *)
(* of updates and removals, a channel that is still to be handled exists,  *)
(* and no assertion of the pollers fails but the two ActiveAreAlive names, *)
(* as long as the owners of a PollPoller's channels do not enable them     *)
(* again.                                                                  *)
THEOREM PollersAreConsistent == "poll" \notin ReEnabled /\ Spec => []Consistent
<1>1. IInv => Consistent
  <2>. SUFFICES ASSUME IInv PROVE Consistent
    OBVIOUS
  <2>. USE DEF IInv
  <2>1. ASSUME NEW c \in Chans, Registered(c), kind = "poll"
        PROVE  index[c] + 1 \in DOMAIN pollfds /\ pollfds[index[c] + 1].fd \in {fd[c], Ignored(fd[c])}
    <3>1. index[c] + 1 \in DOMAIN pollfds /\ pollfds[index[c] + 1] = Entry(c)
      BY <2>1 DEF Tables, PollTable
    <3>2. Entry(c).fd \in {fd[c], Ignored(fd[c])}
      BY DEF Entry
    <3>. QED
      BY <3>1, <3>2
  <2>2. ASSUME NEW f \in Fds, kind = "epoll"
        PROVE  epoll[f] # Absent <=> channels[f] # None /\ index[channels[f]] = kAdded
    <3>1. channels[f] # None => [ptr |-> channels[f], events |-> events[channels[f]]] # Absent
      BY DEF Absent
    <3>. QED
      BY <2>2, <3>1 DEF Tables, EpollTable
  <2>3. TablesAgree
    BY <2>1, <2>2, WatchedIsAsked, PollfdsCount DEF TablesAgree, Tables, AskersKnown, MapOfLiving
  <2>4. ActiveAreAlive
    BY DEF ActiveAreAlive, Rounds
  <2>. QED
    BY <2>3, <2>4 DEF Consistent
<1>. QED
  BY <1>1, Invariance, PTL
-----------------------------------------------------------------------------
(* The refinement of Registry.                                             *)

(* Counting a set of descriptors and the channels that channels_ maps them *)
(* to gives the same number.                                               *)
LEMMA SameCount ==
    ASSUME IInv, NEW Q \in SUBSET Fds,
           \A f \in Q : channels[f] # None
    PROVE  /\ IsFiniteSet(Q) /\ IsFiniteSet({channels[f] : f \in Q})
           /\ Cardinality({channels[f] : f \in Q}) = Cardinality(Q)
           /\ Cardinality(Q) \in Nat /\ Cardinality(Q) <= Cardinality(Fds)
<1>. DEFINE D == {channels[f] : f \in Q}  g == [f \in Q |-> channels[f]]
<1>1. IsFiniteSet(Q) /\ Cardinality(Q) <= Cardinality(Fds)
  BY FdsAssumption, FS_Subset
<1>2. Cardinality(Q) \in Nat
  BY <1>1, FS_CardinalityType
<1>3. g \in [Q -> D] /\ \A t \in D : \E f \in Q : g[f] = t
  OBVIOUS
<1>4. \A e, f \in Q : g[e] = g[f] => e = f
  BY DEF IInv, Tables, MapOfLiving
<1>. HIDE DEF g, D
<1>5. g \in Bijection(Q, D)
  BY <1>3, <1>4, Fun_IsBij
<1>6. ExistsBijection(Q, D)
  BY <1>5 DEF ExistsBijection
<1>7. IsFiniteSet(D) /\ Cardinality(D) = Cardinality(Q)
  BY <1>1, <1>6, FS_Bijection
<1>. QED
  BY <1>1, <1>2, <1>7 DEF D

(* The registry counts as the pollers do.                                  *)
LEMMA RegistryCounts == ASSUME NEW S PROVE R!Cardinality(S) = Cardinality(S)
BY DEF R!Cardinality, Cardinality

(* The smaller of two numbers.                                             *)
LEMMA MinOfTwo ==
    ASSUME NEW a \in Nat, NEW b \in Nat
    PROVE  R!Min({a, b}) = IF a <= b THEN a ELSE b
<1>. DEFINE m == IF a <= b THEN a ELSE b
<1>1. m \in {a, b} /\ \A y \in {a, b} : m <= y
  OBVIOUS
<1>2. \A x \in {a, b} : (\A y \in {a, b} : x <= y) => x = m
  OBVIOUS
<1>. QED
  BY <1>1, <1>2 DEF R!Min

(* What poll() owes the loop is what the kernel watches and found ready.   *)
LEMMA DueIsWatched ==
    ASSUME IInv, NEW H \in SUBSET Fds
    PROVE  R!Due(H) = {channels[f] : f \in H \cap WatchedFds}
<1>. DEFINE W == H \cap WatchedFds
<1>1. ASSUME NEW c \in R!Due(H) PROVE c \in {channels[f] : f \in W}
  <2>1. c \in Chans /\ events[c] # {} /\ fd[c] \in H
    BY <1>1 DEF R!Due
  <2>2. channels[fd[c]] = c
    BY <2>1 DEF IInv, Tables, AskersKnown, Registered
  <2>3. fd[c] \in WatchedFds
    BY <2>1, <2>2, WatchedAre, NoneAssumption
  <2>. QED
    BY <2>1, <2>2, <2>3
<1>2. ASSUME NEW f \in W PROVE channels[f] \in R!Due(H)
  <2>1. f \in Fds /\ channels[f] # None /\ events[channels[f]] # {}
    BY <1>2, WatchedAre
  <2>2. channels[f] \in Chans /\ fd[channels[f]] = f
    BY <2>1 DEF IInv, TypeOK, Tables, MapOfLiving
  <2>. QED
    BY <2>1, <2>2, <1>2 DEF R!Due
<1>. QED
  BY <1>1, <1>2

(* Each round reports as many of them as the event list holds.             *)
LEMMA PollRefines ==
    ASSUME IInv, NEW H \in SUBSET Fds, NEW Q \in SUBSET H, Poll(H, Q), failed = "none"
    PROVE  R!Poll
<1>. DEFINE W == H \cap WatchedFds
            cap == IF kind = "poll" THEN Cardinality(Fds) ELSE eventList
<1>1. /\ Q \subseteq W /\ active' = {channels[f] : f \in Q} /\ hot' = H
      /\ UNCHANGED <<events, fd, kind>>
  BY PollReports DEF Poll
<1>2. R!Due(H) = {channels[f] : f \in W}
  BY DueIsWatched
<1>3. \A f \in W : channels[f] # None
  BY WatchedAre
<1>4. /\ IsFiniteSet(Q) /\ Cardinality(active') = Cardinality(Q) /\ Cardinality(Q) \in Nat
      /\ Cardinality(Q) <= Cardinality(Fds)
  BY <1>1, <1>3, SameCount
<1>5. /\ IsFiniteSet(W) /\ Cardinality(R!Due(H)) = Cardinality(W) /\ Cardinality(W) \in Nat
      /\ Cardinality(W) <= Cardinality(Fds)
  BY <1>2, <1>3, SameCount
<1>6. Cardinality(Q) <= Cardinality(W)
  BY <1>1, <1>5, FS_Subset
<1>7. cap \in Nat /\ cap' >= cap
  <2>1. Cardinality(Fds) \in Nat
    BY FdsAssumption, FS_CardinalityType
  <2>2. eventList \in Nat /\ eventList' \in Nat /\ eventList' >= eventList
    BY DEF IInv, TypeOK, Poll, EventListAfter
  <2>. QED
    BY <2>1, <2>2, <1>1
<1>8. Cardinality(Q) = IF Cardinality(W) <= cap THEN Cardinality(W) ELSE cap
  <2>1. CASE kind = "poll"
    <3>1. Q = W
      BY <2>1 DEF Poll, PollReturns
    <3>. QED
      BY <2>1, <3>1, <1>5
  <2>2. CASE kind # "poll"
    <3>1. Cardinality(Q) <= eventList /\ (Q = W \/ Cardinality(Q) = eventList) /\ cap = eventList
      BY <2>2 DEF Poll, EpollReturns
    <3>. HIDE DEF W, cap
    <3>. QED
      BY <3>1, <1>4, <1>5, <1>6, <1>7
  <2>. QED
    BY <2>1, <2>2
<1>9. active' \subseteq R!Due(H)
  BY <1>1, <1>2
<1>. HIDE DEF W
<1>10. Cardinality(active') = R!Min({Cardinality(R!Due(H)), cap})
  BY <1>4, <1>5, <1>7, <1>8, MinOfTwo
<1>11. R!Due(hot') = R!Due(H)
  BY <1>1
<1>. QED
  BY <1>1, <1>7, <1>9, <1>10, <1>11, RegistryCounts DEF R!Poll

(* Every step of the pollers is a step of the registry or leaves it alone. *)
LEMMA RegistryStep == IInv /\ [Next]_vars => [R!Next]_(R!vars)
<1>. SUFFICES ASSUME IInv, [Next]_vars PROVE [R!Next]_(R!vars)
  OBVIOUS
<1>1. ASSUME NEW c \in Chans, NEW f \in Fds, NewChannel(c, f) PROVE R!Ask(c)
  BY <1>1 DEF NewChannel, R!Ask, loop, IInv, TypeOK
<1>2. ASSUME NEW c \in Chans, NEW ev \in SUBSET Events, Update(c, ev) PROVE R!Ask(c)
  BY <1>2 DEF Update, R!Ask, loop, IInv, TypeOK
<1>3. ASSUME NEW c \in Chans, Remove(c) \/ RemoveRefused(c) \/ Delete(c) \/ DestroyAcceptor(c) \/ Handle(c)
      PROVE  UNCHANGED R!vars
  BY <1>3 DEF Remove, DestroyAcceptor, RemoveRefused, Delete, Handle, loop, R!vars
<1>4. ASSUME NEW H \in SUBSET Fds, NEW Q \in SUBSET H, Poll(H, Q), failed = "none" PROVE R!Poll
  BY <1>4, PollRefines
<1>5. CASE HandlerReturns
  BY <1>5 DEF HandlerReturns, R!vars
<1>6. CASE EndRound
  BY <1>6 DEF EndRound, R!Clear, R!Next
<1>7. CASE UNCHANGED vars
  BY <1>7 DEF vars, loop, R!vars
<1>. QED
  BY <1>1, <1>2, <1>3, <1>4, <1>5, <1>6, <1>7 DEF Next, R!Next

(* The PollPoller and the EPollPoller implement the registry: a round      *)
(* reports channels that ask for something and are ready, and as many of   *)
(* them as there are or the event list holds, for any number of channels   *)
(* and any initial size of the list, as long as the owners of a            *)
(* PollPoller's channels do not enable them again.                         *)
THEOREM ImplementsRegistry == "poll" \notin ReEnabled /\ Spec => IsRegistry
<1>1. Init => R!Init
  BY DEF Init, R!Init
<1>. QED
  BY <1>1, RegistryStep, Invariance, PTL DEF Spec, IsRegistry, R!Spec
=============================================================================
